\* Streams of up to five events.
CONSTANT MaxEvents = 5
SPECIFICATION Spec
INVARIANTS TypeOK TextOnce TextComplete BufferedAgrees EndAgrees
