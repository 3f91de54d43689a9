---------------------------- MODULE MCBridgeMount ----------------------------
EXTENDS BridgeMount
=============================================================================
