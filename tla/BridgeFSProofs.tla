---------------------------- MODULE BridgeFSProofs ----------------------------
(***************************************************************************)
(* Proofs about BridgeFS, for any number of operations and paths, any tree *)
(* of files, and every value of the cache's TTL and of the timeout.        *)
(***************************************************************************)
EXTENDS BridgeFS, TLAPS

-----------------------------------------------------------------------------
(* The inductive invariant.                                                *)

\* The daemon has nothing to do for an operation that has not begun, and what
\* it is asked is known as long as somebody works on it.
Known ==
  \A o \in Ops :
    /\ at[o] = "idle" => job[o] = "none"
    /\ at[o] \in {"call", "got", "to"} \/ job[o] \in {"wait", "ask", "run", "half", "reply"}
         => req[o] \in Asks
    /\ at[o] \in {"got", "to"} => job[o] = "over"

\* Whoever holds version v of p may use it until t.
Holds(p, v, t) ==
  /\ v <= Version(p)
  /\ v = Version(p) \/ t <= born[p][v + 1] + CacheTTL + Timeout

\* The daemon's answer to a Getattr that still waits for it.
Coming(o) ==
  at[o] = "call" /\ job[o] = "reply" /\ req[o].m = "stat" /\ reply[o].code # "error"

\* A call is not past its deadline, and that is not far away.
InTime ==
  \A o \in Ops : at[o] \in {"call", "got"} => now <= deadline[o] /\ deadline[o] <= now + Timeout

\* What is cached, answered or on its way was current when it was read.
HeldInv ==
  /\ \A p \in Paths : cache[p] # None =>
       cache[p].expires <= now + CacheTTL + Timeout /\ Holds(p, cache[p].v, cache[p].expires)
  /\ \A o \in Ops : Coming(o) => Holds(req[o].p, reply[o].v, deadline[o] + CacheTTL)
  /\ \A o \in Ops : Fills(o) => Holds(req[o].p, ans[o].v, deadline[o] + CacheTTL)

\* Version v, which o has read, is not older than an acknowledged change.
UpToDate(o, v) == req[o].p # Root => v >= acked[req[o].p] \/ crossed[o]

AckedInv ==
  /\ \A p \in Paths : acked[p] <= Version(p)
  /\ \A o \in Ops, p \in Paths : made[o][p] <= Version(p)
  /\ AckedSeen
  /\ \A o \in Ops : Coming(o) => UpToDate(o, reply[o].v)
  /\ \A o \in Ops : Fills(o) => UpToDate(o, ans[o].v)

IInv == TypeOK /\ Known /\ InTime /\ HeldInv /\ AckedInv

-----------------------------------------------------------------------------
(* Facts about the operators.                                              *)

\* What a change leaves of the types.
LEMMA ChangeTyped ==
  ASSUME TypeOK, NEW to \in [Paths -> Kinds], NEW S, Change(to, S)
  PROVE  /\ disk' \in [Paths -> Kinds] /\ born' \in [Paths -> Seq(Nat)]
         /\ \A p \in Paths : Version(p)' = IF p \in S THEN Version(p) + 1 ELSE Version(p)
         /\ \A p \in Paths : \A i \in 1 .. Version(p) : born'[p][i] = born[p][i]
         /\ \A p \in S \cap Paths : born'[p][Version(p) + 1] = now
<1>1. now \in Nat /\ born \in [Paths -> Seq(Nat)]  BY DEF TypeOK
<1>2. disk' \in [Paths -> Kinds]  BY DEF Change
<1>3. born' = [p \in Paths |-> IF p \in S THEN Append(born[p], now) ELSE born[p]]
  BY DEF Change
<1>4. born' \in [Paths -> Seq(Nat)]  BY <1>1, <1>3
<1>5. ASSUME NEW p \in Paths
      PROVE  /\ Version(p)' = IF p \in S THEN Version(p) + 1 ELSE Version(p)
             /\ \A i \in 1 .. Version(p) : born'[p][i] = born[p][i]
             /\ p \in S => born'[p][Version(p) + 1] = now
  <2>1. born[p] \in Seq(Nat)  BY <1>1
  <2>2. CASE p \in S  BY <1>1, <1>3, <2>1, <2>2 DEF Version
  <2>3. CASE p \notin S  BY <1>3, <2>1, <2>3 DEF Version
  <2> QED  BY <2>2, <2>3
<1> QED  BY <1>2, <1>4, <1>5

\* Whatever version one holds, a change leaves it usable for a TTL and a call.
LEMMA ChangeHolds ==
  ASSUME TypeOK, NEW to \in [Paths -> Kinds], NEW S, Change(to, S),
         NEW p \in Paths, NEW v \in Nat, NEW t \in Nat,
         Holds(p, v, t), t <= now + CacheTTL + Timeout
  PROVE  Holds(p, v, t)'
<1>1. /\ now \in Nat /\ Version(p) \in Nat /\ Version(p)' \in Nat
      /\ \A i \in 1 .. Version(p) : born[p][i] \in Nat
  BY ChangeTyped, SMTT(40) DEF TypeOK, Version
<1>2. CacheTTL \in Nat /\ Timeout \in Nat  BY FSAssumption
<1>3. CASE v = Version(p)
  <2>1. CASE p \in S
    <3>1. Version(p)' = v + 1  BY <1>3, <2>1, ChangeTyped
    <3>2. born'[p][v + 1] = now  BY <1>3, <2>1, ChangeTyped
    <3> QED  BY <1>1, <1>2, <3>1, <3>2 DEF Holds
  <2>2. CASE p \notin S
    <3>1. Version(p)' = v  BY <1>3, <2>2, ChangeTyped
    <3> QED  BY <1>1, <3>1 DEF Holds
  <2> QED  BY <2>1, <2>2
<1>4. CASE v # Version(p)
  <2>1. v + 1 \in 1 .. Version(p)  BY <1>1, <1>4 DEF Holds
  <2>2. \A i \in 1 .. Version(p) : born'[p][i] = born[p][i]  BY ChangeTyped
  <2>3. born'[p][v + 1] = born[p][v + 1]  BY <2>1, <2>2
  <2>4. Version(p)' = IF p \in S THEN Version(p) + 1 ELSE Version(p)  BY ChangeTyped
  <2>5. Version(p) <= Version(p)'  BY <1>1, <2>4
  <2> QED  BY <1>1, <1>2, <1>4, <2>1, <2>3, <2>5 DEF Holds
<1> QED  BY <1>3, <1>4

\* Nor does a change of the disk take a version away.
LEMMA ChangeGrows ==
  ASSUME TypeOK, NEW to \in [Paths -> Kinds], NEW S, Change(to, S)
  PROVE  \A p \in Paths : Version(p) \in Nat /\ Version(p)' \in Nat /\ Version(p) <= Version(p)'
<1>1. \A p \in Paths : Version(p) \in Nat  BY DEF TypeOK, Version
<1> QED  BY <1>1, ChangeTyped

\* Except for the root, the directory of a path is what filepath.Dir says.
LEMMA DirDropped ==
  ASSUME NEW p, p \in Seq(STRING), NEW k \in Touched(p), k # Root
  PROVE  k \in Dropped(p)
  BY DEF Touched, Dropped, FilepathDir, Parent, Root

\* What the actions ask and answer.
LEMMA Typed ==
  /\ CacheTTL \in Nat /\ Timeout \in Nat /\ Buffer \in Nat /\ None \notin Ops /\ None \notin Asks
  /\ NoneMade \in [Paths -> Nat] /\ NoAnswer \in Answer
  /\ \A r \in Asks : r.m \in Methods /\ r.p \in Paths /\ r.q \in Paths
  BY FSAssumption DEF NoneMade, NoAnswer, Answer

-----------------------------------------------------------------------------
(* Type correctness.                                                       *)

\* At first the variables have their types, the cache is empty and nothing is asked.
LEMMA InitType == Init => TypeOK
  BY FSAssumption, Typed DEF Init, TypeOK

\* The cache holds entries, and loses some.
LEMMA InvalidateTyped ==
  ASSUME TypeOK, NEW p, InvalidateCache(p)
  PROVE  cache' \in [Paths -> Entry \cup {None}]
  BY DEF TypeOK, InvalidateCache

\* Acknowledging keeps the types of the two histories it changes.
LEMMA AcknowledgeTyped ==
  ASSUME TypeOK, NEW o \in Ops, NEW p, Acknowledge(o, p)
  PROVE  /\ acked' \in [Paths -> Nat] /\ crossed' \in [Ops -> BOOLEAN]
         /\ \A k \in Paths : acked'[k] \in {acked[k], made[o][k]}
<1>1. acked \in [Paths -> Nat] /\ made[o] \in [Paths -> Nat]  BY DEF TypeOK
<1>2. acked' = [k \in Paths |-> IF k \in Touched(p) THEN Greater(acked[k], made[o][k]) ELSE acked[k]]
  BY DEF Acknowledge
<1>3. \A k \in Paths : acked'[k] \in {acked[k], made[o][k]}  BY <1>1, <1>2 DEF Greater
<1>4. acked' \in [Paths -> Nat]  BY <1>1, <1>2, <1>3
<1>5. crossed' \in [Ops -> BOOLEAN]  BY DEF Acknowledge, TypeOK
<1> QED  BY <1>3, <1>4, <1>5

\* The steps of the FUSE calls keep the types.
LEMMA FuseTyped ==
  ASSUME TypeOK, Known, NEW o \in Ops,
         \/ \E r \in Asks : Hit(o, r) \/ Miss(o, r) \/ Start(o, r)
         \/ CallFails(o) \/ FuseStep(o)
  PROVE  TypeOK'
<1> USE Typed DEF fuseVars, cacheVars, diskVars, daemonVars
<1>1. ASSUME NEW r \in Asks, Hit(o, r)  PROVE TypeOK'
  BY <1>1 DEF TypeOK, Hit
<1>2. ASSUME NEW r \in Asks, Miss(o, r)  PROVE TypeOK'
  <2>1. prompt # o  BY <1>2 DEF TypeOK, Known, Miss, Called
  <2> QED  BY <1>2, <2>1 DEF TypeOK, Miss, Called
<1>3. ASSUME NEW r \in Asks, Start(o, r)  PROVE TypeOK'
  <2>1. prompt # o  BY <1>3 DEF TypeOK, Known, Start, Called
  <2> QED  BY <1>3, <2>1 DEF TypeOK, Start, Called
<1>4. CASE CallFails(o)
  BY <1>4 DEF TypeOK, CallFails, Forgets
<1>5. CASE Response(o)
  <2>1. prompt # o /\ reply[o] \in Answer  BY <1>5 DEF TypeOK, Response
  <2>2. /\ at' \in [Ops -> {"idle", "call", "got", "to", "done"}] /\ ans' \in [Ops -> Answer]
        /\ req' \in [Ops -> Asks \cup {None}]
    BY <1>5, <2>1 DEF TypeOK, Response
  <2>3. /\ job' \in [Ops -> {"none", "wait", "ask", "run", "half", "reply", "over"}]
        /\ reply' \in [Ops -> Answer]
        /\ \A x \in Ops \ {o} : job'[x] = job[x]
    BY <1>5 DEF TypeOK, Response
  <2>4. UNCHANGED <<now, deadline, crossed, cacheVars, diskVars, prompt, events>>  BY <1>5 DEF Response
  <2> QED  BY <2>1, <2>2, <2>3, <2>4 DEF TypeOK
<1>6. CASE CachePut(o)
  <2>1. [code |-> ans[o].code, v |-> ans[o].v, expires |-> now + CacheTTL, crossed |-> crossed[o]] \in Entry
    BY <1>6 DEF TypeOK, CachePut, Fills, Entry, Answer
  <2> QED  BY <1>6, <2>1 DEF TypeOK, CachePut, Fills, Returns, Forgets
<1>7. CASE ReturnsOnly(o)
  BY <1>7 DEF TypeOK, ReturnsOnly, Returns, Forgets
<1>8. CASE Invalidates(o)
  <2>1. cache' \in [Paths -> Entry \cup {None}] /\ acked' \in [Paths -> Nat] /\ crossed' \in [Ops -> BOOLEAN]
    BY <1>8, InvalidateTyped, AcknowledgeTyped DEF Invalidates
  <2> QED  BY <1>8, <2>1 DEF TypeOK, Invalidates, Returns, Forgets
<1>9. CASE InvalidatesFrom(o)
  <2>1. cache' \in [Paths -> Entry \cup {None}] /\ acked' \in [Paths -> Nat] /\ crossed' \in [Ops -> BOOLEAN]
    BY <1>9, InvalidateTyped, AcknowledgeTyped DEF InvalidatesFrom
  <2> QED  BY <1>9, <2>1 DEF TypeOK, InvalidatesFrom
<1>10. CASE InvalidatesTo(o)
  <2>1. cache' \in [Paths -> Entry \cup {None}] /\ acked' \in [Paths -> Nat] /\ crossed' \in [Ops -> BOOLEAN]
    BY <1>10, InvalidateTyped, AcknowledgeTyped DEF InvalidatesTo
  <2> QED  BY <1>10, <2>1 DEF TypeOK, InvalidatesTo, Returns, Forgets
<1> QED  BY <1>1, <1>2, <1>3, <1>4, <1>5, <1>6, <1>7, <1>8, <1>9, <1>10 DEF FuseStep

\* What a request does to the disk is typed, and leaves alone what is another's.
LEMMA ByRequestTyped ==
  ASSUME TypeOK, NEW o \in Ops, NEW S, ByRequest(o, S)
  PROVE  made' \in [Ops -> [Paths -> Nat]]
<1>1. born \in [Paths -> Seq(Nat)] /\ made \in [Ops -> [Paths -> Nat]]  BY DEF TypeOK
<1>2. \A p \in Paths : Version(p) \in Nat  BY <1>1 DEF Version
<1>3. [p \in Paths |-> IF p \in S /\ at[o] = "call" THEN Version(p) + 1 ELSE made[o][p]] \in [Paths -> Nat]
  BY <1>1, <1>2
<1> QED  BY <1>1, <1>3 DEF ByRequest

\* A response frame has a code and a version.
LEMMA RepliesTyped ==
  ASSUME TypeOK, Known, NEW o \in Ops, NEW code \in {"ok", "not_found", "error"},
         req[o] \in Asks, Replies(o, code)
  PROVE  reply' \in [Ops -> Answer]
<1>1. Version(req[o].p) \in Nat  BY Typed DEF TypeOK, Version
<1> QED  BY <1>1 DEF TypeOK, Replies, Answer

JobStates == {"none", "wait", "ask", "run", "half", "reply", "over"}

\* A goroutine of the daemon goes from one of its places to another.
LEMMA JobGoesTyped ==
  ASSUME TypeOK, Known, NEW o \in Ops, NEW from \in {"wait", "ask", "run", "half"},
         NEW to \in JobStates, JobGoes(o, from, to)
  PROVE  /\ job' \in [Ops -> JobStates] /\ req[o] \in Asks
         /\ \A x \in Ops \ {o} : job'[x] = job[x]
         /\ job[o] = from /\ job'[o] = to
         /\ UNCHANGED <<now, fuseVars, cacheVars, edits, events>>
  BY DEF TypeOK, Known, JobGoes, JobStates

\* The new disk of each change is a disk.
LEMMA DisksTyped ==
  ASSUME TypeOK
  PROVE  /\ disk \in [Paths -> Kinds]
         /\ \A p \in Paths, kind \in Kinds : Put(p, kind) \in [Paths -> Kinds]
         /\ \A p \in Paths, q \in Paths : Moved(p, q) \in [Paths -> Kinds]
<1>1. disk \in [Paths -> Kinds]  BY DEF TypeOK
<1>2. ASSUME NEW p \in Paths, NEW kind \in Kinds  PROVE Put(p, kind) \in [Paths -> Kinds]
  BY <1>1 DEF Put
<1>3. ASSUME NEW p \in Paths, NEW q \in Paths  PROVE Moved(p, q) \in [Paths -> Kinds]
  BY <1>1 DEF Moved, Kinds
<1> QED  BY <1>1, <1>2, <1>3

\* What the user does is a change of the disk.
LEMMA EditChanges ==
  ASSUME TypeOK, NEW p \in Paths, Edit(p)
  PROVE  \E to \in [Paths -> Kinds], S \in SUBSET Paths : Change(to, S)
<1>1. {p} \in SUBSET Paths /\ Touched(p) \in SUBSET Paths  BY DEF Touched
<1>2. \A kind \in {"none", "file", "dir"} : Put(p, kind) \in [Paths -> Kinds]
  BY DisksTyped DEF Kinds
<1>3. disk \in [Paths -> Kinds]  BY DisksTyped
<1>4. \/ Change(disk, {p})
      \/ \E kind \in {"none", "file", "dir"} : Change(Put(p, kind), Touched(p))
  BY DEF Edit
<1> QED  BY <1>1, <1>2, <1>3, <1>4

-----------------------------------------------------------------------------
(* The steps of the daemon.                                                *)

\* A step changes the disk as a request that may, or leaves it alone.
DiskShape(o) ==
  \/ UNCHANGED <<disk, born, made>>
  \/ /\ req[o].m \notin Queries
     /\ \E to \in [Paths -> Kinds], S \in SUBSET Paths : Change(to, S) /\ ByRequest(o, S)

\* What every step of the daemon for o has in common.
Shape(o) ==
  /\ UNCHANGED <<now, fuseVars, cacheVars, edits, events>>
  /\ req[o] \in Asks /\ job[o] \in {"wait", "ask", "run", "half"}
  /\ job' \in [Ops -> JobStates] /\ job'[o] \in {"ask", "run", "half", "reply"}
  /\ reply' \in [Ops -> Answer]
  /\ \A x \in Ops \ {o} : job'[x] = job[x] /\ reply'[x] = reply[x]
  /\ job'[o] = "reply" => reply'[o].v = Version(req[o].p)
  /\ prompt' \in Ops \cup {None} /\ (prompt' # None => job'[prompt'] = "ask")
  /\ DiskShape(o)

\* The daemon's steps that leave the disk alone, by the variables they change.
LEMMA QuietShape ==
  ASSUME TypeOK, Known, NEW o \in Ops, NEW from \in {"wait", "run", "half"},
         NEW to \in {"ask", "run", "half", "reply"}, JobGoes(o, from, to), prompt' = prompt,
         \/ to # "reply" /\ reply' = reply
         \/ \E code \in {"ok", "not_found", "error"} : Replies(o, code),
         DiskShape(o)
  PROVE  Shape(o)
<1>1. /\ job' \in [Ops -> JobStates] /\ req[o] \in Asks
      /\ \A x \in Ops \ {o} : job'[x] = job[x]
      /\ job[o] = from /\ job'[o] = to
      /\ UNCHANGED <<now, fuseVars, cacheVars, edits, events>>
  BY JobGoesTyped DEF JobStates
<1>2. prompt # o  BY <1>1, Typed DEF TypeOK
<1>3. /\ reply' \in [Ops -> Answer] /\ \A x \in Ops \ {o} : reply'[x] = reply[x]
      /\ to = "reply" => reply'[o].v = Version(req[o].p)
  <2>1. CASE to # "reply" /\ reply' = reply  BY <2>1 DEF TypeOK
  <2>2. CASE \E code \in {"ok", "not_found", "error"} : Replies(o, code)
    <3>1. PICK code \in {"ok", "not_found", "error"} : Replies(o, code)  BY <2>2
    <3>2. reply' \in [Ops -> Answer]  BY <1>1, <3>1, RepliesTyped
    <3> QED  BY <3>1, <3>2 DEF Replies, TypeOK
  <2> QED  BY <2>1, <2>2
<1>4. prompt' \in Ops \cup {None} /\ (prompt' # None => job'[prompt'] = "ask")
  BY <1>1, <1>2 DEF TypeOK
<1> QED  BY <1>1, <1>3, <1>4 DEF Shape

\* The prompt is taken and given back.
LEMMA PromptShape ==
  ASSUME TypeOK, Known, NEW o \in Ops, Prompt(o) \/ Approved(o) \/ Denied(o)
  PROVE  Shape(o)
<1> USE Typed
<1>1. CASE Prompt(o)
  <2>1. req[o] \in Asks  BY <1>1 DEF Known, Prompt
  <2> QED  BY <1>1, <2>1 DEF Prompt, Shape, DiskShape, TypeOK, JobStates, diskVars
<1>2. CASE Approved(o)
  <2>1. /\ job' \in [Ops -> JobStates] /\ req[o] \in Asks
        /\ \A x \in Ops \ {o} : job'[x] = job[x]
        /\ job[o] = "ask" /\ job'[o] = "run"
        /\ UNCHANGED <<now, fuseVars, cacheVars, edits, events>>
    BY <1>2, JobGoesTyped DEF JobStates, Approved
  <2> QED  BY <1>2, <2>1 DEF Approved, Shape, DiskShape, TypeOK, diskVars
<1>3. CASE Denied(o)
  <2>1. /\ job' \in [Ops -> JobStates] /\ req[o] \in Asks
        /\ \A x \in Ops \ {o} : job'[x] = job[x]
        /\ job[o] = "ask" /\ job'[o] = "reply"
        /\ UNCHANGED <<now, fuseVars, cacheVars, edits, events>>
    BY <1>3, JobGoesTyped DEF JobStates, Denied
  <2>2. reply' \in [Ops -> Answer]  BY <1>3, <2>1, RepliesTyped DEF Denied
  <2>3. reply'[o].v = Version(req[o].p) /\ \A x \in Ops \ {o} : reply'[x] = reply[x]
    BY <1>3 DEF Denied, Replies, TypeOK
  <2> QED  BY <1>3, <2>1, <2>2, <2>3 DEF Denied, Shape, DiskShape, TypeOK, diskVars
<1> QED  BY <1>1, <1>2, <1>3

\* Every step of the daemon leaves the disk alone, or is a typed change of it
\* that names its maker.
LEMMA DaemonShape ==
  ASSUME TypeOK, Known, NEW o \in Ops, DaemonStep(o)
  PROVE  Shape(o)
<1> USE Typed, DisksTyped DEF diskVars
<1>1. CASE Query(o)
  <2>1. \E code \in {"ok", "not_found", "error"} : Replies(o, code)  BY <1>1 DEF Query, Found
  <2> QED  BY <1>1, <2>1, QuietShape DEF Query, DiskShape
<1>2. CASE HandlerFails(o)
  <2>1. PICK from \in {"wait", "run", "half"} : JobGoes(o, from, "reply")  BY <1>2 DEF HandlerFails
  <2>2. Replies(o, "error") /\ prompt' = prompt /\ DiskShape(o)  BY <1>2 DEF HandlerFails, DiskShape
  <2> QED  BY <2>1, <2>2, QuietShape
<1>3. CASE Admitted(o)
  <2>1. PICK to \in {"ask", "run"} : JobGoes(o, "wait", to)  BY <1>3 DEF Admitted
  <2>2. reply' = reply /\ prompt' = prompt /\ DiskShape(o)  BY <1>3 DEF Admitted, DiskShape
  <2> QED  BY <2>1, <2>2, QuietShape
<1>4. CASE Prompt(o) \/ Approved(o) \/ Denied(o)
  BY <1>4, PromptShape
<1>5. CASE OpenFile(o)
  <2>1. JobGoes(o, "run", "half") /\ reply' = reply /\ prompt' = prompt  BY <1>5 DEF OpenFile
  <2>2. req[o] \in Asks  BY <2>1, JobGoesTyped DEF JobStates
  <2>3. DiskShape(o)
    <3>1. CASE UNCHANGED diskVars  BY <3>1 DEF DiskShape
    <3>2. CASE ~UNCHANGED diskVars
      <4> DEFINE p == req[o].p
      <4>1. Touched(p) \in SUBSET Paths /\ Put(p, "file") \in [Paths -> Kinds]
        BY <2>2 DEF Touched, Put, Kinds
      <4>2. Change(Put(p, "file"), Touched(p)) /\ ByRequest(o, Touched(p))
        BY <1>5, <3>2 DEF OpenFile, diskVars
      <4>3. req[o].m \notin Queries  BY <1>5 DEF OpenFile, Queries
      <4> QED  BY <4>1, <4>2, <4>3 DEF DiskShape
    <3> QED  BY <3>1, <3>2
  <2> QED  BY <2>1, <2>3, QuietShape
<1>6. CASE WriteData(o)
  <2>1. JobGoes(o, "half", "reply") /\ prompt' = prompt  BY <1>6 DEF WriteData
  <2>2. req[o].m \notin Queries  BY <1>6 DEF WriteData, Queries
  <2>3. Replies(o, "ok") \/ Replies(o, "error")  BY <1>6 DEF WriteData
  <2>4. DiskShape(o)
    <3>1. CASE UNCHANGED diskVars  BY <3>1 DEF DiskShape
    <3>2. ASSUME NEW k \in Paths, Change(disk, {k}), ByRequest(o, {k})
          PROVE  DiskShape(o)
      <4>1. disk \in [Paths -> Kinds] /\ {k} \in SUBSET Paths  BY <3>2 DEF TypeOK
      <4> QED  BY <2>2, <3>2, <4>1 DEF DiskShape
    <3>3. \/ \E k \in Paths : Change(disk, {k}) /\ ByRequest(o, {k})
          \/ UNCHANGED diskVars
      BY <1>6 DEF WriteData
    <3> QED  BY <3>1, <3>2, <3>3
  <2> QED  BY <2>1, <2>3, <2>4, QuietShape
<1>7. ASSUME NEW methods, methods \cap Queries = {}, Handling(o, methods),
             NEW to \in [Paths -> Kinds], NEW S \in SUBSET Paths, Change(to, S), Handled(o, S)
      PROVE  Shape(o)
  <2>1. JobGoes(o, "run", "reply") /\ prompt' = prompt /\ Replies(o, "ok")
    BY <1>7 DEF Handling, Handled
  <2>2. req[o].m \notin Queries /\ ByRequest(o, S)  BY <1>7 DEF Handling, Handled
  <2>3. DiskShape(o)  BY <1>7, <2>2 DEF DiskShape
  <2> QED  BY <2>1, <2>3, QuietShape
<1>8. ASSUME NEW methods, Handling(o, methods)  PROVE req[o] \in Asks
  BY <1>8, JobGoesTyped DEF Handling, JobStates
<1>9. CASE CreateEntry(o)
  <2>1. Handling(o, {"create", "mkdir"})  BY <1>9 DEF CreateEntry
  <2>2. req[o].p \in Paths /\ Touched(req[o].p) \in SUBSET Paths  BY <1>8, <2>1 DEF Touched
  <2>3. PICK kind \in Kinds : /\ Change(Put(req[o].p, kind), Touched(req[o].p))
                             /\ Handled(o, Touched(req[o].p))
    BY <1>9 DEF CreateEntry, Kinds
  <2>4. Put(req[o].p, kind) \in [Paths -> Kinds]  BY <2>2
  <2> QED  BY <1>7, <2>1, <2>2, <2>3, <2>4 DEF Queries
<1>10. CASE Remove(o)
  <2>1. Handling(o, {"remove"})  BY <1>10 DEF Remove
  <2>2. req[o].p \in Paths /\ Touched(req[o].p) \in SUBSET Paths  BY <1>8, <2>1 DEF Touched
  <2>3. Put(req[o].p, "none") \in [Paths -> Kinds]  BY <2>2 DEF Kinds
  <2>4. Change(Put(req[o].p, "none"), Touched(req[o].p)) /\ Handled(o, Touched(req[o].p))
    BY <1>10 DEF Remove
  <2> QED  BY <1>7, <2>1, <2>2, <2>3, <2>4 DEF Queries
<1>11. CASE Rename(o)
  <2>1. Handling(o, {"rename"})  BY <1>11 DEF Rename
  <2>2. req[o].p \in Paths /\ req[o].q \in Paths  BY <1>8, <2>1
  <2> DEFINE p == req[o].p
             q == req[o].q
             S == {c \in Under(p) \cup Under(q) : disk[c] # "none" \/ Moved(p, q)[c] # "none"}
                    \cup Touched(p) \cup Touched(q)
  <2>3. S \in SUBSET Paths  BY DEF Under, Touched
  <2>4. Moved(p, q) \in [Paths -> Kinds]  BY <2>2
  <2>5. Change(Moved(p, q), S) /\ Handled(o, S)  BY <1>11 DEF Rename
  <2> QED  BY <1>7, <2>1, <2>3, <2>4, <2>5 DEF Queries
<1>12. CASE Chmod(o)
  <2>1. Handling(o, {"chmod"})  BY <1>12 DEF Chmod
  <2>2. {req[o].p} \in SUBSET Paths  BY <1>8, <2>1
  <2>3. Change(disk, {req[o].p}) /\ Handled(o, {req[o].p})  BY <1>12 DEF Chmod
  <2> QED  BY <1>7, <2>1, <2>2, <2>3 DEF Queries
<1> QED
  BY <1>1, <1>2, <1>3, <1>4, <1>5, <1>6, <1>9, <1>10, <1>11, <1>12 DEF DaemonStep

-----------------------------------------------------------------------------
(* Type correctness, and what is known.                                    *)

\* Every step keeps the types.
LEMMA TypeStep == TypeOK /\ Known /\ [Next]_vars => TypeOK'
<1> SUFFICES ASSUME TypeOK, Known, [Next]_vars  PROVE TypeOK'
  OBVIOUS
<1> USE Typed DEF fuseVars, cacheVars, diskVars, daemonVars
<1>1. ASSUME NEW o \in Ops,
             \/ \E r \in Asks : Hit(o, r) \/ Miss(o, r) \/ Start(o, r)
             \/ CallFails(o) \/ FuseStep(o)
      PROVE  TypeOK'
  BY <1>1, FuseTyped
<1>2. ASSUME NEW o \in Ops, DaemonStep(o)  PROVE TypeOK'
  <2>1. Shape(o)  BY <1>2, DaemonShape
  <2>2. disk' \in [Paths -> Kinds] /\ born' \in [Paths -> Seq(Nat)] /\ made' \in [Ops -> [Paths -> Nat]]
    <3>1. CASE UNCHANGED <<disk, born, made>>  BY <3>1 DEF TypeOK
    <3>2. ASSUME NEW to \in [Paths -> Kinds], NEW S \in SUBSET Paths, Change(to, S), ByRequest(o, S)
          PROVE  disk' \in [Paths -> Kinds] /\ born' \in [Paths -> Seq(Nat)] /\ made' \in [Ops -> [Paths -> Nat]]
      BY <3>2, ChangeTyped, ByRequestTyped
    <3> QED  BY <2>1, <3>1, <3>2 DEF Shape, DiskShape
  <2> QED  BY <2>1, <2>2 DEF Shape, TypeOK, JobStates
<1>3. ASSUME NEW p \in Paths, Edit(p)  PROVE TypeOK'
  <2>1. PICK to \in [Paths -> Kinds], S \in SUBSET Paths : Change(to, S)
    BY <1>3, EditChanges
  <2>2. disk' \in [Paths -> Kinds] /\ born' \in [Paths -> Seq(Nat)]  BY <2>1, ChangeTyped
  <2> QED  BY <1>3, <2>2 DEF Edit, TypeOK
<1>4. ASSUME NEW p \in Paths, Watched(p)  PROVE TypeOK'
  <2>1. events' \in Seq(Paths) /\ Len(events') <= Buffer  BY <1>4 DEF Watched, TypeOK
  <2> QED  BY <1>4, <2>1 DEF Watched, TypeOK
<1>5. CASE EventInvalidates
  <2>1. events' \in Seq(Paths) /\ Len(events') <= Buffer  BY <1>5 DEF EventInvalidates, TypeOK
  <2>2. cache' \in [Paths -> Entry \cup {None}]  BY <1>5, InvalidateTyped DEF EventInvalidates
  <2> QED  BY <1>5, <2>1, <2>2 DEF EventInvalidates, TypeOK
<1>6. CASE Tick  BY <1>6 DEF Tick, TypeOK
<1>7. CASE Over \/ UNCHANGED vars  BY <1>7 DEF Over, vars, TypeOK
<1> QED  BY <1>1, <1>2, <1>3, <1>4, <1>5, <1>6, <1>7 DEF Next

\* The steps that leave the operations and the daemon alone.
Aside == (\E p \in Paths : Edit(p) \/ Watched(p)) \/ EventInvalidates \/ Tick \/ Over \/ UNCHANGED vars

\* No step makes the cache, a response or a history name a version that is not.
LEMMA KnownStep == TypeOK /\ Known /\ [Next]_vars => Known'
<1> SUFFICES ASSUME TypeOK, Known, [Next]_vars, NEW x \in Ops
             PROVE  /\ at'[x] = "idle" => job'[x] = "none"
                    /\ at'[x] \in {"call", "got", "to"} \/ job'[x] \in {"wait", "ask", "run", "half", "reply"}
                         => req'[x] \in Asks
                    /\ at'[x] \in {"got", "to"} => job'[x] = "over"
  BY DEF Known
<1> USE DEF fuseVars, cacheVars, diskVars, daemonVars
<1>1. CASE \E o \in Ops, r \in Asks : Hit(o, r) \/ Miss(o, r) \/ Start(o, r)
  <2>1. PICK o \in Ops, r \in Asks : Hit(o, r) \/ Miss(o, r) \/ Start(o, r)  BY <1>1
  <2>2. CASE Hit(o, r)
    <3>1. at' = [at EXCEPT ![o] = "done"] /\ at[o] = "idle" /\ UNCHANGED <<job, req>>  BY <2>2 DEF Hit
    <3> QED  BY <3>1 DEF TypeOK, Known
  <2>3. CASE Miss(o, r) \/ Start(o, r)  BY <2>3 DEF Miss, Start, Called, TypeOK, Known
  <2> QED  BY <2>1, <2>2, <2>3
<1>2. CASE \E o \in Ops : CallFails(o)
  BY <1>2 DEF CallFails, Forgets, TypeOK, Known
<1>3. CASE \E o \in Ops : Response(o)
  BY <1>3 DEF Response, TypeOK, Known
<1>4. CASE \E o \in Ops : CachePut(o) \/ ReturnsOnly(o) \/ Invalidates(o) \/ InvalidatesTo(o)
  BY <1>4 DEF CachePut, Fills, ReturnsOnly, Invalidates, InvalidatesTo, Returns, Forgets, TypeOK, Known
<1>5. CASE \E o \in Ops : InvalidatesFrom(o)
  BY <1>5 DEF InvalidatesFrom, TypeOK, Known
<1>6. CASE \E o \in Ops : DaemonStep(o)
  BY <1>6, DaemonShape DEF Shape, TypeOK, Known
<1>7. CASE Aside
  BY <1>7 DEF Aside, Edit, Watched, EventInvalidates, Tick, Over, vars, Known
<1> QED  BY <1>1, <1>2, <1>3, <1>4, <1>5, <1>6, <1>7 DEF Next, FuseStep, Aside

\* No step lets a call outlive its deadline.
LEMMA InTimeStep == TypeOK /\ InTime /\ [Next]_vars => InTime'
<1> SUFFICES ASSUME TypeOK, InTime, [Next]_vars, NEW x \in Ops, at'[x] \in {"call", "got"}
             PROVE  now' <= deadline'[x] /\ deadline'[x] <= now' + Timeout
  BY DEF InTime
<1> USE Typed DEF fuseVars, cacheVars, diskVars, daemonVars
<1>1. CASE \E o \in Ops, r \in Asks : Hit(o, r) \/ Miss(o, r) \/ Start(o, r)
  <2>1. PICK o \in Ops, r \in Asks : Hit(o, r) \/ Miss(o, r) \/ Start(o, r)  BY <1>1
  <2>2. CASE Hit(o, r)
    <3>1. at' = [at EXCEPT ![o] = "done"] /\ UNCHANGED <<now, deadline>>  BY <2>2 DEF Hit
    <3> QED  BY <3>1 DEF TypeOK, InTime
  <2>3. CASE Miss(o, r) \/ Start(o, r)
    <3>1. /\ at' = [at EXCEPT ![o] = "call"] /\ UNCHANGED now
          /\ deadline' = [deadline EXCEPT ![o] = now + Timeout]
      BY <2>3 DEF Miss, Start, Called
    <3> QED  BY <3>1 DEF TypeOK, InTime
  <2> QED  BY <2>1, <2>2, <2>3
<1>2. CASE \E o \in Ops : CallFails(o)
  BY <1>2 DEF CallFails, Forgets, TypeOK, InTime
<1>3. CASE \E o \in Ops : Response(o)
  BY <1>3 DEF Response, TypeOK, InTime
<1>4. CASE \E o \in Ops : CachePut(o) \/ ReturnsOnly(o) \/ Invalidates(o) \/ InvalidatesTo(o)
  <2>1. PICK o \in Ops : /\ at' = [at EXCEPT ![o] = "done"] /\ UNCHANGED now
                         /\ deadline' = [deadline EXCEPT ![o] = 0]
    BY <1>4 DEF CachePut, ReturnsOnly, Invalidates, InvalidatesTo, Returns, Forgets
  <2> QED  BY <2>1 DEF TypeOK, InTime
<1>5. CASE \E o \in Ops : InvalidatesFrom(o)
  BY <1>5 DEF InvalidatesFrom, TypeOK, InTime
<1>6. CASE \E o \in Ops : DaemonStep(o)
  BY <1>6 DEF DaemonStep, Query, HandlerFails, Admitted, Prompt, Approved, Denied, OpenFile, WriteData,
              CreateEntry, Remove, Rename, Chmod, Handling, JobGoes, InTime
<1>7. CASE Tick
  BY <1>7 DEF Tick, TypeOK, InTime
<1>8. CASE (\E p \in Paths : Edit(p) \/ Watched(p)) \/ EventInvalidates \/ Over \/ UNCHANGED vars
  BY <1>8 DEF Edit, Watched, EventInvalidates, Over, vars, InTime
<1> QED  BY <1>1, <1>2, <1>3, <1>4, <1>5, <1>6, <1>7, <1>8 DEF Next, FuseStep

-----------------------------------------------------------------------------
(* What is held was current when it was read.                              *)

\* What may be used until t may be used until any time before.
LEMMA HoldsSooner ==
  ASSUME TypeOK, NEW p \in Paths, NEW v \in Nat, NEW t \in Nat, NEW u \in Nat, u <= t, Holds(p, v, t)
  PROVE  Holds(p, v, u)
<1>1. born[p] \in Seq(Nat) /\ CacheTTL \in Nat /\ Timeout \in Nat  BY Typed DEF TypeOK
<1>2. CASE v = Version(p)  BY <1>2 DEF Holds
<1>3. CASE v # Version(p)
  <2>1. v + 1 \in 1 .. Len(born[p])  BY <1>1, <1>3 DEF Holds, Version
  <2>2. born[p][v + 1] \in Nat  BY <1>1, <2>1
  <2> QED  BY <1>1, <1>3, <2>2, SMTT(40) DEF Holds
<1> QED  BY <1>2, <1>3

\* A step that leaves the disk alone: what is held afterwards was held before, or
\* may be held for a reason of its own.
LEMMA HeldOn ==
  ASSUME TypeOK, HeldInv, Known, now' >= now, now' \in Nat, UNCHANGED born,
         \A p \in Paths : \/ cache'[p] \in {cache[p], None}
                         \/ /\ cache'[p].expires <= now' + CacheTTL + Timeout
                            /\ Holds(p, cache[p].v, cache[p].expires)',
         \A o \in Ops : Coming(o)' =>
           \/ Coming(o) /\ UNCHANGED <<req[o], reply[o], deadline[o]>>
           \/ Holds(req[o].p, reply[o].v, deadline[o] + CacheTTL)',
         \A o \in Ops : Fills(o)' =>
           \/ Fills(o) /\ UNCHANGED <<req[o], ans[o], deadline[o]>>
           \/ Holds(req[o].p, ans[o].v, deadline[o] + CacheTTL)'
  PROVE  HeldInv'
<1> USE Typed
<1>1. ASSUME NEW p \in Paths, cache'[p] # None
      PROVE  cache'[p].expires <= now' + CacheTTL + Timeout /\ Holds(p, cache[p].v, cache[p].expires)'
  <2>1. CASE cache'[p] = cache[p]
    <3>1. cache[p] \in Entry  BY <1>1, <2>1 DEF TypeOK
    <3>2. cache[p].expires \in Nat /\ cache[p].v \in Nat  BY <3>1 DEF Entry
    <3>3. cache[p].expires <= now + CacheTTL + Timeout /\ Holds(p, cache[p].v, cache[p].expires)
      BY <1>1, <2>1 DEF HeldInv
    <3>4. now \in Nat  BY DEF TypeOK
    <3> QED  BY <2>1, <3>2, <3>3, <3>4 DEF Holds, Version
  <2> QED  BY <1>1, <2>1
<1>2. ASSUME NEW o \in Ops, Coming(o)'
      PROVE  Holds(req[o].p, reply[o].v, deadline[o] + CacheTTL)'
  <2>1. CASE Coming(o) /\ UNCHANGED <<req[o], reply[o], deadline[o]>>
    BY <2>1 DEF HeldInv, Holds, Version
  <2> QED  BY <1>2, <2>1
<1>3. ASSUME NEW o \in Ops, Fills(o)'
      PROVE  Holds(req[o].p, ans[o].v, deadline[o] + CacheTTL)'
  <2>1. CASE Fills(o) /\ UNCHANGED <<req[o], ans[o], deadline[o]>>
    BY <2>1 DEF HeldInv, Holds, Version
  <2> QED  BY <1>3, <2>1
<1> QED  BY <1>1, <1>2, <1>3 DEF HeldInv

\* A change of the disk, which answers no Getattr.
LEMMA HeldChange ==
  ASSUME TypeOK, Known, InTime, HeldInv,
         NEW to \in [Paths -> Kinds], NEW S, Change(to, S), UNCHANGED <<now, cache>>,
         \A o \in Ops : Coming(o)' => Coming(o) /\ UNCHANGED <<req[o], reply[o], deadline[o]>>,
         \A o \in Ops : Fills(o)' => Fills(o) /\ UNCHANGED <<req[o], ans[o], deadline[o]>>
  PROVE  HeldInv'
<1> USE Typed
<1>n. now \in Nat  BY DEF TypeOK
<1>v. \A p \in Paths, v \in Nat, t \in Nat :
        Holds(p, v, t) /\ t <= now + CacheTTL + Timeout
          => v <= Len(born'[p]) /\ (v = Len(born'[p]) \/ t <= born'[p][v + 1] + CacheTTL + Timeout)
  BY ChangeHolds DEF Holds, Version
<1>1. ASSUME NEW p \in Paths, cache'[p] # None
      PROVE  cache'[p].expires <= now' + CacheTTL + Timeout /\ Holds(p, cache[p].v, cache[p].expires)'
  <2>1. cache[p] \in Entry  BY <1>1 DEF TypeOK
  <2>2. cache[p].expires \in Nat /\ cache[p].v \in Nat  BY <2>1 DEF Entry
  <2>3. cache[p].expires <= now + CacheTTL + Timeout /\ Holds(p, cache[p].v, cache[p].expires)
    BY <1>1, <2>1 DEF HeldInv
  <2> QED  BY <1>v, <2>2, <2>3 DEF Holds, Version
<1>2. ASSUME NEW o \in Ops, Coming(o)'
      PROVE  Holds(req[o].p, reply[o].v, deadline[o] + CacheTTL)'
  <2>1. Coming(o) /\ UNCHANGED <<req[o], reply[o], deadline[o]>>  BY <1>2
  <2>2. req[o].p \in Paths /\ reply[o].v \in Nat /\ deadline[o] \in Nat
    BY <2>1 DEF Coming, Known, TypeOK, Answer
  <2>3. deadline[o] + CacheTTL <= now + CacheTTL + Timeout  BY <1>n, <2>1, <2>2 DEF Coming, InTime
  <2>4. Holds(req[o].p, reply[o].v, deadline[o] + CacheTTL)  BY <2>1 DEF HeldInv
  <2>5. deadline[o] + CacheTTL \in Nat  BY <2>2
  <2>6. /\ reply[o].v <= Len(born'[req[o].p])
        /\ \/ reply[o].v = Len(born'[req[o].p])
           \/ deadline[o] + CacheTTL <= born'[req[o].p][reply[o].v + 1] + CacheTTL + Timeout
    BY <1>v, <2>2, <2>3, <2>4, <2>5
  <2> QED  BY <2>1, <2>6 DEF Holds, Version
<1>3. ASSUME NEW o \in Ops, Fills(o)'
      PROVE  Holds(req[o].p, ans[o].v, deadline[o] + CacheTTL)'
  <2>1. Fills(o) /\ UNCHANGED <<req[o], ans[o], deadline[o]>>  BY <1>3
  <2>2. req[o].p \in Paths /\ ans[o].v \in Nat /\ deadline[o] \in Nat
    BY <2>1 DEF Fills, Known, TypeOK, Answer
  <2>3. deadline[o] + CacheTTL <= now + CacheTTL + Timeout  BY <1>n, <2>1, <2>2 DEF Fills, InTime
  <2>4. Holds(req[o].p, ans[o].v, deadline[o] + CacheTTL)  BY <2>1 DEF HeldInv
  <2>5. deadline[o] + CacheTTL \in Nat  BY <2>2
  <2>6. /\ ans[o].v <= Len(born'[req[o].p])
        /\ \/ ans[o].v = Len(born'[req[o].p])
           \/ deadline[o] + CacheTTL <= born'[req[o].p][ans[o].v + 1] + CacheTTL + Timeout
    BY <1>v, <2>2, <2>3, <2>4, <2>5
  <2> QED  BY <2>1, <2>6 DEF Holds, Version
<1> QED  BY <1>1, <1>2, <1>3 DEF HeldInv

\* Whatever is not o's is as it was.
Others(o) ==
  \A x \in Ops \ {o} :
    UNCHANGED <<req[x], at[x], deadline[x], ans[x], job[x], reply[x]>>

\* The steps of the FUSE calls change what is their own.
LEMMA FuseOthers ==
  ASSUME TypeOK, NEW o \in Ops,
         \/ \E r \in Asks : Hit(o, r) \/ Miss(o, r) \/ Start(o, r)
         \/ CallFails(o) \/ FuseStep(o)
  PROVE  Others(o) /\ UNCHANGED <<now, disk, born>>
<1> USE DEF fuseVars, cacheVars, diskVars, daemonVars, TypeOK, Others
<1>1. CASE \E r \in Asks : Hit(o, r)  BY <1>1 DEF Hit
<1>2. CASE \E r \in Asks : Miss(o, r) \/ Start(o, r)  BY <1>2 DEF Miss, Start, Called
<1>3. CASE CallFails(o)  BY <1>3 DEF CallFails, Forgets
<1>4. CASE Response(o)  BY <1>4 DEF Response
<1>5. CASE CachePut(o) \/ ReturnsOnly(o) \/ Invalidates(o) \/ InvalidatesTo(o)
  BY <1>5 DEF CachePut, ReturnsOnly, Invalidates, InvalidatesTo, Returns, Forgets
<1>6. CASE InvalidatesFrom(o)  BY <1>6 DEF InvalidatesFrom
<1> QED  BY <1>1, <1>2, <1>3, <1>4, <1>5, <1>6 DEF FuseStep

\* No step makes the cache, a response or an answer hold what it may not.
LEMMA HeldStep == TypeOK /\ Known /\ InTime /\ HeldInv /\ [Next]_vars => HeldInv'
<1> SUFFICES ASSUME TypeOK, Known, InTime, HeldInv, [Next]_vars  PROVE HeldInv'
  OBVIOUS
<1> USE Typed DEF fuseVars, cacheVars, diskVars, daemonVars
<1>0. now \in Nat  BY DEF TypeOK
<1>1. ASSUME NEW o \in Ops, Others(o), UNCHANGED <<now, disk, born>>,
             at'[o] \in {"done", "to"} \/ (at'[o] = "call" /\ job'[o] = "wait"),
             \A p \in Paths : cache'[p] \in {cache[p], None}
      PROVE  HeldInv'
  <2>1. ASSUME NEW x \in Ops, Coming(x)'
        PROVE  Coming(x) /\ UNCHANGED <<req[x], reply[x], deadline[x]>>
    BY <1>1, <2>1 DEF Coming, Others
  <2>2. ASSUME NEW x \in Ops, Fills(x)'
        PROVE  Fills(x) /\ UNCHANGED <<req[x], ans[x], deadline[x]>>
    BY <1>1, <2>2 DEF Fills, Others
  <2> QED  BY <1>0, <1>1, <2>1, <2>2, HeldOn
<1>2. ASSUME NEW o \in Ops, NEW r \in Asks, Hit(o, r) \/ Miss(o, r) \/ Start(o, r)  PROVE HeldInv'
  <2>1. Others(o) /\ UNCHANGED <<now, disk, born>>  BY <1>2, FuseOthers
  <2>2. at'[o] \in {"done", "to"} \/ (at'[o] = "call" /\ job'[o] = "wait")
    BY <1>2 DEF Hit, Miss, Start, Called, TypeOK
  <2>3. \A p \in Paths : cache'[p] \in {cache[p], None}
    BY <1>2 DEF Hit, Miss, Start, Called, TypeOK
  <2> QED  BY <1>1, <2>1, <2>2, <2>3
<1>3. ASSUME NEW o \in Ops, CallFails(o)  PROVE HeldInv'
  <2>1. Others(o) /\ UNCHANGED <<now, disk, born>>  BY <1>3, FuseOthers
  <2>2. at'[o] = "done" /\ UNCHANGED cache  BY <1>3 DEF CallFails, Forgets, TypeOK
  <2> QED  BY <1>1, <2>1, <2>2
<1>4. ASSUME NEW o \in Ops, Response(o)  PROVE HeldInv'
  <2>1. Others(o) /\ UNCHANGED <<now, disk, born>>  BY <1>4, FuseOthers DEF FuseStep
  <2>2. job'[o] = "over" /\ UNCHANGED <<cache, deadline>>  BY <1>4 DEF Response, TypeOK
  <2>3. ASSUME NEW x \in Ops, Coming(x)'
        PROVE  Coming(x) /\ UNCHANGED <<req[x], reply[x], deadline[x]>>
    BY <2>1, <2>2, <2>3 DEF Coming, Others
  <2>4. ASSUME NEW x \in Ops \ {o}, Fills(x)'
        PROVE  Fills(x) /\ UNCHANGED <<req[x], ans[x], deadline[x]>>
    BY <2>1, <2>4 DEF Fills, Others
  <2>5. ASSUME Fills(o)'  PROVE Holds(req[o].p, ans[o].v, deadline[o] + CacheTTL)'
    <3>1. at[o] = "call" /\ req'[o] = req[o] /\ ans'[o] = reply[o]
      BY <1>4, <2>5, Known DEF Fills, Response, TypeOK, Known
    <3>2. Coming(o)  BY <1>4, <2>5, <3>1 DEF Coming, Fills, Response
    <3>3. Holds(req[o].p, reply[o].v, deadline[o] + CacheTTL)  BY <3>2 DEF HeldInv
    <3> QED  BY <2>1, <2>2, <3>1, <3>3 DEF Holds, Version
  <2> QED  BY <1>0, <2>1, <2>2, <2>3, <2>4, <2>5, HeldOn
<1>5. ASSUME NEW o \in Ops, CachePut(o)  PROVE HeldInv'
  <2>1. Others(o) /\ UNCHANGED <<now, disk, born>>  BY <1>5, FuseOthers DEF FuseStep
  <2>2. at'[o] = "done"  BY <1>5 DEF CachePut, Returns, Forgets, TypeOK
  <2>3. PICK p \in Paths : p = req[o].p  BY <1>5 DEF CachePut, Fills, Known
  <2>4. ans[o].v \in Nat /\ deadline[o] \in Nat /\ born[p] \in Seq(Nat)
    BY <1>5 DEF CachePut, Fills, Known, TypeOK, Answer
  <2>5. Holds(p, ans[o].v, deadline[o] + CacheTTL) /\ now <= deadline[o]
    <3>1. Fills(o)  BY <1>5 DEF CachePut
    <3>2. Holds(req[o].p, ans[o].v, deadline[o] + CacheTTL)  BY <3>1 DEF HeldInv
    <3>3. now <= deadline[o]  BY <3>1 DEF Fills, InTime
    <3> QED  BY <2>3, <3>2, <3>3
  <2>6. Holds(p, ans[o].v, now + CacheTTL)
    <3>1. /\ deadline[o] + CacheTTL \in Nat /\ now + CacheTTL \in Nat
          /\ now + CacheTTL <= deadline[o] + CacheTTL
      BY <1>0, <2>4, <2>5
    <3> QED  BY <2>4, <2>5, <3>1, HoldsSooner
  <2>7. /\ cache'[p].v = ans[o].v /\ cache'[p].expires = now + CacheTTL
        /\ \A k \in Paths \ {p} : cache'[k] = cache[k]
    BY <1>5, <2>3 DEF CachePut, TypeOK
  <2>8. cache'[p].expires <= now' + CacheTTL + Timeout /\ Holds(p, cache[p].v, cache[p].expires)'
    BY <1>0, <2>1, <2>6, <2>7 DEF Holds, Version
  <2>9. ASSUME NEW x \in Ops, Coming(x)'
        PROVE  Coming(x) /\ UNCHANGED <<req[x], reply[x], deadline[x]>>
    BY <2>1, <2>2, <2>9 DEF Coming, Others
  <2>10. ASSUME NEW x \in Ops, Fills(x)'
         PROVE  Fills(x) /\ UNCHANGED <<req[x], ans[x], deadline[x]>>
    BY <2>1, <2>2, <2>10 DEF Fills, Others
  <2>11. ASSUME NEW k \in Paths
         PROVE  \/ cache'[k] \in {cache[k], None}
                \/ /\ cache'[k].expires <= now' + CacheTTL + Timeout
                   /\ Holds(k, cache[k].v, cache[k].expires)'
    BY <2>7, <2>8
  <2> QED  BY <1>0, <2>1, <2>9, <2>10, <2>11, HeldOn
<1>6. ASSUME NEW o \in Ops, ReturnsOnly(o) \/ Invalidates(o) \/ InvalidatesFrom(o) \/ InvalidatesTo(o)
      PROVE  HeldInv'
  <2>1. Others(o) /\ UNCHANGED <<now, disk, born>>  BY <1>6, FuseOthers DEF FuseStep
  <2>2. at'[o] \in {"done", "to"}
    BY <1>6 DEF ReturnsOnly, Invalidates, InvalidatesFrom, InvalidatesTo, Returns, Forgets, TypeOK
  <2>3. \A p \in Paths : cache'[p] \in {cache[p], None}
    BY <1>6 DEF ReturnsOnly, Invalidates, InvalidatesFrom, InvalidatesTo, InvalidateCache
  <2> QED  BY <1>1, <2>1, <2>2, <2>3
<1>7. ASSUME NEW o \in Ops, DaemonStep(o)  PROVE HeldInv'
  <2>1. Shape(o)  BY <1>7, DaemonShape
  <2>2. UNCHANGED <<now, req, at, deadline, ans, cache>>  BY <2>1 DEF Shape
  <2>3. ASSUME NEW x \in Ops \ {o}, Coming(x)'
        PROVE  Coming(x) /\ UNCHANGED <<req[x], reply[x], deadline[x]>>
    BY <2>1, <2>2, <2>3 DEF Coming, Shape
  <2>4. ASSUME NEW x \in Ops, Fills(x)'
        PROVE  Fills(x) /\ UNCHANGED <<req[x], ans[x], deadline[x]>>
    BY <2>2, <2>4 DEF Fills
  <2>5. CASE UNCHANGED <<disk, born, made>>
    <3>1. ASSUME Coming(o)'  PROVE Holds(req[o].p, reply[o].v, deadline[o] + CacheTTL)'
      <4>1. reply'[o].v = Version(req[o].p) /\ req'[o].p \in Paths
        BY <2>1, <2>2, <3>1 DEF Coming, Shape
      <4>2. Version(req[o].p) \in Nat  BY <2>2, <4>1 DEF Version, TypeOK
      <4> QED  BY <2>2, <2>5, <4>1, <4>2 DEF Holds, Version
    <3> QED  BY <1>0, <2>2, <2>3, <2>4, <2>5, <3>1, HeldOn
  <2>6. ASSUME req[o].m \notin Queries,
               NEW to \in [Paths -> Kinds], NEW S \in SUBSET Paths, Change(to, S)
        PROVE  HeldInv'
    <3>1. ~Coming(o)'  BY <2>2, <2>6 DEF Coming, Queries
    <3> QED  BY <2>2, <2>3, <2>4, <2>6, <3>1, HeldChange
  <2> QED  BY <2>1, <2>5, <2>6 DEF Shape, DiskShape
<1>8. ASSUME NEW p \in Paths, Edit(p)  PROVE HeldInv'
  <2>1. PICK to \in [Paths -> Kinds], S \in SUBSET Paths : Change(to, S)
    BY <1>8, EditChanges
  <2>2. UNCHANGED <<now, req, at, deadline, ans, cache, job, reply>>  BY <1>8 DEF Edit
  <2> QED  BY <2>1, <2>2, HeldChange DEF Coming, Fills
<1>9. CASE (\E p \in Paths : Watched(p)) \/ EventInvalidates \/ Tick \/ Over \/ UNCHANGED vars
  <2>1. /\ now' \in Nat /\ now' >= now /\ UNCHANGED <<req, at, deadline, ans, job, reply, born>>
        /\ \A p \in Paths : cache'[p] \in {cache[p], None}
    BY <1>0, <1>9 DEF Watched, EventInvalidates, InvalidateCache, Tick, Over, vars
  <2> QED  BY <2>1, HeldOn DEF Coming, Fills
<1> QED
  BY <1>2, <1>3, <1>4, <1>5, <1>6, <1>7, <1>8, <1>9 DEF Next, FuseStep

-----------------------------------------------------------------------------
(* What was acknowledged is seen.                                          *)

\* Entry e for p is not older than an acknowledged change.
Current(e, p) == p # Root => e.v >= acked[p] \/ e.crossed

\* What a step that acknowledges nothing may do to the versions ...
Grows ==
  /\ \A p \in Paths : Version(p) \in Nat /\ Version(p)' \in Nat /\ Version(p) <= Version(p)'
  /\ \A o \in Ops, p \in Paths : made'[o][p] \in {made[o][p], 0} \/ made'[o][p] <= Version(p)'

\* ... to the cache ...
CacheKeeps == \A p \in Paths : cache'[p] \in {cache[p], None} \/ Current(cache'[p], p)

\* ... and to what the operations have read.
ReadKeeps(o) ==
  /\ Coming(o)' => \/ Coming(o) /\ UNCHANGED <<req[o], reply[o], crossed[o]>>
                   \/ UpToDate(o, reply[o].v)'
  /\ Fills(o)' => \/ Fills(o) /\ UNCHANGED <<req[o], ans[o], crossed[o]>>
                  \/ UpToDate(o, ans[o].v)'

\* Such a step preserves the invariant.
LEMMA AckedOn ==
  ASSUME TypeOK, TypeOK', AckedInv, UNCHANGED acked,
         Grows, CacheKeeps, \A o \in Ops : ReadKeeps(o)
  PROVE  AckedInv'
<1>0. acked \in [Paths -> Nat] /\ made \in [Ops -> [Paths -> Nat]]  BY DEF TypeOK
<1>1. \A p \in Paths : acked'[p] <= Version(p)'  BY <1>0 DEF AckedInv, Grows
<1>2. ASSUME NEW o \in Ops, NEW p \in Paths  PROVE made'[o][p] <= Version(p)'
  <2>1. made[o][p] \in Nat /\ made[o][p] <= Version(p)  BY <1>0 DEF AckedInv
  <2>2. made'[o][p] \in {made[o][p], 0} \/ made'[o][p] <= Version(p)'  BY DEF Grows
  <2>3. Version(p) \in Nat /\ Version(p)' \in Nat /\ Version(p) <= Version(p)'  BY DEF Grows
  <2> QED  BY <2>1, <2>2, <2>3
<1>3. ASSUME NEW p \in Paths \ {Root}, cache'[p] # None, cache'[p].v < acked'[p]
      PROVE  cache'[p].crossed
  <2>1. CASE cache'[p] = cache[p]  BY <1>3, <2>1 DEF AckedInv, AckedSeen
  <2>2. CASE cache'[p].v >= acked[p]
    <3>1. cache'[p].v \in Nat  BY <1>3 DEF TypeOK, Entry
    <3> QED  BY <1>0, <1>3, <2>2, <3>1
  <2> QED  BY <1>3, <2>1, <2>2 DEF CacheKeeps, Current
<1>4. ASSUME NEW o \in Ops, Coming(o)'  PROVE UpToDate(o, reply[o].v)'
  <2>1. CASE Coming(o) /\ UNCHANGED <<req[o], reply[o], crossed[o]>>
    BY <2>1 DEF AckedInv, UpToDate
  <2> QED  BY <1>4, <2>1 DEF ReadKeeps
<1>5. ASSUME NEW o \in Ops, Fills(o)'  PROVE UpToDate(o, ans[o].v)'
  <2>1. CASE Fills(o) /\ UNCHANGED <<req[o], ans[o], crossed[o]>>
    BY <2>1 DEF AckedInv, UpToDate
  <2> QED  BY <1>5, <2>1 DEF ReadKeeps
<1> QED  BY <1>1, <1>2, <1>3, <1>4, <1>5 DEF AckedInv, AckedSeen

\* A step that acknowledges o's change of p and drops p and its directory from
\* the cache: whoever reads either from now on sees the change.
LEMMA AckedMore ==
  ASSUME TypeOK, Known, AckedInv, NEW o \in Ops, NEW p \in Paths,
         InvalidateCache(p), Acknowledge(o, p), Others(o), UNCHANGED born,
         at'[o] \in {"done", "to"}, made' \in {made, [made EXCEPT ![o] = NoneMade]}
  PROVE  AckedInv'
<1>0. /\ acked \in [Paths -> Nat] /\ made \in [Ops -> [Paths -> Nat]]
      /\ \A k \in Paths : Version(k) \in Nat /\ Version(k)' = Version(k)
  BY DEF TypeOK, Version
<1>1. \A k \in Paths : acked'[k] \in {acked[k], made[o][k]}  BY AcknowledgeTyped
<1>2. \A k \in Paths \ Touched(p) : acked'[k] = acked[k]  BY DEF Acknowledge
<1>3. \A k \in Paths : acked'[k] <= Version(k)'  BY <1>0, <1>1 DEF AckedInv
<1>4. ASSUME NEW x \in Ops, NEW k \in Paths  PROVE made'[x][k] <= Version(k)'
  <2>1. made'[x][k] \in {made[x][k], 0}  BY <1>0 DEF NoneMade
  <2> QED  BY <1>0, <2>1 DEF AckedInv
<1>5. ASSUME NEW k \in Paths \ {Root}, cache'[k] # None, cache'[k].v < acked'[k]
      PROVE  cache'[k].crossed
  <2>1. k \notin Dropped(p) /\ cache'[k] = cache[k]  BY <1>5 DEF InvalidateCache
  <2>2. p \in Seq(STRING)  BY FSAssumption
  <2>3. k \notin Touched(p)  BY <1>5, <2>1, <2>2, DirDropped
  <2> QED  BY <1>2, <1>5, <2>1, <2>3 DEF AckedInv, AckedSeen
<1>6. ASSUME NEW x \in Ops \ {o}, NEW v \in Nat, Filling(x), req[x].p \in Paths, UpToDate(x, v)
      PROVE  req[x].p # Root => v >= acked'[req[x].p] \/ crossed'[x]
  <2>1. CASE req[x].p \in Touched(p)  BY <1>6, <2>1 DEF Acknowledge
  <2>2. CASE req[x].p \notin Touched(p)
    BY <1>2, <1>6, <2>2 DEF Acknowledge, UpToDate
  <2> QED  BY <2>1, <2>2
<1>7. ASSUME NEW x \in Ops, Coming(x)'  PROVE UpToDate(x, reply[x].v)'
  <2>1. x # o /\ Coming(x) /\ UNCHANGED <<req[x], reply[x]>>  BY <1>7 DEF Coming, Others
  <2>2. Filling(x) /\ reply[x].v \in Nat /\ UpToDate(x, reply[x].v)
    BY <2>1 DEF Coming, Filling, AckedInv, TypeOK, Answer
  <2>3. req[x].p \in Paths  BY <2>2, Typed DEF Filling, Known
  <2> QED  BY <1>6, <2>1, <2>2, <2>3 DEF UpToDate
<1>8. ASSUME NEW x \in Ops, Fills(x)'  PROVE UpToDate(x, ans[x].v)'
  <2>1. x # o /\ Fills(x) /\ UNCHANGED <<req[x], ans[x]>>  BY <1>8 DEF Fills, Others
  <2>2. Filling(x) /\ ans[x].v \in Nat /\ UpToDate(x, ans[x].v)
    BY <2>1 DEF Fills, Filling, AckedInv, TypeOK, Answer
  <2>3. req[x].p \in Paths  BY <2>2, Typed DEF Filling, Known
  <2> QED  BY <1>6, <2>1, <2>2, <2>3 DEF UpToDate
<1> QED  BY <1>3, <1>4, <1>5, <1>7, <1>8 DEF AckedInv, AckedSeen

\* No step lets a Getattr miss what was acknowledged before it began.
LEMMA AckedStep ==
  TypeOK /\ TypeOK' /\ Known /\ AckedInv /\ [Next]_vars => AckedInv'
<1> SUFFICES ASSUME TypeOK, TypeOK', Known, AckedInv, [Next]_vars  PROVE AckedInv'
  OBVIOUS
<1> USE Typed DEF fuseVars, cacheVars, diskVars, daemonVars
<1>0. (\A p \in Paths : Version(p) \in Nat) /\ acked \in [Paths -> Nat]  BY DEF TypeOK, Version
<1>1. ASSUME NEW o \in Ops, Others(o), UNCHANGED <<now, disk, born, acked>>,
             at'[o] \in {"done", "to"} \/ (at'[o] = "call" /\ job'[o] = "wait"),
             \A x \in Ops \ {o} : crossed'[x] = crossed[x],
             made' \in {made, [made EXCEPT ![o] = NoneMade]}, CacheKeeps
      PROVE  AckedInv'
  <2>1. ASSUME NEW x \in Ops  PROVE ReadKeeps(x)
    BY <1>1 DEF Coming, Fills, Others, ReadKeeps
  <2>2. \A x \in Ops, p \in Paths : made'[x][p] \in {made[x][p], 0}
    <3>1. made \in [Ops -> [Paths -> Nat]]  BY DEF TypeOK
    <3> QED  BY <1>1, <3>1 DEF NoneMade
  <2>3. Grows  BY <1>0, <1>1, <2>2 DEF Grows, Version
  <2> QED  BY <1>1, <2>1, <2>3, AckedOn
<1>2. ASSUME NEW o \in Ops, NEW r \in Asks, Hit(o, r) \/ Miss(o, r) \/ Start(o, r)  PROVE AckedInv'
  <2>1. Others(o) /\ UNCHANGED <<now, disk, born>>  BY <1>2, FuseOthers
  <2>2. at'[o] \in {"done", "to"} \/ (at'[o] = "call" /\ job'[o] = "wait")
    BY <1>2 DEF Hit, Miss, Start, Called, TypeOK
  <2>3. \A p \in Paths : cache'[p] \in {cache[p], None}
    <3>1. cache' = cache \/ cache' = [cache EXCEPT ![r.p] = None]  BY <1>2 DEF Hit, Miss, Start
    <3> QED  BY <3>1 DEF TypeOK
  <2>4. UNCHANGED <<acked, crossed, made>>  BY <1>2 DEF Hit, Miss, Start, Called
  <2>5. CacheKeeps  BY <2>3 DEF CacheKeeps
  <2>6. made' \in {made, [made EXCEPT ![o] = NoneMade]} /\ \A x \in Ops \ {o} : crossed'[x] = crossed[x]
    BY <2>4
  <2> QED  BY <1>1, <2>1, <2>2, <2>4, <2>5, <2>6
<1>3. ASSUME NEW o \in Ops, CallFails(o) \/ ReturnsOnly(o)  PROVE AckedInv'
  <2>1. Others(o) /\ UNCHANGED <<now, disk, born>>  BY <1>3, FuseOthers DEF FuseStep
  <2>2. /\ at'[o] = "done" /\ UNCHANGED <<cache, acked>>
        /\ crossed' = [crossed EXCEPT ![o] = FALSE] /\ made' = [made EXCEPT ![o] = NoneMade]
    BY <1>3 DEF CallFails, ReturnsOnly, Returns, Forgets, TypeOK
  <2>3. \A x \in Ops \ {o} : crossed'[x] = crossed[x]  BY <2>2 DEF TypeOK
  <2>4. CacheKeeps  BY <2>2 DEF CacheKeeps
  <2> QED  BY <1>1, <2>1, <2>2, <2>3, <2>4
<1>4. ASSUME NEW o \in Ops, Response(o)  PROVE AckedInv'
  <2>1. Others(o) /\ UNCHANGED <<now, disk, born>>  BY <1>4, FuseOthers DEF FuseStep
  <2>2. job'[o] = "over" /\ UNCHANGED <<cache, acked, crossed, made>>  BY <1>4 DEF Response, TypeOK
  <2>3. ASSUME NEW x \in Ops \ {o}  PROVE ReadKeeps(x)
    BY <2>1, <2>2 DEF Coming, Fills, Others, ReadKeeps
  <2>4. ASSUME Fills(o)'  PROVE UpToDate(o, ans[o].v)'
    <3>1. at[o] = "call" /\ req'[o] = req[o] /\ ans'[o] = reply[o]
      BY <1>4, <2>4 DEF Fills, Response, TypeOK, Known
    <3>2. Coming(o)  BY <1>4, <2>4, <3>1 DEF Coming, Fills, Response
    <3> QED  BY <2>2, <3>1, <3>2 DEF AckedInv, UpToDate
  <2>5. ReadKeeps(o)  BY <2>2, <2>4 DEF ReadKeeps, Coming
  <2>6. Grows  BY <1>0, <2>1, <2>2 DEF Version, Grows
  <2>7. CacheKeeps  BY <2>2 DEF CacheKeeps
  <2>8. \A x \in Ops : ReadKeeps(x)  BY <2>3, <2>5
  <2> QED  BY <2>2, <2>6, <2>7, <2>8, AckedOn
<1>5. ASSUME NEW o \in Ops, CachePut(o)  PROVE AckedInv'
  <2>1. Others(o) /\ UNCHANGED <<now, disk, born>>  BY <1>5, FuseOthers DEF FuseStep
  <2>2. /\ at'[o] = "done" /\ UNCHANGED acked
        /\ crossed' = [crossed EXCEPT ![o] = FALSE] /\ made' = [made EXCEPT ![o] = NoneMade]
    BY <1>5 DEF CachePut, Returns, Forgets, TypeOK
  <2>3. \A x \in Ops \ {o} : crossed'[x] = crossed[x]  BY <2>2 DEF TypeOK
  <2>4. PICK p \in Paths : p = req[o].p  BY <1>5 DEF CachePut, Fills, Known
  <2>5. /\ cache'[p].v = ans[o].v /\ cache'[p].crossed = crossed[o]
        /\ \A k \in Paths \ {p} : cache'[k] = cache[k]
    BY <1>5, <2>4 DEF CachePut, TypeOK
  <2>6. UpToDate(o, ans[o].v)  BY <1>5 DEF CachePut, AckedInv
  <2>7. Current(cache'[p], p)  BY <2>4, <2>5, <2>6 DEF UpToDate, Current
  <2>8. CacheKeeps  BY <2>5, <2>7 DEF CacheKeeps
  <2> QED  BY <1>1, <2>1, <2>2, <2>3, <2>8
<1>6. ASSUME NEW o \in Ops, Invalidates(o) \/ InvalidatesFrom(o) \/ InvalidatesTo(o)  PROVE AckedInv'
  <2>1. Others(o) /\ UNCHANGED <<now, disk, born>>  BY <1>6, FuseOthers DEF FuseStep
  <2>2. at'[o] \in {"done", "to"} /\ made' \in {made, [made EXCEPT ![o] = NoneMade]}
    BY <1>6 DEF Invalidates, InvalidatesFrom, InvalidatesTo, Returns, Forgets, TypeOK
  <2>3. req[o].p \in Paths /\ req[o].q \in Paths
    BY <1>6 DEF Invalidates, InvalidatesFrom, InvalidatesTo, Known
  <2>4. PICK p \in Paths : InvalidateCache(p) /\ Acknowledge(o, p)
    BY <1>6, <2>3 DEF Invalidates, InvalidatesFrom, InvalidatesTo
  <2> QED  BY <2>1, <2>2, <2>4, AckedMore
<1>7. ASSUME NEW o \in Ops, DaemonStep(o)  PROVE AckedInv'
  <2>1. Shape(o)  BY <1>7, DaemonShape
  <2>2. UNCHANGED <<req, at, ans, cache, acked, crossed>>  BY <2>1 DEF Shape
  <2>3. ASSUME NEW x \in Ops \ {o}  PROVE ReadKeeps(x)
    BY <2>1, <2>2 DEF Coming, Fills, Shape, ReadKeeps
  <2>5. ASSUME Coming(o)'  PROVE UpToDate(o, reply[o].v)'
    <3>1. reply'[o].v = Version(req[o].p) /\ req[o].p \in Paths
      BY <2>1, <2>2, <2>5 DEF Coming, Shape
    <3>2. acked[req[o].p] <= Version(req[o].p)  BY <3>1 DEF AckedInv
    <3>3. acked[req[o].p] \in Nat /\ Version(req[o].p) \in Nat  BY <1>0, <3>1
    <3> QED  BY <2>2, <3>1, <3>2, <3>3 DEF UpToDate
  <2>6. Grows
    <3>1. CASE UNCHANGED <<disk, born, made>>  BY <1>0, <3>1 DEF Version, Grows
    <3>2. ASSUME NEW to \in [Paths -> Kinds], NEW S \in SUBSET Paths, Change(to, S), ByRequest(o, S)
          PROVE  Grows
      <4>1. \A p \in Paths : Version(p) \in Nat /\ Version(p)' \in Nat /\ Version(p) <= Version(p)'
        BY <3>2, ChangeGrows
      <4>2. \A p \in S : Version(p)' = Version(p) + 1  BY <3>2, ChangeTyped
      <4>3. /\ \A x \in Ops \ {o} : made'[x] = made[x]
            /\ \A p \in Paths : made'[o][p] = IF p \in S /\ at[o] = "call" THEN Version(p) + 1 ELSE made[o][p]
        BY <3>2 DEF ByRequest, TypeOK
      <4>4. ASSUME NEW x \in Ops, NEW p \in Paths
            PROVE  made'[x][p] \in {made[x][p], 0} \/ made'[x][p] <= Version(p)'
        <5>1. CASE x = o /\ p \in S /\ at[o] = "call"  BY <4>1, <4>2, <4>3, <5>1
        <5>2. CASE ~(x = o /\ p \in S /\ at[o] = "call")  BY <4>3, <5>2
        <5> QED  BY <5>1, <5>2
      <4> QED  BY <4>1, <4>4 DEF Grows
    <3> QED  BY <2>1, <3>1, <3>2 DEF Shape, DiskShape
  <2>7. ReadKeeps(o)  BY <2>2, <2>5 DEF ReadKeeps, Fills
  <2>8. CacheKeeps  BY <2>2 DEF CacheKeeps
  <2>9. \A x \in Ops : ReadKeeps(x)  BY <2>3, <2>7
  <2> QED  BY <2>2, <2>6, <2>8, <2>9, AckedOn
<1>8. ASSUME NEW p \in Paths, Edit(p)  PROVE AckedInv'
  <2>1. PICK to \in [Paths -> Kinds], S \in SUBSET Paths : Change(to, S)
    BY <1>8, EditChanges
  <2>2. UNCHANGED <<req, at, ans, cache, acked, crossed, job, reply, made>>  BY <1>8 DEF Edit
  <2>3. \A k \in Paths : Version(k) \in Nat /\ Version(k)' \in Nat /\ Version(k) <= Version(k)'
    BY <2>1, ChangeGrows
  <2>4. Grows /\ CacheKeeps  BY <2>2, <2>3 DEF Grows, CacheKeeps
  <2>5. \A x \in Ops : ReadKeeps(x)  BY <2>2 DEF Coming, Fills, ReadKeeps
  <2> QED  BY <2>2, <2>4, <2>5, AckedOn
<1>9. CASE (\E p \in Paths : Watched(p)) \/ EventInvalidates \/ Tick \/ Over \/ UNCHANGED vars
  <2>1. /\ UNCHANGED <<req, at, ans, job, reply, born, acked, crossed, made>>
        /\ \A p \in Paths : cache'[p] \in {cache[p], None}
    BY <1>9 DEF Watched, EventInvalidates, InvalidateCache, Tick, Over, vars
  <2>2. Grows /\ CacheKeeps  BY <1>0, <2>1 DEF Version, Grows, CacheKeeps
  <2>3. \A x \in Ops : ReadKeeps(x)  BY <2>1 DEF Coming, Fills, ReadKeeps
  <2> QED  BY <2>1, <2>2, <2>3, AckedOn
<1> QED
  BY <1>2, <1>3, <1>4, <1>5, <1>6, <1>7, <1>8, <1>9 DEF Next, FuseStep

-----------------------------------------------------------------------------
(* The theorems.                                                           *)

\* At first nothing is held, known or acknowledged.
LEMMA InitInv == Init => IInv
<1> SUFFICES ASSUME Init  PROVE IInv
  OBVIOUS
<1>1. TypeOK  BY InitType
<1>2. Known /\ InTime  BY DEF Init, Known, InTime
<1>3. HeldInv  BY DEF Init, HeldInv, Coming, Fills
<1>4. \A p \in Paths : Version(p) \in Nat  BY <1>1 DEF TypeOK, Version
<1>5. AckedInv
  BY <1>4 DEF Init, AckedInv, AckedSeen, NoneMade, Coming, Fills
<1> QED  BY <1>1, <1>2, <1>3, <1>5 DEF IInv

\* The inductive invariant holds throughout.
LEMMA Invariance == Spec => []IInv
<1>1. IInv /\ [Next]_vars => IInv'
  BY TypeStep, KnownStep, InTimeStep, HeldStep, AckedStep DEF IInv
<1> QED  BY <1>1, InitInv, PTL DEF Spec

\* The variables keep their types, and the prompt of the daemon, one at a time,
\* belongs to a request that waits for it (TTYConfirm.Ask).
THEOREM TypeCorrect == Spec => []TypeOK
<1>1. IInv => TypeOK  BY DEF IInv
<1> QED  BY <1>1, Invariance, PTL

\* What Getattr answers is no older than the cache's TTL and one call, whatever
\* becomes of watch events, late requests and concurrent fills.
THEOREM StalenessBounded == Spec => []Fresh
<1>1. IInv => Fresh
  <2> SUFFICES ASSUME IInv  PROVE Fresh
    OBVIOUS
  <2> USE Typed
  <2>0. TypeOK /\ now \in Nat  BY DEF IInv, TypeOK
  <2>1. ASSUME NEW p \in Paths, Cached(p)  PROVE Recent(p, cache[p].v)
    <3>1. cache[p] \in Entry /\ now <= cache[p].expires  BY <2>0, <2>1 DEF Cached, TypeOK
    <3>2. cache[p].v \in Nat /\ cache[p].expires \in Nat  BY <3>1 DEF Entry
    <3>3. Holds(p, cache[p].v, cache[p].expires)  BY <2>1 DEF Cached, IInv, HeldInv
    <3>4. Holds(p, cache[p].v, now)  BY <2>0, <3>1, <3>2, <3>3, HoldsSooner
    <3> QED  BY <3>4 DEF Holds, Recent
  <2>2. ASSUME NEW o \in Ops, Fills(o)  PROVE Recent(req[o].p, ans[o].v)
    <3>1. req[o].p \in Paths  BY <2>2 DEF Fills, IInv, Known
    <3>2. ans[o].v \in Nat /\ deadline[o] \in Nat  BY <2>0 DEF TypeOK, Answer
    <3>3. now <= deadline[o] /\ Holds(req[o].p, ans[o].v, deadline[o] + CacheTTL)
      BY <2>2 DEF Fills, IInv, InTime, HeldInv
    <3>4. Holds(req[o].p, ans[o].v, now)  BY <2>0, <3>1, <3>2, <3>3, HoldsSooner
    <3> QED  BY <3>4 DEF Holds, Recent
  <2> QED  BY <2>1, <2>2 DEF Fresh
<1> QED  BY <1>1, Invariance, PTL

\* A Getattr that begins after a change through the mount has returned sees it,
\* unless an older Getattr's fill has come in between.
THEOREM ReadYourWrites == Spec => []AckedSeen
<1>1. IInv => AckedSeen  BY DEF IInv, AckedInv
<1> QED  BY <1>1, Invariance, PTL
=============================================================================
