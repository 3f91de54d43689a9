--------------------------- MODULE AuthStoreProofs ---------------------------
(***************************************************************************)
(* Proofs about AuthStore, for every set of bearers and of concurrent      *)
(* calls of Authenticate and every value of the bounds.                    *)
(***************************************************************************)
EXTENDS AuthStore, TLAPS

-----------------------------------------------------------------------------
(* The inductive invariant.                                                *)

\* What is known about bearer b, that it is valid and has the flag f, was true at
\* most n ago.
Fresh(b, f, n) == (b \notin rows \/ f # debug[b]) => changed[b] <= n

\* An entry that can be hit is as old as it says, but for the call that put it.
CacheOK(b) ==
  entry[b] # "none" =>
    /\ b \in issued
    /\ held[b] <= CacheTTL => Fresh(b, entry[b], held[b] + Gap)

\* A call that verifies knows what the database said wait[a] ago, or the cache.
CallOK(a) ==
  /\ pc[a] # "idle" => bearer[a] \in Bearers /\ bearer[a] \in issued
  /\ At(a, "put") => Fresh(bearer[a], row[a], wait[a])
  /\ At(a, "verify") => Fresh(bearer[a], row[a], CacheTTL + Gap + wait[a])

CacheInv == \A b \in Bearers : CacheOK(b)

CallInv == \A a \in Auths : CallOK(a)

IInv == TypeOK /\ CacheInv /\ CallInv

-----------------------------------------------------------------------------
(* Facts about the constants and the operators.                            *)

\* The bounds are numbers.
LEMMA Bounds ==
  /\ CacheTTL \in Nat /\ Gap \in Nat /\ MaxLife \in Nat
  /\ Horizon \in Nat /\ Horizon = CacheTTL + 2 * Gap + 1
  /\ Never \in Nat /\ Never = MaxLife + 1
  BY AuthAssumption DEF Horizon, Never

\* What the actions assign is in range.
LEMMA Ranges ==
  /\ 0 \in 0 .. CacheTTL + 1 /\ 0 \in 0 .. Gap
  /\ 0 \in 0 .. Horizon /\ Horizon \in 0 .. Horizon
  /\ Never \in 0 .. Never /\ \A l \in 1 .. Never : l \in 0 .. Never
  BY AuthAssumption DEF Horizon, Never

\* A saturating clock counts by one until it is full.
LEMMA UpBy ==
  ASSUME NEW cap \in Nat, NEW n \in 0 .. cap
  PROVE  /\ Up(n, cap) \in 0 .. cap
         /\ Up(n, cap) <= n + 1
         /\ n < cap => Up(n, cap) = n + 1
         /\ Up(n, cap) < cap => Up(n, cap) = n + 1
  BY DEF Up

-----------------------------------------------------------------------------
(* Types.                                                                  *)

\* Every action of the store keeps the types of its variables.
LEMMA TypeKept ==
  ASSUME IInv, [Next]_vars
  PROVE  TypeOK'
<1> USE Ranges DEF IInv, CallInv, CallOK, TypeOK, Flags, At, Goto, dbVars, cacheVars, authVars
<1>1. ASSUME NEW b \in Bearers, NEW f \in Flags, NEW l \in 1 .. Never, Create(b, f, l) PROVE TypeOK'
  BY <1>1 DEF Create, Insert
<1>2. ASSUME NEW b \in Bearers, Revoke(b) PROVE TypeOK'
  BY <1>2 DEF Revoke, Manage, Caller
<1>3. ASSUME NEW b \in Bearers, NEW c \in Bearers, Rotate(b, c) PROVE TypeOK'
  BY <1>3 DEF Rotate, Manage, Caller
<1>4. ASSUME NEW b \in Bearers, NEW f \in Flags, SetDebugCapture(b, f) PROVE TypeOK'
  BY <1>4 DEF SetDebugCapture, Manage, Caller
<1>5. ASSUME CacheClear PROVE TypeOK'
  BY <1>5 DEF CacheClear
<1>6. ASSUME NEW a \in Auths, NEW b \in Bearers, Start(a, b) PROVE TypeOK'
  BY <1>6 DEF Start
<1>7. ASSUME NEW a \in Auths, Hit(a) PROVE TypeOK'
  BY <1>7 DEF Hit
<1>8. ASSUME NEW a \in Auths, Verify(a) PROVE TypeOK'
  <2> DEFINE b == bearer[a]
  <2>1. b \in Bearers /\ row[a] \in Flags /\ clearing' = clearing
    BY <1>8 DEF Verify
  <2>2. \E res \in Flags \cup {"none"} : Return(a, res)
    BY <1>8, <2>1 DEF Verify
  <2>3. Delete(b) \/ UNCHANGED <<entry, held>>
    BY <1>8 DEF Verify
  <2> HIDE DEF b
  <2>4. entry' \in [Bearers -> Flags \cup {"none"}] /\ held' \in [Bearers -> 0 .. CacheTTL + 1]
    BY <2>1, <2>3, ZenonT(60) DEF Delete
  <2> QED
    BY <2>1, <2>2, <2>4 DEF Return
<1>9. ASSUME NEW a \in Auths, Miss(a) PROVE TypeOK'
  BY <1>9 DEF Miss
<1>10. ASSUME NEW a \in Auths, CacheDelete(a) PROVE TypeOK'
  BY <1>10 DEF CacheDelete, Delete
<1>11. ASSUME NEW a \in Auths, Query(a) PROVE TypeOK'
  BY <1>11 DEF Query
<1>12. ASSUME NEW a \in Auths, QueryFails(a) PROVE TypeOK'
  BY <1>12 DEF QueryFails, Return
<1>13. ASSUME NEW a \in Auths, Put(a) PROVE TypeOK'
  <2> DEFINE b == bearer[a]
  <2>1. b \in Bearers /\ row[a] \in Flags /\ clearing' = clearing
    BY <1>13 DEF Put
  <2>2. \E res \in Flags \cup {"none"} : Return(a, res)
    BY <1>13, <2>1 DEF Put
  <2>3. \/ entry' = [entry EXCEPT ![b] = row[a]] /\ held' = [held EXCEPT ![b] = 0]
        \/ UNCHANGED <<entry, held>>
    BY <1>13 DEF Put
  <2> HIDE DEF b
  <2>4. entry' \in [Bearers -> Flags \cup {"none"}] /\ held' \in [Bearers -> 0 .. CacheTTL + 1]
    BY <2>1, <2>3
  <2> QED
    BY <2>1, <2>2, <2>4 DEF Return
<1>14. ASSUME Restart PROVE TypeOK'
  BY <1>14 DEF Restart
<1>15. ASSUME Tick PROVE TypeOK'
  <2>1. life' \in [Bearers -> 0 .. Never]
    BY <1>15, Bounds DEF Tick
  <2>2. held' \in [Bearers -> 0 .. CacheTTL + 1]
    <3>1. \A b \in Bearers : Up(held[b], CacheTTL + 1) \in 0 .. CacheTTL + 1
      BY Bounds, UpBy
    <3> QED
      BY <1>15, <3>1 DEF Tick
  <2>3. wait' \in [Auths -> 0 .. Gap]
    BY <1>15, Bounds DEF Tick
  <2>4. changed' \in [Bearers -> 0 .. Horizon]
    BY <1>15, Bounds, UpBy DEF Tick
  <2> QED
    BY <1>15, <2>1, <2>2, <2>3, <2>4 DEF Tick
<1>16. ASSUME NEW b \in Bearers, SeedFromBearer(b) PROVE TypeOK'
  BY <1>16 DEF SeedFromBearer, Insert, Boot
<1>17. ASSUME NEW b \in Bearers, AutoMint(b) PROVE TypeOK'
  BY <1>17 DEF AutoMint, Insert, Boot
<1>18. ASSUME CountTokens \/ SeedNothing PROVE TypeOK'
  BY <1>18 DEF CountTokens, SeedNothing, Boot
<1>19. CASE UNCHANGED vars
  BY <1>19 DEF vars
<1> QED
  BY <1>1, <1>2, <1>3, <1>4, <1>5, <1>6, <1>7, <1>8, <1>9, <1>10, <1>11, <1>12, <1>13, <1>14,
     <1>15, <1>16, <1>17, <1>18, <1>19 DEF Next, Authenticate, Manager, SeedAuth

-----------------------------------------------------------------------------
(* What the steps other than Tick do to a bearer, to an entry of the cache *)
(* and to a call.                                                          *)

\* An issued bearer stays issued; its row and its setting, if they change, have
\* just changed.
Keeps(b) ==
  /\ b \in issued'
  /\ \/ changed'[b] = 0
     \/ changed'[b] = changed[b] /\ debug'[b] = debug[b] /\ (b \in rows => b \in rows')

\* No step of the store forgets a bearer or changes one unnoticed.
LEMMA BearerStep ==
  ASSUME IInv, [Next]_vars, ~Tick, NEW b \in Bearers, b \in issued
  PROVE  Keeps(b)
<1> USE Bounds DEF IInv, TypeOK, Keeps, dbVars
<1>1. ASSUME NEW c \in Bearers, NEW f \in Flags, NEW l \in 1 .. Never, Create(c, f, l) \/ AutoMint(c)
      PROVE  Keeps(b)
  BY <1>1 DEF Create, AutoMint, Insert
<1>2. ASSUME NEW c \in Bearers, SeedFromBearer(c) PROVE Keeps(b)
  BY <1>2 DEF SeedFromBearer, Insert
<1>3. ASSUME NEW c \in Bearers, NEW f \in Flags, SetDebugCapture(c, f) PROVE Keeps(b)
  BY <1>3 DEF SetDebugCapture, Manage, Flags
<1>4. ASSUME NEW c \in Bearers, Revoke(c) PROVE Keeps(b)
  BY <1>4 DEF Revoke, Manage
<1>5. ASSUME NEW c \in Bearers, NEW d \in Bearers, Rotate(c, d) PROVE Keeps(b)
  BY <1>5 DEF Rotate, Manage
<1>6. ASSUME CacheClear \/ Restart \/ CountTokens \/ SeedNothing \/ UNCHANGED vars PROVE Keeps(b)
  BY <1>6 DEF CacheClear, Restart, CountTokens, SeedNothing, vars
<1>7. ASSUME NEW a \in Auths, Authenticate(a) PROVE Keeps(b)
  <2>1. UNCHANGED <<rows, issued, debug, changed>>
    BY <1>7 DEF Authenticate, Start, Hit, Verify, Miss, CacheDelete, Query, QueryFails, Put, Return
  <2> QED
    BY <2>1
<1>8. 1 \in 1 .. Never
  OBVIOUS
<1> QED
  BY <1>1, <1>2, <1>3, <1>4, <1>5, <1>6, <1>7, <1>8 DEF Next, Manager, SeedAuth, Flags

\* What was true of a bearer n ago was true of it n ago after such a step too.
LEMMA FreshKept ==
  ASSUME NEW b \in Bearers, NEW f, NEW n \in Nat, Keeps(b), Fresh(b, f, n)
  PROVE  Fresh(b, f, n)'
  BY DEF Keeps, Fresh

\* An entry of the cache is dropped, left alone, or put by the call that ends.
LEMMA EntryStep ==
  ASSUME IInv, [Next]_vars, ~Tick, NEW b \in Bearers
  PROVE  \/ entry'[b] = "none"
         \/ entry'[b] = entry[b] /\ held'[b] = held[b]
         \/ \E a \in Auths : /\ At(a, "put") /\ bearer[a] = b
                            /\ entry'[b] = row[a] /\ held'[b] = 0
<1> DEFINE Goal ==
      \/ entry'[b] = "none"
      \/ entry'[b] = entry[b] /\ held'[b] = held[b]
      \/ \E a \in Auths : At(a, "put") /\ bearer[a] = b /\ entry'[b] = row[a] /\ held'[b] = 0
<1>1. ASSUME Manager \/ SeedAuth \/ Restart \/ UNCHANGED vars PROVE Goal
  BY <1>1 DEF Manager, Create, Revoke, Rotate, SetDebugCapture, Manage, Caller, CacheClear, SeedAuth,
              CountTokens, SeedNothing, SeedFromBearer, AutoMint, Boot, Restart, vars, cacheVars
<1>2. ASSUME NEW a \in Auths, Verify(a) \/ CacheDelete(a) PROVE Goal
  BY <1>2 DEF Verify, CacheDelete, Delete, IInv, TypeOK
<1>3. ASSUME NEW a \in Auths, Put(a) PROVE Goal
  BY <1>3 DEF Put, IInv, TypeOK
<1>4. ASSUME NEW a \in Auths, Hit(a) \/ Miss(a) \/ Query(a) \/ QueryFails(a) PROVE Goal
  BY <1>4 DEF Hit, Miss, Query, QueryFails, cacheVars
<1>5. ASSUME NEW a \in Auths, NEW c \in Bearers, Start(a, c) PROVE Goal
  BY <1>5 DEF Start, cacheVars
<1> QED
  BY <1>1, <1>2, <1>3, <1>4, <1>5 DEF Next, Authenticate

SameCall(c) == pc'[c] = pc[c] /\ bearer'[c] = bearer[c] /\ row'[c] = row[c] /\ wait'[c] = wait[c]

\* A call that is under way with nothing read.
Reading(c) ==
  /\ pc'[c] \in {"get", "delete", "query"}
  /\ bearer'[c] \in Bearers /\ bearer'[c] \in issued

\* A call that has just read the database or the cache.
Selected(c) ==
  /\ pc'[c] = "put" /\ pc[c] = "query"
  /\ bearer'[c] = bearer[c] /\ wait'[c] = wait[c]
  /\ bearer[c] \in rows /\ row'[c] = debug[bearer[c]]

Found(c) ==
  /\ pc'[c] = "verify" /\ pc[c] = "get"
  /\ bearer'[c] = bearer[c] /\ wait'[c] = wait[c]
  /\ entry[bearer[c]] # "none" /\ held[bearer[c]] <= CacheTTL /\ row'[c] = entry[bearer[c]]

\* What a step does to a call of Authenticate, its own or another's.
LEMMA CallStep ==
  ASSUME IInv, [Next]_vars, ~Tick, NEW c \in Auths
  PROVE  pc'[c] = "idle" \/ SameCall(c) \/ Reading(c) \/ Selected(c) \/ Found(c)
<1> DEFINE Goal == pc'[c] = "idle" \/ SameCall(c) \/ Reading(c) \/ Selected(c) \/ Found(c)
<1> USE DEF IInv, TypeOK, CallInv, CallOK, At, Goto
<1>1. ASSUME Manager \/ SeedAuth \/ Restart \/ UNCHANGED vars PROVE Goal
  BY <1>1 DEF Manager, Create, Revoke, Rotate, SetDebugCapture, Manage, Caller, CacheClear, SeedAuth,
              CountTokens, SeedNothing, SeedFromBearer, AutoMint, Boot, Restart, vars, authVars, SameCall
<1>2. ASSUME NEW a \in Auths, NEW b \in Bearers, Start(a, b) PROVE Goal
  BY <1>2 DEF Start, SameCall, Reading
<1>3. ASSUME NEW a \in Auths, Hit(a) PROVE Goal
  BY <1>3 DEF Hit, SameCall, Found
<1>4. ASSUME NEW a \in Auths, Query(a) PROVE Goal
  BY <1>4 DEF Query, SameCall, Selected
<1>5. ASSUME NEW a \in Auths, Miss(a) \/ CacheDelete(a) PROVE Goal
  BY <1>5 DEF Miss, CacheDelete, SameCall, Reading
<1>6. ASSUME NEW a \in Auths, Verify(a) \/ QueryFails(a) \/ Put(a) PROVE Goal
  <2>1. \E res : Return(a, res)
    BY <1>6 DEF Verify, QueryFails, Put
  <2> QED
    BY <2>1 DEF Return, SameCall
<1> QED
  BY <1>1, <1>2, <1>3, <1>4, <1>5, <1>6 DEF Next, Authenticate

-----------------------------------------------------------------------------
(* The invariant.                                                          *)

\* The cache stays as fresh as its entries say: a late cachePut is at most
\* Gap behind.
LEMMA CacheKept ==
  ASSUME IInv, [Next]_vars, ~Tick
  PROVE  CacheInv'
<1> SUFFICES ASSUME NEW b \in Bearers, entry'[b] # "none" PROVE CacheOK(b)'
  BY DEF CacheInv, CacheOK
<1>1. CacheOK(b) /\ held[b] \in Nat /\ Gap \in Nat
  BY Bounds DEF IInv, CacheInv, TypeOK
<1>2. CASE entry'[b] = entry[b] /\ held'[b] = held[b]
  <2>1. Keeps(b)
    BY <1>1, <1>2, BearerStep DEF CacheOK
  <2>2. held[b] <= CacheTTL => Fresh(b, entry[b], held[b] + Gap)'
    BY <1>1, <1>2, <2>1, FreshKept DEF CacheOK, Fresh, Keeps
  <2> QED
    BY <1>2, <2>1, <2>2 DEF CacheOK, Keeps
<1>3. ASSUME NEW a \in Auths, At(a, "put"), bearer[a] = b, entry'[b] = row[a], held'[b] = 0
      PROVE  CacheOK(b)'
  <2>1. b \in issued /\ Fresh(b, row[a], wait[a]) /\ wait[a] \in Nat /\ wait[a] <= Gap
    BY <1>3, Bounds DEF IInv, CallInv, CallOK, At, TypeOK
  <2>2. Keeps(b)
    BY <2>1, BearerStep
  <2>3. Fresh(b, row[a], Gap)
    BY <2>1, Bounds DEF Fresh, IInv, TypeOK
  <2>4. (b \notin rows' \/ row[a] # debug'[b]) => changed'[b] <= 0 + Gap
    BY <2>2, <2>3, Bounds DEF Keeps, Fresh
  <2> QED
    BY <1>3, <2>2, <2>4 DEF CacheOK, Keeps, Fresh
<1> QED
  BY <1>2, <1>3, EntryStep

\* A call stays as close to what it read.
LEMMA CallKept ==
  ASSUME IInv, [Next]_vars, ~Tick
  PROVE  CallInv'
<1> SUFFICES ASSUME NEW c \in Auths, pc'[c] # "idle" PROVE CallOK(c)'
  BY DEF CallInv, CallOK, At
<1>1. CallOK(c) /\ wait[c] \in Nat
  BY Bounds DEF IInv, CallInv, TypeOK
<1>2. CASE SameCall(c)
  <2>1. bearer[c] \in Bearers /\ Keeps(bearer[c])
    BY <1>1, <1>2, BearerStep DEF CallOK, SameCall
  <2>2. At(c, "put") =>
          ((bearer[c] \notin rows' \/ row[c] # debug'[bearer[c]]) =>
             changed'[bearer[c]] <= wait[c])
    BY <1>1, <2>1 DEF CallOK, Fresh, Keeps
  <2>3. At(c, "verify") =>
          ((bearer[c] \notin rows' \/ row[c] # debug'[bearer[c]]) =>
             changed'[bearer[c]] <= CacheTTL + Gap + wait[c])
    BY <1>1, <2>1, Bounds DEF CallOK, Fresh, Keeps
  <2> QED
    BY <1>2, <2>1, <2>2, <2>3 DEF CallOK, SameCall, Keeps, Fresh, At
<1>3. CASE Reading(c)
  BY <1>3, BearerStep DEF Reading, CallOK, Keeps, At
<1>4. CASE Selected(c)
  <2> DEFINE b == bearer[c]
  <2>1. b \in Bearers /\ b \in issued /\ Keeps(b)
    BY <1>1, <1>4, BearerStep DEF CallOK, Selected
  <2>2. b \notin rows' \/ row'[c] # debug'[b] => changed'[b] <= wait[c]
    BY <1>1, <1>4, <2>1 DEF Keeps, Selected
  <2> QED
    BY <1>4, <2>1, <2>2 DEF CallOK, Selected, Keeps, Fresh, At
<1>5. CASE Found(c)
  <2> DEFINE b == bearer[c]
  <2>1. b \in Bearers /\ b \in issued /\ Keeps(b)
    BY <1>1, <1>5, BearerStep DEF CallOK, Found
  <2>2. held[b] \in Nat /\ held[b] <= CacheTTL /\ Fresh(b, row'[c], held[b] + Gap)
    BY <1>5, <2>1, Bounds DEF Found, IInv, CacheInv, CacheOK, TypeOK
  <2>3. changed[b] \in Nat
    BY <2>1, Bounds DEF IInv, TypeOK
  <2>4. b \notin rows' \/ row'[c] # debug'[b] => changed'[b] <= CacheTTL + Gap + wait[c]
    BY <1>1, <2>1, <2>2, <2>3, Bounds DEF Keeps, Fresh
  <2> QED
    BY <1>5, <2>1, <2>4 DEF CallOK, Found, Keeps, Fresh, At
<1> QED
  BY <1>2, <1>3, <1>4, <1>5, CallStep

\* What Tick does to the clocks of a bearer, of its entry and of a call.
BearerAges(b) ==
  /\ changed[b] \in Nat /\ changed'[b] \in Nat /\ changed'[b] <= changed[b] + 1
  /\ held[b] \in Nat /\ held'[b] \in Nat
  /\ entry[b] # "none" /\ held'[b] <= CacheTTL => held'[b] = held[b] + 1

CallAges(a) ==
  /\ wait[a] \in Nat /\ wait'[a] \in Nat
  /\ Verifying(a) => wait'[a] = wait[a] + 1

\* Time passes for a bearer, the entry and the call alike.
LEMMA TickKept ==
  ASSUME IInv, Tick
  PROVE  CacheInv' /\ CallInv'
<1> USE Bounds
<1>1. UNCHANGED <<rows, issued, debug, entry, pc, bearer, row>>
  BY DEF Tick
<1>2. ASSUME NEW b \in Bearers PROVE BearerAges(b)
  <2>1. changed[b] \in 0 .. Horizon /\ held[b] \in 0 .. CacheTTL + 1 /\ CacheTTL + 1 \in Nat
    BY DEF IInv, TypeOK
  <2>2. changed'[b] = Up(changed[b], Horizon)
    BY DEF Tick
  <2>3. held'[b] = IF entry[b] = "none" THEN 0 ELSE Up(held[b], CacheTTL + 1)
    BY DEF Tick
  <2> QED
    BY <2>1, <2>2, <2>3 DEF Up, BearerAges
<1>3. ASSUME NEW a \in Auths PROVE CallAges(a)
  BY DEF Tick, IInv, TypeOK, CallAges
<1>4. ASSUME NEW b \in Bearers PROVE CacheOK(b)'
  <2>1. CacheOK(b) /\ BearerAges(b)
    BY <1>2 DEF IInv, CacheInv
  <2>2. ASSUME entry[b] # "none", held'[b] <= CacheTTL
        PROVE  b \notin rows \/ entry[b] # debug[b] => changed'[b] <= held'[b] + Gap
    BY <2>1, <2>2 DEF CacheOK, Fresh, BearerAges
  <2> QED
    BY <1>1, <2>1, <2>2 DEF CacheOK, Fresh
<1>5. ASSUME NEW a \in Auths PROVE CallOK(a)'
  <2> DEFINE b == bearer[a]
  <2>1. CallOK(a) /\ CallAges(a)
    BY <1>3 DEF IInv, CallInv
  <2>2. Verifying(a) => BearerAges(b)
    BY <2>1, <1>2 DEF CallOK, Verifying
  <2>3. ASSUME At(a, "put")
        PROVE  b \notin rows \/ row[a] # debug[b] => changed'[b] <= wait'[a]
    BY <2>1, <2>2, <2>3 DEF CallOK, Fresh, At, Verifying, BearerAges, CallAges
  <2>4. ASSUME At(a, "verify")
        PROVE  b \notin rows \/ row[a] # debug[b] => changed'[b] <= CacheTTL + Gap + wait'[a]
    BY <2>1, <2>2, <2>4 DEF CallOK, Fresh, At, Verifying, BearerAges, CallAges
  <2> QED
    BY <1>1, <2>1, <2>3, <2>4 DEF CallOK, Fresh, At
<1> QED
  BY <1>4, <1>5 DEF CacheInv, CallInv

\* The invariant holds of the empty store.
LEMMA Initially == Init => IInv
<1> SUFFICES ASSUME Init PROVE IInv
  OBVIOUS
<1>1. TypeOK
  BY Ranges DEF Init, TypeOK, Flags
<1>2. CacheInv /\ CallInv
  BY DEF Init, CacheInv, CacheOK, CallInv, CallOK, At
<1> QED
  BY <1>1, <1>2 DEF IInv

\* The invariant holds throughout, for any number of tokens and calls.
THEOREM Invariance == Spec => []IInv
<1>1. IInv /\ [Next]_vars => IInv'
  BY TypeKept, CacheKept, CallKept, TickKept DEF IInv
<1> QED
  BY <1>1, Initially, PTL DEF Spec

\* The variables keep their types (Store, authCacheEntry, the locals of
\* Authenticate).
THEOREM TypeCorrect == Spec => []TypeOK
<1>1. IInv => TypeOK
  BY DEF IInv
<1> QED
  BY <1>1, Invariance, PTL

-----------------------------------------------------------------------------
(* What a request may be accepted with.                                    *)

\* A call is accepted where it verifies what it read from the cache or from
\* the database, with what it read.
LEMMA AcceptedBy ==
  ASSUME IInv, [Next]_vars, NEW a \in Auths, Accepts(a)
  PROVE  /\ Verifying(a) /\ bearer[a] \in Bearers
         /\ result'[a] = row[a]
<1> USE DEF IInv, TypeOK, Accepts
<1>1. ~(Manager \/ SeedAuth \/ Restart \/ Tick \/ UNCHANGED vars)
  BY DEF Manager, Create, SetDebugCapture, Revoke, Rotate, CacheClear, Manage, Caller, SeedAuth, CountTokens,
         SeedNothing, SeedFromBearer, AutoMint, Boot, Restart, Tick, vars, authVars
<1>2. PICK c \in Auths : Authenticate(c)
  BY <1>1 DEF Next
<1>3. ~(Hit(c) \/ Miss(c) \/ CacheDelete(c) \/ Query(c))
  BY DEF Hit, Miss, CacheDelete, Query
<1>4. ~QueryFails(c) /\ ~(\E b \in Bearers : Start(c, b))
  BY DEF QueryFails, Return, Start
<1>5. ASSUME Verify(c) \/ Put(c)
      PROVE  c = a /\ Verifying(a) /\ result'[a] = row[a]
  BY <1>5 DEF Verify, Put, Return, Verifying, At
<1> QED
  BY <1>2, <1>3, <1>4, <1>5 DEF Authenticate, CallInv, CallOK, Verifying

\* What a verifying call has read is no older than the bound.
LEMMA ReadBound ==
  ASSUME IInv, NEW a \in Auths, Verifying(a)
  PROVE  Fresh(bearer[a], row[a], CacheTTL + 2 * Gap)
<1>1. bearer[a] \in Bearers
  BY DEF IInv, CallInv, CallOK, Verifying
<1>2. /\ changed[bearer[a]] \in Nat
      /\ wait[a] \in Nat /\ wait[a] <= Gap
  BY <1>1, Bounds DEF IInv, TypeOK
<1>3. \/ Fresh(bearer[a], row[a], wait[a])
      \/ Fresh(bearer[a], row[a], CacheTTL + Gap + wait[a])
  BY DEF IInv, CallInv, CallOK, Verifying, At
<1> QED
  BY <1>2, <1>3, Bounds DEF Fresh

\* A revoked or rotated bearer is accepted no longer than the cache's TTL and
\* two verifications after it was deleted from the database, whatever interleaves
\* with Authenticate, restarts and their seeding of the table included.
THEOREM Staleness == Spec => StalenessBounded
<1> DEFINE Bound(a) == bearer[a] \notin rows => changed[bearer[a]] <= CacheTTL + 2 * Gap
<1>1. ASSUME IInv, [Next]_vars, NEW a \in Auths, Accepts(a) PROVE Bound(a)
  BY <1>1, AcceptedBy, ReadBound DEF Fresh
<1>2. IInv /\ [Next]_vars =>
        [\A a \in Auths : Accepts(a) /\ bearer[a] \notin rows =>
           changed[bearer[a]] <= CacheTTL + 2 * Gap]_vars
  BY <1>1
<1> QED
  BY <1>2, Invariance, PTL DEF Spec, StalenessBounded

\* A request runs with an outdated debug_capture no longer than that either.
THEOREM Setting == Spec => SettingBounded
<1> DEFINE Bound(a) == \/ result'[a] = debug[bearer[a]]
                       \/ changed[bearer[a]] <= CacheTTL + 2 * Gap
<1>1. ASSUME IInv, [Next]_vars, NEW a \in Auths, Accepts(a) PROVE Bound(a)
  BY <1>1, AcceptedBy, ReadBound DEF Fresh
<1>2. IInv /\ [Next]_vars =>
        [\A a \in Auths : Accepts(a) /\ bearer[a] \in rows => Bound(a)]_vars
  BY <1>1
<1> QED
  BY <1>2, Invariance, PTL DEF Spec, SettingBounded
=============================================================================
