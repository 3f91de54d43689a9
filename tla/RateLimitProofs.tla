--------------------------- MODULE RateLimitProofs ---------------------------
(***************************************************************************)
(* Proofs about RateLimit, for every rate and quota and any finite number  *)
(* of concurrent requests.                                                 *)
(***************************************************************************)
EXTENDS RateLimit, FiniteSetTheorems, TLAPS

-----------------------------------------------------------------------------
(* The inductive invariant.                                                *)

Running == {s \in Slots : pc[s] = "running"}

\* Today's row, with what the running requests may still add to it.
TodayInv ==
  TPD > 0 =>
    total[day] + MaxUse * Cardinality(Running)
      <= TPD - 1 + MaxUse * (Cardinality(Slots) + opened[day])

\* The rows of the other days: bounded as on the day they were closed, or empty.
RowsInv ==
  /\ TPD > 0 => \A d \in Days : total[d] <= TPD - 1 + MaxUse * (Cardinality(Slots) + opened[d])
  /\ \A d \in Days : d > day => total[d] = 0 /\ opened[d] = 0

\* What was used is in the row or has escaped.
UsedInv == \A d \in Days : used[d] <= total[d] + MaxUse * escaped[d]

\* What is in the bucket has not been given since any tick began.
BucketInv ==
  RPM > 0 => \A t \in 0 .. now :
    given - mark[t].given + BucketFor <= RPM * (1 + starts - mark[t].starts) + (now - t)

IInv == TypeOK /\ TodayInv /\ RowsInv /\ UsedInv /\ BucketInv

-----------------------------------------------------------------------------

\* How often something is used up to MaxUse.
LEMMA Products ==
  ASSUME NEW m \in Nat, NEW n \in Nat
  PROVE  /\ m * n \in Nat /\ m * (n + 1) = m * n + m
         /\ \A k \in Nat : k <= n => m * k <= m * n
         /\ \A k \in Nat : m * (n + k) = m * n + m * k
  OBVIOUS

\* There are only so many requests at a time.
LEMMA Counted ==
  /\ Cardinality(Slots) \in Nat
  /\ IsFiniteSet(Running) /\ Cardinality(Running) \in Nat /\ Cardinality(Running) <= Cardinality(Slots)
  /\ Cardinality(Running)' \in Nat /\ Cardinality(Running)' <= Cardinality(Slots)
<1>1. IsFiniteSet(Slots)  BY RateAssumption
<1>2. \A S \in SUBSET Slots : /\ IsFiniteSet(S) /\ Cardinality(S) \in Nat
                             /\ Cardinality(S) <= Cardinality(Slots)
  BY <1>1, FS_Subset, FS_CardinalityType
<1>3. Running \in SUBSET Slots /\ Running' \in SUBSET Slots  BY DEF Running
<1>4. Cardinality(Slots) \in Nat  BY <1>1, FS_CardinalityType
<1> QED  BY <1>2, <1>3, <1>4

\* The number of running requests changes with each that begins or ends.
LEMMA RunningStep ==
  ASSUME TypeOK, NEW s \in Slots, NEW from, NEW to \in {"idle", "allowed", "running"}, Goto(s, from, to)
  PROVE  Cardinality(Running)' =
           Cardinality(Running) + (IF to = "running" THEN 1 ELSE 0)
                                - (IF from = "running" THEN 1 ELSE 0)
<1>1. /\ pc \in [Slots -> {"idle", "allowed", "running"}]
      /\ pc[s] = from /\ pc' = [pc EXCEPT ![s] = to]
  BY DEF TypeOK, Goto
<1>2. IsFiniteSet(Running)  BY Counted
<1>3. CASE to = "running"
  <2>1. Running' = Running \cup {s}  BY <1>1, <1>3 DEF Running
  <2>2. s \in Running <=> from = "running"  BY <1>1 DEF Running
  <2> QED  BY <1>2, <1>3, <2>1, <2>2, FS_AddElement, Counted
<1>4. CASE to # "running"
  <2>1. Running' = Running \ {s}  BY <1>1, <1>4 DEF Running
  <2>2. s \in Running <=> from = "running"  BY <1>1 DEF Running
  <2>3. Cardinality(Running \ {s}) = IF s \in Running THEN Cardinality(Running) - 1
                                                     ELSE Cardinality(Running)
    BY <1>2, FS_RemoveElement
  <2> QED  BY <1>4, <2>1, <2>2, <2>3, Counted
<1> QED  BY <1>3, <1>4

-----------------------------------------------------------------------------
(* Type correctness.                                                       *)

\* A day's counter that goes up.
LEMMA Added ==
  ASSUME TypeOK, NEW f \in [Days -> Nat], NEW n \in Nat
  PROVE  /\ Add(f, n) \in [Days -> Nat]
         /\ Add(f, n)[day] = f[day] + n
         /\ \A d \in Days \ {day} : Add(f, n)[d] = f[d]
  BY DEF TypeOK, Add

\* The types of the steps.
LEMMA TypeStep == TypeOK /\ [Next]_vars => TypeOK'
<1> SUFFICES ASSUME TypeOK, [Next]_vars  PROVE TypeOK'
  OBVIOUS
<1> USE RateAssumption DEF dayVars, rpmVars
<1>0. /\ total \in [Days -> Nat] /\ used \in [Days -> Nat] /\ opened \in [Days -> Nat]
      /\ escaped \in [Days -> Nat] /\ bucket \in 0 .. RPM \cup {None}
  BY DEF TypeOK
<1>1. ASSUME NEW s \in Slots, AllowRequest(s)  PROVE TypeOK'
  <2>1. bucket' \in 0 .. RPM \cup {None} /\ given' \in Nat
    BY <1>1 DEF AllowRequest, BucketFor, TypeOK
  <2> QED  BY <1>1, <2>1 DEF AllowRequest, Goto, TypeOK
<1>2. ASSUME NEW s \in Slots, CheckDailyTokens(s) \/ Ends(s)  PROVE TypeOK'
  BY <1>2 DEF CheckDailyTokens, Ends, Goto, TypeOK
<1>3. ASSUME NEW s \in Slots, CheckFails(s)  PROVE TypeOK'
  <2>1. opened' \in [Days -> Nat]  BY <1>0, <1>3, Added DEF CheckFails
  <2> QED  BY <1>3, <2>1 DEF CheckFails, Goto, TypeOK
<1>4. ASSUME NEW s \in Slots, NEW n \in 1 .. MaxUse, RecordUsage(s, n)  PROVE TypeOK'
  <2>1. n \in Nat  OBVIOUS
  <2>2. total' \in [Days -> Nat] /\ used' \in [Days -> Nat]  BY <1>0, <1>4, <2>1, Added DEF RecordUsage
  <2> QED  BY <1>4, <2>2 DEF RecordUsage, Goto, TypeOK
<1>5. ASSUME NEW s \in Slots, NEW n \in 1 .. MaxUse, RecordFails(s, n)  PROVE TypeOK'
  <2>1. n \in Nat  OBVIOUS
  <2>2. escaped' \in [Days -> Nat] /\ used' \in [Days -> Nat]  BY <1>0, <1>5, <2>1, Added DEF RecordFails
  <2> QED  BY <1>5, <2>2 DEF RecordFails, Goto, TypeOK
<1>6. CASE Tick
  <2>1. bucket' \in 0 .. RPM \cup {None}  BY <1>0, <1>6 DEF Tick, Refill
  <2>2. mark' \in [Times -> Marks] /\ now' \in Times  BY <1>6 DEF Tick, TypeOK, Times, Marks
  <2> QED  BY <1>6, <2>1, <2>2 DEF Tick, TypeOK
<1>7. CASE NextDay  BY <1>7, SMTT(40) DEF NextDay, TypeOK, Days
<1>8. CASE Restart  BY <1>8 DEF Restart, TypeOK
<1>9. CASE Over \/ UNCHANGED vars  BY <1>9 DEF Over, vars, TypeOK
<1> QED  BY <1>1, <1>2, <1>3, <1>4, <1>5, <1>6, <1>7, <1>8, <1>9 DEF Next

-----------------------------------------------------------------------------
(* Tokens per day.                                                         *)

\* A step that charges nothing and lets nobody in.
LEMMA DayKept ==
  ASSUME TypeOK, TodayInv, RowsInv, UsedInv, UNCHANGED <<day, dayVars>>,
         Cardinality(Running)' <= Cardinality(Running), Cardinality(Running)' \in Nat
  PROVE  TodayInv' /\ RowsInv' /\ UsedInv'
<1> USE RateAssumption DEF dayVars
<1>1. RowsInv' /\ UsedInv'  BY DEF RowsInv, UsedInv
<1>2. MaxUse * Cardinality(Running)' <= MaxUse * Cardinality(Running)  BY Products, Counted
<1>3. /\ total[day] \in Nat /\ opened[day] \in Nat
      /\ MaxUse * (Cardinality(Slots) + opened[day]) \in Nat
      /\ MaxUse * Cardinality(Running) \in Nat /\ MaxUse * Cardinality(Running)' \in Nat
  BY Products, Counted DEF TypeOK
<1>4. TodayInv'  BY <1>2, <1>3 DEF TodayInv
<1> QED  BY <1>1, <1>4

\* No step breaks the bounds of the days.
LEMMA DayStep ==
  TypeOK /\ TodayInv /\ RowsInv /\ UsedInv /\ [Next]_vars => TodayInv' /\ RowsInv' /\ UsedInv'
<1> SUFFICES ASSUME TypeOK, TodayInv, RowsInv, UsedInv, [Next]_vars
             PROVE  TodayInv' /\ RowsInv' /\ UsedInv'
  OBVIOUS
<1> USE RateAssumption DEF dayVars, rpmVars
<1> DEFINE N == Cardinality(Slots)
           R == Cardinality(Running)
<1>t. /\ total \in [Days -> Nat] /\ used \in [Days -> Nat] /\ opened \in [Days -> Nat]
      /\ escaped \in [Days -> Nat] /\ day \in Days
  BY DEF TypeOK
<1>c. N \in Nat /\ R \in Nat /\ R <= N /\ R' \in Nat /\ R' <= N  BY Counted
<1> HIDE DEF N, R
<1>0. /\ total \in [Days -> Nat] /\ used \in [Days -> Nat] /\ opened \in [Days -> Nat]
      /\ escaped \in [Days -> Nat] /\ day \in Days
      /\ N \in Nat /\ R \in Nat /\ R <= N /\ R' \in Nat
  BY <1>t, <1>c
<1>1. ASSUME NEW s \in Slots, AllowRequest(s) \/ Ends(s)  PROVE TodayInv' /\ RowsInv' /\ UsedInv'
  <2>1. Goto(s, "idle", "allowed") \/ Goto(s, "running", "idle")  BY <1>1 DEF AllowRequest, Ends
  <2>2. R' <= R  BY <1>0, <2>1, RunningStep DEF R
  <2>3. UNCHANGED <<day, dayVars>>  BY <1>1 DEF AllowRequest, Ends
  <2> QED  BY <1>0, <2>2, <2>3, DayKept DEF R
<1>2. ASSUME NEW s \in Slots, CheckDailyTokens(s)  PROVE TodayInv' /\ RowsInv' /\ UsedInv'
  <2>1. CASE TPD > 0 /\ total[day] >= TPD
    <3>1. Goto(s, "allowed", "idle") /\ UNCHANGED <<day, dayVars>>
      BY <1>2, <2>1 DEF CheckDailyTokens
    <3>2. R' <= R  BY <1>0, <3>1, RunningStep DEF R
    <3> QED  BY <1>0, <3>1, <3>2, DayKept DEF R
  <2>2. CASE TPD > 0 /\ total[day] < TPD
    <3>1. R' <= N  BY <1>c
    <3>2. UNCHANGED <<day, dayVars>>  BY <1>2 DEF CheckDailyTokens
    <3>3. MaxUse * R' <= MaxUse * (N + opened[day])  BY <1>0, <3>1, Products
    <3>6. N + opened[day] \in Nat /\ R' \in Nat  BY <1>0
    <3>5. MaxUse * (N + opened[day]) \in Nat /\ MaxUse * R' \in Nat  BY <3>6, Products
    <3>4. TodayInv'  BY <1>0, <2>2, <3>2, <3>3, <3>5 DEF TodayInv, N, R
    <3> QED  BY <3>2, <3>4 DEF RowsInv, UsedInv
  <2>3. CASE TPD = 0
    <3>1. UNCHANGED <<day, dayVars>>  BY <1>2 DEF CheckDailyTokens
    <3> QED  BY <2>3, <3>1 DEF TodayInv, RowsInv, UsedInv
  <2> QED  BY <1>0, <2>1, <2>2, <2>3
<1>3. ASSUME NEW s \in Slots, CheckFails(s)  PROVE TodayInv' /\ RowsInv' /\ UsedInv'
  <2>1. TPD > 0 /\ Goto(s, "allowed", "running")
        /\ opened' = Add(opened, 1) /\ UNCHANGED <<day, total, used, escaped>>
    BY <1>3 DEF CheckFails
  <2>2. R' = R + 1  BY <1>0, <2>1, RunningStep DEF R
  <2>3. opened'[day] = opened[day] + 1 /\ \A d \in Days \ {day} : opened'[d] = opened[d]
    BY <1>t, <2>1, Added
  <2>4. MaxUse * R' = MaxUse * R + MaxUse  BY <1>0, <2>2, Products
  <2>5. ASSUME NEW d \in Days
        PROVE  /\ MaxUse * (N + opened[d] + 1) = MaxUse * (N + opened[d]) + MaxUse
               /\ MaxUse * (N + opened[d]) \in Nat
    BY <1>0, Products
  <2>6. N + opened'[day] = N + opened[day] + 1  BY <1>0, <2>3
  <2>7. TodayInv'  BY <1>0, <2>1, <2>4, <2>5, <2>6 DEF TodayInv, N, R
  <2>8. RowsInv'
    <3>1. total[day] <= TPD - 1 + MaxUse * (N + opened'[day])
      BY <1>0, <2>1, <2>5, <2>6 DEF RowsInv, N
    <3>2. ASSUME NEW d \in Days
          PROVE  /\ TPD > 0 => total[d] <= TPD - 1 + MaxUse * (N + opened'[d])
                 /\ d > day => total[d] = 0 /\ opened'[d] = 0
      <4>1. CASE d = day  BY <1>0, <3>1, <4>1 DEF Days
      <4>2. CASE d # day  BY <2>3, <4>2 DEF RowsInv, N
      <4> QED  BY <4>1, <4>2
    <3> QED  BY <2>1, <3>2 DEF RowsInv, N
  <2>e. UsedInv'  BY <2>1 DEF UsedInv
  <2> QED  BY <2>7, <2>8, <2>e
<1>4. ASSUME NEW s \in Slots, NEW n \in 1 .. MaxUse, RecordUsage(s, n)
      PROVE  TodayInv' /\ RowsInv' /\ UsedInv'
  <2>1. Goto(s, "running", "idle") /\ n \in Nat
        /\ total' = Add(total, n) /\ used' = Add(used, n) /\ UNCHANGED <<day, opened, escaped>>
    BY <1>4 DEF RecordUsage
  <2>2. R = R' + 1  BY <1>0, <2>1, RunningStep DEF R
  <2>3. /\ total'[day] = total[day] + n /\ \A d \in Days \ {day} : total'[d] = total[d]
        /\ used'[day] = used[day] + n /\ \A d \in Days \ {day} : used'[d] = used[d]
    BY <1>t, <2>1, Added, ZenonT(60)
  <2>4. MaxUse * R = MaxUse * R' + MaxUse /\ MaxUse * R' \in Nat  BY <1>0, <2>2, Products
  <2>5. MaxUse * (N + opened[day]) \in Nat  BY <1>0, Products
  <2>6. TodayInv'  BY <1>0, <2>1, <2>3, <2>4, <2>5 DEF TodayInv, N, R
  <2>7. RowsInv'
    <3>1. TPD > 0 => total'[day] <= TPD - 1 + MaxUse * (N + opened[day])
      <4>1. TPD > 0 => total'[day] + MaxUse * R' <= TPD - 1 + MaxUse * (N + opened[day])
        BY <2>1, <2>6 DEF TodayInv, N, R
      <4>2. total'[day] \in Nat  BY <1>0, <2>1, <2>3
      <4> QED  BY <2>4, <2>5, <4>1, <4>2
    <3>2. ASSUME NEW d \in Days
          PROVE  /\ TPD > 0 => total'[d] <= TPD - 1 + MaxUse * (N + opened[d])
                 /\ d > day => total'[d] = 0 /\ opened[d] = 0
      <4>1. CASE d = day  BY <1>0, <3>1, <4>1 DEF Days
      <4>2. CASE d # day  BY <2>3, <4>2 DEF RowsInv, N
      <4> QED  BY <4>1, <4>2
    <3> QED  BY <2>1, <3>2 DEF RowsInv, N
  <2>8. UsedInv'
    <3>1. \A d \in Days : MaxUse * escaped[d] \in Nat  BY <1>0, Products
    <3> QED  BY <1>0, <2>1, <2>3, <3>1 DEF UsedInv
  <2> QED  BY <2>6, <2>7, <2>8
<1>5. ASSUME NEW s \in Slots, NEW n \in 1 .. MaxUse, RecordFails(s, n)
      PROVE  TodayInv' /\ RowsInv' /\ UsedInv'
  <2>1. Goto(s, "running", "idle") /\ n \in Nat
        /\ escaped' = Add(escaped, 1) /\ used' = Add(used, n) /\ UNCHANGED <<day, opened, total>>
    BY <1>5 DEF RecordFails
  <2>2. R = R' + 1  BY <1>0, <2>1, RunningStep DEF R
  <2>e. escaped'[day] = escaped[day] + 1 /\ \A d \in Days \ {day} : escaped'[d] = escaped[d]
    BY <1>t, <2>1, Added
  <2>u. used'[day] = used[day] + n /\ \A d \in Days \ {day} : used'[d] = used[d]
    BY <1>t, <2>1, Added
  <2>3. /\ escaped'[day] = escaped[day] + 1 /\ \A d \in Days \ {day} : escaped'[d] = escaped[d]
        /\ used'[day] = used[day] + n /\ \A d \in Days \ {day} : used'[d] = used[d]
    BY <2>e, <2>u
  <2>4. MaxUse * R = MaxUse * R' + MaxUse /\ MaxUse * R' \in Nat  BY <1>0, <2>2, Products
  <2>5. MaxUse * (N + opened[day]) \in Nat  BY <1>0, Products
  <2>6. TodayInv'  BY <1>0, <2>1, <2>4, <2>5 DEF TodayInv, N, R
  <2>7. RowsInv'  BY <2>1 DEF RowsInv
  <2>8. UsedInv'
    <3>1. \A d \in Days : /\ MaxUse * escaped[d] \in Nat
                         /\ MaxUse * (escaped[d] + 1) = MaxUse * escaped[d] + MaxUse
      BY <1>0, Products
    <3> QED  BY <1>0, <2>1, <2>3, <3>1 DEF UsedInv
  <2> QED  BY <2>6, <2>7, <2>8
<1>6. CASE NextDay
  <2>1. day' = day + 1 /\ day' \in Days /\ UNCHANGED <<total, used, opened, escaped, pc>>
    BY <1>0, <1>6 DEF NextDay, Days
  <2>2. R' = R  BY <2>1 DEF R, Running
  <2>3. total[day'] = 0 /\ opened[day'] = 0  BY <1>0, <2>1 DEF RowsInv, Days
  <2>4. MaxUse * R' <= MaxUse * (N + opened[day']) /\ MaxUse * R' \in Nat
    BY <1>0, <2>2, <2>3, Products
  <2>5. MaxUse * (N + opened[day']) \in Nat  BY <1>0, <2>3, Products
  <2>6. TodayInv'  BY <1>0, <2>1, <2>3, <2>4, <2>5 DEF TodayInv, N, R
  <2>7. RowsInv'  BY <1>0, <2>1 DEF RowsInv, Days
  <2>8. UsedInv'  BY <2>1 DEF UsedInv
  <2> QED  BY <2>6, <2>7, <2>8
<1>7. CASE Tick \/ Restart \/ Over \/ UNCHANGED vars
  <2>1. UNCHANGED <<day, dayVars, pc>>  BY <1>7 DEF Tick, Restart, Over, vars
  <2>2. R' = R  BY <2>1 DEF R, Running
  <2> QED  BY <1>0, <2>1, <2>2, DayKept DEF R
<1> QED  BY <1>1, <1>2, <1>3, <1>4, <1>5, <1>6, <1>7 DEF Next

-----------------------------------------------------------------------------
(* Requests per minute.                                                    *)

\* No step lets more requests in than the bucket has gained.
LEMMA BucketStep == TypeOK /\ BucketInv /\ [Next]_vars => BucketInv'
<1> SUFFICES ASSUME TypeOK, BucketInv, [Next]_vars, RPM > 0, NEW t \in 0 .. now'
             PROVE  given' - mark'[t].given + BucketFor'
                      <= RPM * (1 + starts' - mark'[t].starts) + (now' - t)
  BY DEF BucketInv
<1> USE RateAssumption DEF dayVars, rpmVars
<1>a. bucket \in 0 .. RPM \cup {None}  BY DEF TypeOK
<1>b. BucketFor \in 0 .. RPM  BY <1>a DEF BucketFor
<1>c. t \in Times
  <2>1. now' \in Times  BY TypeStep DEF TypeOK
  <2> QED  BY <2>1 DEF Times
<1>0. /\ now \in Nat /\ t \in Times /\ given \in Nat /\ starts \in Nat
      /\ BucketFor \in 0 .. RPM /\ mark \in [Times -> Marks]
  BY <1>b, <1>c DEF TypeOK, Times
<1>1. mark[t].given \in Nat /\ mark[t].starts \in Nat  BY <1>0 DEF Marks
<1>2. t \in 0 .. now =>
        given - mark[t].given + BucketFor <= RPM * (1 + starts - mark[t].starts) + (now - t)
  BY DEF BucketInv
<1>3. ASSUME NEW s \in Slots, AllowRequest(s)
      PROVE  given' - mark'[t].given + BucketFor'
               <= RPM * (1 + starts' - mark'[t].starts) + (now' - t)
  <2>1. given' = given + 1 /\ BucketFor >= 1 /\ bucket' = BucketFor - 1 /\ UNCHANGED <<now, starts, mark>>
    BY <1>3 DEF AllowRequest
  <2>2. BucketFor' = BucketFor - 1  BY <1>0, <2>1 DEF BucketFor
  <2> QED  BY <1>0, <1>1, <1>2, <2>1, <2>2
<1>4. CASE Tick
  <2>1. /\ now' = now + 1 /\ UNCHANGED <<given, starts>>
        /\ mark' = [mark EXCEPT ![now'] = [given |-> given, starts |-> starts]]
    BY <1>4 DEF Tick
  <2>2. BucketFor' <= BucketFor + 1 /\ BucketFor' \in 0 .. RPM
    BY <1>4 DEF Tick, Refill, BucketFor, TypeOK
  <2>3. CASE t = now'
    <3>1. mark'[t].given = given /\ mark'[t].starts = starts  BY <1>0, <2>1, <2>3
    <3>2. RPM * (1 + starts' - mark'[t].starts) = RPM  BY <1>0, <2>1, <3>1
    <3>3. given' - mark'[t].given = 0 /\ now' - t = 0  BY <1>0, <2>1, <2>3, <3>1
    <3> QED  BY <1>0, <2>2, <3>2, <3>3
  <2>4. CASE t # now'
    <3>1. mark'[t] = mark[t] /\ t \in 0 .. now  BY <1>0, <2>1, <2>4
    <3> QED  BY <1>0, <1>1, <1>2, <2>1, <2>2, <3>1
  <2> QED  BY <2>3, <2>4
<1>5. CASE Restart
  <2>1. starts' = starts + 1 /\ bucket' = None /\ UNCHANGED <<now, given, mark>>  BY <1>5 DEF Restart
  <2>2. BucketFor' = RPM  BY <2>1 DEF BucketFor
  <2>3. RPM * (1 + starts' - mark[t].starts) = RPM * (1 + starts - mark[t].starts) + RPM
    BY <1>0, <1>1, <2>1
  <2> QED  BY <1>0, <1>1, <1>2, <2>1, <2>2, <2>3
<1>6. CASE UNCHANGED <<now, rpmVars>>
  BY <1>2, <1>6 DEF BucketFor
<1>7. ASSUME NEW s \in Slots,
             \/ CheckDailyTokens(s) \/ CheckFails(s) \/ Ends(s)
             \/ \E n \in 1 .. MaxUse : RecordUsage(s, n) \/ RecordFails(s, n)
      PROVE  UNCHANGED <<now, rpmVars>>
  BY <1>7 DEF CheckDailyTokens, CheckFails, Ends, RecordUsage, RecordFails
<1>8. CASE NextDay \/ Over \/ UNCHANGED vars
  <2>1. UNCHANGED <<now, rpmVars>>  BY <1>8 DEF NextDay, Over, vars
  <2> QED  BY <1>6, <2>1
<1> QED  BY <1>3, <1>4, <1>5, <1>6, <1>7, <1>8 DEF Next

-----------------------------------------------------------------------------
(* The theorems.                                                           *)

\* At first nothing has been used or given.
LEMMA InitInv == Init => IInv
<1> SUFFICES ASSUME Init  PROVE IInv
  OBVIOUS
<1> USE RateAssumption
<1>1. TypeOK  BY DEF Init, TypeOK, Times, Days, NoUse, Marks
<1>2. Running = {}  BY DEF Init, Running
<1>3. Cardinality(Running) = 0  BY <1>2, FS_EmptySet
<1>4. \A d \in Days : total[d] = 0 /\ opened[d] = 0 /\ used[d] = 0 /\ escaped[d] = 0
  BY DEF Init, NoUse
<1>5. /\ MaxUse * (Cardinality(Slots) + 0) \in Nat /\ MaxUse * 0 = 0 /\ day \in Days
  BY <1>1, Products, Counted DEF TypeOK
<1>6. TodayInv /\ RowsInv /\ UsedInv  BY <1>3, <1>4, <1>5 DEF TodayInv, RowsInv, UsedInv
<1>7. BucketInv  BY DEF Init, BucketInv, BucketFor, Times
<1> QED  BY <1>1, <1>6, <1>7 DEF IInv

\* The inductive invariant holds throughout.
LEMMA Invariance == Spec => []IInv
<1>1. IInv /\ [Next]_vars => IInv'  BY TypeStep, DayStep, BucketStep DEF IInv
<1> QED  BY <1>1, InitInv, PTL DEF Spec

\* The variables keep their types: the bucket neither underflows nor overflows.
THEOREM TypeCorrect == Spec => []TypeOK
<1>1. IInv => TypeOK  BY DEF IInv
<1> QED  BY <1>1, Invariance, PTL

\* CheckDailyTokens and RecordUsage together keep the use of a day within the
\* quota and what concurrent, unchecked and unrecorded requests may add.
THEOREM DailyQuota == Spec => []DailyBounded
<1>1. IInv => DailyBounded
  <2> SUFFICES ASSUME IInv, TPD > 0, NEW d \in Days
               PROVE  used[d] <= TPD - 1 + MaxUse * (Cardinality(Slots) + opened[d] + escaped[d])
    BY DEF DailyBounded
  <2>1. total[d] \in Nat /\ used[d] \in Nat /\ opened[d] \in Nat /\ escaped[d] \in Nat
    BY DEF IInv, TypeOK
  <2>2. /\ used[d] <= total[d] + MaxUse * escaped[d]
        /\ total[d] <= TPD - 1 + MaxUse * (Cardinality(Slots) + opened[d])
    BY DEF IInv, RowsInv, UsedInv
  <2>3. /\ MaxUse * (Cardinality(Slots) + opened[d] + escaped[d])
             = MaxUse * (Cardinality(Slots) + opened[d]) + MaxUse * escaped[d]
        /\ MaxUse * (Cardinality(Slots) + opened[d]) \in Nat /\ MaxUse * escaped[d] \in Nat
    BY <2>1, Products, Counted, RateAssumption
  <2> QED  BY <2>1, <2>2, <2>3, RateAssumption
<1> QED  BY <1>1, Invariance, PTL

\* AllowRequest lets in a full bucket and one request per tick, and another
\* bucket after a restart, from whatever moment one counts.
THEOREM RateKept == Spec => []WindowBounded
<1>1. IInv => WindowBounded
  <2> SUFFICES ASSUME IInv, RPM > 0, NEW t \in 0 .. now
               PROVE  given - mark[t].given <= RPM * (1 + starts - mark[t].starts) + (now - t)
    BY DEF WindowBounded
  <2>1. t \in Times /\ BucketFor \in Nat /\ now \in Nat /\ given \in Nat /\ starts \in Nat
    BY RateAssumption DEF IInv, TypeOK, Times, BucketFor
  <2>2. mark[t].given \in Nat /\ mark[t].starts \in Nat  BY <2>1 DEF IInv, TypeOK, Marks
  <2>3. given - mark[t].given + BucketFor <= RPM * (1 + starts - mark[t].starts) + (now - t)
    BY DEF IInv, BucketInv
  <2> QED  BY <2>1, <2>2, <2>3, RateAssumption
<1> QED  BY <1>1, Invariance, PTL
=============================================================================
