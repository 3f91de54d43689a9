------------------------------ MODULE RateLimit ------------------------------
(***************************************************************************)
(* The two quotas of a token (internal/ratelimit) and the requests that    *)
(* handleChatCompletions admits under them: requests per minute, a token   *)
(* bucket in memory, and tokens per day, a row of the database that is     *)
(* read before the request and added to after it.  Many requests may pass  *)
(* the check before any of them is charged; clients leave, the database    *)
(* fails, the day changes, the server restarts.                            *)
(*                                                                         *)
(* A tick is the time in which the bucket gains a request, 60 s / RPM.     *)
(***************************************************************************)
EXTENDS Integers, FiniteSets

CONSTANTS
  Slots,        \* requests of the token that the server handles at a time
  RPM,          \* Token.RateLimitRPM; 0 is no limit
  TPD,          \* Token.RateLimitTPD; 0 is no limit
  MaxUse,       \* bound on the tokens of one request
  MaxTime,      \* bound on the time
  MaxDay,       \* bound on the days
  MaxFaults,    \* bound on failures of the database and clients that leave
  MaxRestarts,  \* bound on restarts
  None

ASSUME RateAssumption ==
  /\ IsFiniteSet(Slots)
  /\ RPM \in Nat /\ TPD \in Nat /\ MaxUse \in Nat /\ None \notin Nat
  /\ MaxTime \in Nat /\ MaxDay \in Nat /\ MaxFaults \in Nat /\ MaxRestarts \in Nat

VARIABLES
  now,       \* time in ticks
  day,       \* the UTC day
  bucket,    \* what is left in the token's bucket, None before its first request
  pc,        \* where each request is
  total,     \* total[d]: the row of day d
  used,      \* history, used[d]: the tokens that requests used on day d
  opened,    \* history, opened[d]: the requests of d that no check let in
  escaped,   \* history, escaped[d]: the requests of d whose use was not recorded
  given,     \* history: the requests that AllowRequest has let in
  starts,    \* how often the server was restarted
  mark       \* history, mark[t]: given and starts when tick t began

dayVars == <<total, used, opened, escaped>>
rpmVars == <<bucket, given, starts, mark>>
vars == <<now, day, pc, dayVars, rpmVars>>

Times == 0 .. MaxTime

Days == 0 .. MaxDay

\* A day without use has no row, which counts as 0.
NoUse == [d \in Days |-> 0]

Init ==
  /\ now = 0 /\ day = 0 /\ bucket = None
  /\ pc = [s \in Slots |-> "idle"]
  /\ total = NoUse /\ used = NoUse /\ opened = NoUse /\ escaped = NoUse
  /\ given = 0 /\ starts = 0
  /\ mark = [t \in Times |-> [given |-> 0, starts |-> 0]]

Goto(s, from, to) == pc[s] = from /\ pc' = [pc EXCEPT ![s] = to]

\* n more today.
Add(f, n) == [f EXCEPT ![day] = @ + n]

-----------------------------------------------------------------------------
(* Requests per minute.                                                    *)

\* Mutant: a new bucket is not kept.
BucketForEach == RPM

\* bucketFor, a new bucket is full.
BucketFor == IF bucket = None THEN RPM ELSE bucket

\* Mutant: the bucket is not asked.
AllowAnyRequest(s) ==
  /\ Goto(s, "idle", "allowed")
  /\ RPM > 0
  /\ bucket' = BucketFor - 1
  /\ given' = given + 1
  /\ UNCHANGED <<now, day, dayVars, starts, mark>>

\* AllowRequest; a request that it refuses changes nothing.
AllowRequest(s) ==
  /\ Goto(s, "idle", "allowed")
  /\ \/ RPM = 0 /\ UNCHANGED <<bucket, given>>
     \/ /\ RPM > 0 /\ BucketFor >= 1
        /\ bucket' = BucketFor - 1
        /\ given' = given + 1
  /\ UNCHANGED <<now, day, dayVars, starts, mark>>

-----------------------------------------------------------------------------
(* Tokens per day.                                                         *)

\* CheckDailyTokens.  Its request has used up a place in the bucket.
CheckDailyTokens(s) ==
  /\ pc[s] = "allowed"
  /\ Goto(s, "allowed", IF TPD > 0 /\ total[day] >= TPD THEN "idle" ELSE "running")
  /\ UNCHANGED <<now, day, dayVars, rpmVars>>

\* The query fails: the handler logs it and goes on.
CheckFails(s) ==
  /\ TPD > 0 /\ opened[day] < MaxFaults
  /\ Goto(s, "allowed", "running")
  /\ opened' = Add(opened, 1)
  /\ UNCHANGED <<now, day, total, used, escaped, rpmVars>>

\* The request is refused after all, for a scope or a parameter, or ends
\* without use.
Ends(s) ==
  /\ Goto(s, "running", "idle")
  /\ UNCHANGED <<now, day, dayVars, rpmVars>>

\* Mutant: the upsert sets the total.
RecordUsageSets(s, n) ==
  /\ Goto(s, "running", "idle")
  /\ total' = [total EXCEPT ![day] = n]
  /\ used' = Add(used, n)
  /\ UNCHANGED <<now, day, opened, escaped, rpmVars>>

\* recordUsageFromResult, RecordUsage: to the day it is now, which need not be
\* the day that was checked.
RecordUsage(s, n) ==
  /\ Goto(s, "running", "idle")
  /\ total' = Add(total, n)
  /\ used' = Add(used, n)
  /\ UNCHANGED <<now, day, opened, escaped, rpmVars>>

\* The client has left before the result, or with it, so that the context of
\* the statement is cancelled; or the database fails, and that is logged.
RecordFails(s, n) ==
  /\ escaped[day] < MaxFaults
  /\ Goto(s, "running", "idle")
  /\ used' = Add(used, n)
  /\ escaped' = Add(escaped, 1)
  /\ UNCHANGED <<now, day, total, opened, rpmVars>>

-----------------------------------------------------------------------------

\* rate.Limiter: the bucket gains a request unless it is full.
Refill == IF bucket = None \/ bucket = RPM THEN bucket ELSE bucket + 1

Tick ==
  /\ now < MaxTime
  /\ now' = now + 1
  /\ bucket' = Refill
  /\ mark' = [mark EXCEPT ![now'] = [given |-> given, starts |-> starts]]
  /\ UNCHANGED <<day, pc, dayVars, given, starts>>

\* Midnight, at any time.
NextDay ==
  /\ day < MaxDay
  /\ day' = day + 1
  /\ UNCHANGED <<now, pc, dayVars, rpmVars>>

\* New: the rows are kept, the buckets are not.  The end of the server ends a
\* request as its client does; without a bucket a restart changes nothing.
Restart ==
  /\ starts < MaxRestarts
  /\ \A s \in Slots : pc[s] = "idle"
  /\ bucket # None
  /\ bucket' = None
  /\ starts' = starts + 1
  /\ UNCHANGED <<now, day, pc, dayVars, given, mark>>

\* Bound: the end of the time.
Over == now = MaxTime /\ day = MaxDay /\ UNCHANGED vars

Next ==
  \/ \E s \in Slots :
       \/ AllowRequest(s)
       \/ CheckDailyTokens(s) \/ CheckFails(s)
       \/ Ends(s)
       \/ \E n \in 1 .. MaxUse : RecordUsage(s, n) \/ RecordFails(s, n)
  \/ Tick
  \/ NextDay
  \/ Restart
  \/ Over

Spec == Init /\ [][Next]_vars

-----------------------------------------------------------------------------
(* What must hold.                                                         *)

Marks == [given : Nat, starts : Nat]

\* The variables have their types: AllowRequest never takes more out of the
\* bucket than there is, nor does the bucket overflow.
TypeOK ==
  /\ now \in Times /\ day \in Days
  /\ bucket \in 0 .. RPM \cup {None}
  /\ pc \in [Slots -> {"idle", "allowed", "running"}]
  /\ total \in [Days -> Nat] /\ used \in [Days -> Nat]
  /\ opened \in [Days -> Nat] /\ escaped \in [Days -> Nat]
  /\ given \in Nat /\ starts \in Nat
  /\ mark \in [Times -> Marks]

\* What a token uses in a day exceeds its quota by no more than what the
\* requests use that run at the same time, that were let in because the
\* database failed, or whose use was never recorded: the check of
\* CheckDailyTokens and the charge of RecordUsage lie a whole request apart,
\* possibly with midnight or a restart between them.
DailyBounded ==
  TPD > 0 => \A d \in Days :
    used[d] <= TPD - 1 + MaxUse * (Cardinality(Slots) + opened[d] + escaped[d])

\* From the beginning of any tick to any later moment, AllowRequest lets in a
\* full bucket, one request per tick and another bucket per restart: in a
\* minute, which is RPM ticks, twice RPM at most.
WindowBounded ==
  RPM > 0 => \A t \in 0 .. now :
    given - mark[t].given <= RPM * (1 + starts - mark[t].starts) + (now - t)
=============================================================================
