------------------------------ MODULE AuthStore ------------------------------
(***************************************************************************)
(* The token store (internal/auth) as the server and the CLI use it: one   *)
(* SQLite database, and in the server's process a cache of verified        *)
(* bearers.  Authenticate is not atomic: between what it reads (the cache  *)
(* or the database) and what it does with it lies an argon2 hash.  Tokens  *)
(* are revoked, rotated and toggled by the ccproxy CLI, that is by another *)
(* process with a cache of its own, or on the server's own Store, one call *)
(* after the other, as the unit tests do (Managers).  Every start of the   *)
(* server goes through SeedAuth (internal/server/config.go), which fills a *)
(* table it finds empty.                                                   *)
(*                                                                         *)
(* A row is named after the bearer whose prefix and hash it holds: both    *)
(* are unique.  last_used_at is left out: nothing reads it but             *)
(* `token list`.                                                           *)
(***************************************************************************)
EXTENDS Naturals, FiniteSets

CONSTANTS
  Bearers,     \* the bearers that may ever be issued: bound
  MaxRows,     \* tokens in the database at a time: bound
  Auths,       \* concurrent calls of Authenticate
  CacheTTL,    \* authCacheTTL in ticks
  Gap,         \* bound on the time verifySecret takes
  MaxLife,     \* the longest token TTL in ticks
  Managers,    \* who manages tokens: "cli", "server" or both
  None

ASSUME AuthAssumption ==
  /\ MaxRows \in Nat \ {0} /\ CacheTTL \in Nat /\ Gap \in Nat /\ MaxLife \in Nat
  /\ Managers \subseteq {"cli", "server"}
  /\ None \notin Bearers

\* How far the clocks of the histories count.
Horizon == CacheTTL + 2 * Gap + 1

\* The life of a token created without a TTL.
Never == MaxLife + 1

Flags == {"on", "off"}

VARIABLES
  rows,     \* the bearers whose prefix and hash are in the database
  issued,   \* those that ever were
  debug,    \* debug[b]: the debug_capture of b's row
  life,     \* life[b]: time until its expires_at
  boot,     \* the server: counting the tokens, seeding the table, or up
  entry,    \* entry[b]: the debug flag of the token cached for b, or "none"
  held,     \* held[b]: how long b has been in the cache, saturating
  clearing, \* a management call on this Store has still to clear the cache
  pc,       \* pc[a]: where Authenticate is
  bearer,   \* bearer[a]: what it was called with
  row,      \* row[a]: the debug flag it has read
  wait,     \* wait[a]: time since it read it
  result,   \* result[a]: the debug flag of the Token it returned, "none" without one
  changed   \* history, changed[b]: time since b was deleted, or else its debug flag set

dbVars    == <<rows, issued, debug, life>>
cacheVars == <<entry, held, clearing>>
authVars  == <<pc, bearer, row, wait, result>>
vars == <<dbVars, boot, cacheVars, authVars, changed>>

Expired(b) == life[b] = 0

Init ==
  /\ rows = {} /\ issued = {}
  /\ debug = [b \in Bearers |-> "off"]
  /\ life = [b \in Bearers |-> Never]
  /\ boot = "count"
  /\ entry = [b \in Bearers |-> "none"]
  /\ held = [b \in Bearers |-> 0]
  /\ clearing = FALSE
  /\ pc = [a \in Auths |-> "idle"]
  /\ bearer = [a \in Auths |-> None]
  /\ row = [a \in Auths |-> "off"]
  /\ wait = [a \in Auths |-> 0]
  /\ result = [a \in Auths |-> "none"]
  /\ changed = [b \in Bearers |-> Horizon]

-----------------------------------------------------------------------------
(* Management: one SQL statement or transaction, then cacheClear.  The     *)
(* CLI's Store clears its own cache, which is not the server's.            *)

\* INSERT of a row with bearer b.
Insert(b, f, l) ==
  /\ Cardinality(rows) < MaxRows
  /\ rows' = rows \cup {b}
  /\ issued' = issued \cup {b}
  /\ debug' = [debug EXCEPT ![b] = f]
  /\ life' = [life EXCEPT ![b] = l]

\* generateBearer: a prefix and a secret that were never used.
Create(b, f, l) ==
  /\ b \notin issued
  /\ Insert(b, f, l)
  /\ UNCHANGED <<boot, cacheVars, authVars, changed>>

\* The caller's Store: another process's, or the one Authenticate runs on,
\* whose cache is cleared next.
Caller ==
  \/ "cli" \in Managers /\ UNCHANGED clearing
  \/ "server" \in Managers /\ boot = "up" /\ ~clearing /\ clearing' = TRUE

\* Every management call: the row must exist, else ErrUnknownToken.
Manage(b) ==
  /\ b \in rows
  /\ Caller
  /\ UNCHANGED <<boot, entry, held, authVars>>

Revoke(b) ==
  /\ Manage(b)
  /\ rows' = rows \ {b}
  /\ changed' = [changed EXCEPT ![b] = 0]
  /\ UNCHANGED <<issued, debug, life>>

\* The row gets a new bearer and keeps the rest.
Rotate(b, c) ==
  /\ Manage(b)
  /\ c \notin issued
  /\ rows' = (rows \ {b}) \cup {c}
  /\ issued' = issued \cup {c}
  /\ debug' = [debug EXCEPT ![c] = debug[b]]
  /\ life' = [life EXCEPT ![c] = life[b]]
  /\ changed' = [changed EXCEPT ![b] = 0, ![c] = changed[b]]

SetDebugCapture(b, f) ==
  /\ Manage(b)
  /\ debug' = [debug EXCEPT ![b] = f]
  /\ changed' = [changed EXCEPT ![b] = IF debug[b] = f THEN @ ELSE 0]
  /\ UNCHANGED <<rows, issued, life>>

CacheClear ==
  /\ clearing
  /\ clearing' = FALSE
  /\ entry' = [b \in Bearers |-> "none"]
  /\ held' = [b \in Bearers |-> 0]
  /\ UNCHANGED <<dbVars, boot, authVars, changed>>

-----------------------------------------------------------------------------
(* The start of the server.  The CLI may change the table between its      *)
(* steps.                                                                  *)

\* The process ends, at any time, and another one opens the store with an
\* empty cache.
Restart ==
  /\ boot' = "count"
  /\ entry' = [b \in Bearers |-> "none"]
  /\ held' = [b \in Bearers |-> 0]
  /\ clearing' = FALSE
  /\ pc' = [a \in Auths |-> "idle"]
  /\ bearer' = [a \in Auths |-> None]
  /\ row' = [a \in Auths |-> "off"]
  /\ wait' = [a \in Auths |-> 0]
  /\ result' = [a \in Auths |-> "none"]
  /\ UNCHANGED <<dbVars, changed>>

Boot(from, to) ==
  /\ boot = from
  /\ boot' = to
  /\ UNCHANGED <<cacheVars, authVars>>

\* SeedAuth counts the tokens.
CountTokens ==
  /\ Boot("count", IF rows = {} THEN "seed" ELSE "up")
  /\ UNCHANGED <<dbVars, changed>>

\* SeedFromBearer with CCPROXY_TOKEN, which may hold any bearer, one that was
\* revoked too.  It counts once more before it hashes; prefix is UNIQUE.
SeedFromBearer(b) ==
  /\ Boot("seed", "up")
  /\ b \notin rows
  /\ Insert(b, "off", Never)
  /\ changed' = [changed EXCEPT ![b] = 0]

\* Its second count finds a token; or CCPROXY_TOKEN is malformed or its INSERT
\* fails, and a warning is all that comes of it.
SeedNothing ==
  /\ Boot("seed", "up")
  /\ UNCHANGED <<dbVars, changed>>

\* Without CCPROXY_TOKEN: Create, whose bearer is printed once.
AutoMint(b) ==
  /\ Boot("seed", "up")
  /\ b \notin issued
  /\ Insert(b, "off", Never)
  /\ UNCHANGED changed

-----------------------------------------------------------------------------
(* Authenticate.                                                           *)

At(a, label) == pc[a] = label

Goto(a, to) == pc' = [pc EXCEPT ![a] = to]

\* A request comes with the prefix of a bearer that was issued at some time.
\* The listeners are opened after SeedAuth.
Start(a, b) ==
  /\ At(a, "idle")
  /\ boot = "up"
  /\ b \in issued
  /\ Goto(a, "get")
  /\ bearer' = [bearer EXCEPT ![a] = b]
  /\ result' = [result EXCEPT ![a] = "none"]
  /\ UNCHANGED <<dbVars, boot, cacheVars, row, wait, changed>>

\* The call returns a Token with this debug flag, or an error; its local
\* variables are gone.
Return(a, res) ==
  /\ Goto(a, "idle")
  /\ result' = [result EXCEPT ![a] = res]
  /\ bearer' = [bearer EXCEPT ![a] = None]
  /\ row' = [row EXCEPT ![a] = "off"]
  /\ wait' = [wait EXCEPT ![a] = 0]
  /\ UNCHANGED <<dbVars, boot, changed>>

\* cacheDelete.
Delete(b) ==
  /\ entry' = [entry EXCEPT ![b] = "none"]
  /\ held' = [held EXCEPT ![b] = 0]

\* Mutant of Hit: the nil check is missing.
HitUnchecked(a) ==
  /\ At(a, "get")
  /\ held[bearer[a]] <= CacheTTL
  /\ row' = [row EXCEPT ![a] = entry[bearer[a]]]
  /\ Goto(a, "verify")
  /\ UNCHANGED <<dbVars, boot, cacheVars, bearer, wait, result, changed>>

\* Mutant of Hit: the age of the entry is not compared.
HitIgnoresAge(a) ==
  /\ At(a, "get")
  /\ entry[bearer[a]] # "none"
  /\ row' = [row EXCEPT ![a] = entry[bearer[a]]]
  /\ Goto(a, "verify")
  /\ UNCHANGED <<dbVars, boot, cacheVars, bearer, wait, result, changed>>

\* Mutant of Hit: every hit renews the entry.
HitRenews(a) ==
  /\ At(a, "get")
  /\ LET b == bearer[a] IN
       /\ entry[b] # "none" /\ held[b] <= CacheTTL
       /\ row' = [row EXCEPT ![a] = entry[b]]
       /\ held' = [held EXCEPT ![b] = 0]
  /\ Goto(a, "verify")
  /\ UNCHANGED <<dbVars, boot, entry, clearing, bearer, wait, result, changed>>

\* cacheGet finds an entry that is not too old.
Hit(a) ==
  /\ At(a, "get")
  /\ LET b == bearer[a] IN
       /\ entry[b] # "none" /\ held[b] <= CacheTTL
       /\ row' = [row EXCEPT ![a] = entry[b]]
  /\ Goto(a, "verify")
  /\ UNCHANGED <<dbVars, boot, cacheVars, bearer, wait, result, changed>>

\* verifySecret and IsExpired on the cached token: the secret may be another's.
Verify(a) ==
  /\ At(a, "verify")
  /\ LET b == bearer[a] IN
       \/ Return(a, "none") /\ UNCHANGED <<entry, held>>
       \/ Expired(b) /\ Return(a, "none") /\ Delete(b)
       \/ ~Expired(b) /\ Return(a, row[a]) /\ UNCHANGED <<entry, held>>
  /\ UNCHANGED clearing

\* cacheGet finds nothing, or what it deletes in a second critical section.
Miss(a) ==
  /\ At(a, "get")
  /\ LET b == bearer[a] IN
       \/ entry[b] = "none" /\ Goto(a, "query")
       \/ entry[b] # "none" /\ held[b] > CacheTTL /\ Goto(a, "delete")
  /\ UNCHANGED <<dbVars, boot, cacheVars, bearer, row, wait, result, changed>>

CacheDelete(a) ==
  /\ At(a, "delete")
  /\ Delete(bearer[a])
  /\ Goto(a, "query")
  /\ UNCHANGED <<dbVars, boot, clearing, bearer, row, wait, result, changed>>

\* SELECT ... WHERE prefix = ?
Query(a) ==
  /\ At(a, "query")
  /\ bearer[a] \in rows
  /\ row' = [row EXCEPT ![a] = debug[bearer[a]]]
  /\ Goto(a, "put")
  /\ UNCHANGED <<dbVars, boot, cacheVars, bearer, wait, result, changed>>

\* No such row, or the query fails.
QueryFails(a) ==
  /\ At(a, "query")
  /\ Return(a, "none")
  /\ UNCHANGED cacheVars

\* verifySecret, IsExpired, cachePut.
Put(a) ==
  /\ At(a, "put")
  /\ LET b == bearer[a] IN
       \/ Return(a, "none") /\ UNCHANGED <<entry, held>>
       \/ /\ ~Expired(b)
          /\ Return(a, row[a])
          /\ entry' = [entry EXCEPT ![b] = row[a]]
          /\ held' = [held EXCEPT ![b] = 0]
  /\ UNCHANGED clearing

-----------------------------------------------------------------------------
(* Time.                                                                   *)

Up(n, cap) == IF n < cap THEN n + 1 ELSE n

Verifying(a) == pc[a] \in {"verify", "put"}

\* verifySecret takes at most Gap.
Tick ==
  /\ \A a \in Auths : Verifying(a) => wait[a] < Gap
  /\ life' = [b \in Bearers |-> IF life[b] \in 1 .. MaxLife THEN life[b] - 1 ELSE life[b]]
  /\ held' = [b \in Bearers |-> IF entry[b] = "none" THEN 0 ELSE Up(held[b], CacheTTL + 1)]
  /\ wait' = [a \in Auths |-> IF Verifying(a) THEN wait[a] + 1 ELSE wait[a]]
  /\ changed' = [b \in Bearers |-> Up(changed[b], Horizon)]
  /\ UNCHANGED <<rows, issued, debug, boot, entry, clearing, pc, bearer, row, result>>

-----------------------------------------------------------------------------

Authenticate(a) ==
  \/ \E b \in Bearers : Start(a, b)
  \/ Hit(a) \/ Verify(a) \/ Miss(a) \/ CacheDelete(a) \/ Query(a) \/ QueryFails(a) \/ Put(a)

Manager ==
  \/ \E b \in Bearers :
       \/ \E f \in Flags : (\E l \in 1 .. Never : Create(b, f, l)) \/ SetDebugCapture(b, f)
       \/ Revoke(b)
       \/ \E c \in Bearers : Rotate(b, c)
  \/ CacheClear

SeedAuth ==
  \/ CountTokens \/ SeedNothing
  \/ \E b \in Bearers : SeedFromBearer(b) \/ AutoMint(b)

Next == (\E a \in Auths : Authenticate(a)) \/ Manager \/ SeedAuth \/ Restart \/ Tick

Spec == Init /\ [][Next]_vars

-----------------------------------------------------------------------------
(* What must hold.                                                         *)

Accepts(a) == result[a] = "none" /\ result'[a] # "none"

\* The variables have their types.
TypeOK ==
  /\ rows \subseteq issued /\ issued \subseteq Bearers
  /\ debug \in [Bearers -> Flags]
  /\ life \in [Bearers -> 0 .. Never]
  /\ boot \in {"count", "seed", "up"}
  /\ entry \in [Bearers -> Flags \cup {"none"}]
  /\ held \in [Bearers -> 0 .. CacheTTL + 1]
  /\ clearing \in BOOLEAN
  /\ pc \in [Auths -> {"idle", "get", "verify", "delete", "query", "put"}]
  /\ bearer \in [Auths -> Bearers \cup {None}]
  /\ row \in [Auths -> Flags]
  /\ wait \in [Auths -> 0 .. Gap]
  /\ result \in [Auths -> Flags \cup {"none"}]
  /\ changed \in [Bearers -> 0 .. Horizon]

\* A bearer that is not in the database is accepted only while it was deleted, by
\* a revocation or a rotation, no longer ago than the TTL of the cache and twice
\* the time verifySecret takes, however calls of Authenticate, cache clears and
\* cache puts interleave: a late cachePut starts a new TTL, but only once.  A
\* revoked bearer may come back for good: a restart that finds the table empty
\* puts CCPROXY_TOKEN's into the database (SeedFromBearer).
StalenessBounded ==
  [][\A a \in Auths :
       (Accepts(a) /\ bearer[a] \notin rows) => changed[bearer[a]] <= CacheTTL + 2 * Gap]_vars

\* The same bound for a setting: a request runs with an outdated debug_capture
\* only for so long after the toggle.
SettingBounded ==
  [][\A a \in Auths :
       (Accepts(a) /\ bearer[a] \in rows) =>
         \/ result'[a] = debug[bearer[a]]
         \/ changed[bearer[a]] <= CacheTTL + 2 * Gap]_vars
=============================================================================
