# ccproxy: a TLA+ verification project

ccproxy is a Go server that speaks the OpenAI chat API and answers each request by
running a `claude` subprocess. This directory holds TLA+ models of its concurrent core,
the TLC runs that check them on small instances, and TLAPS proofs of the main results
for every value of the constants. Paths below are relative to the repository root
(`src/` here).

## 1. The system

| Component | State it keeps | Operations | Modelled in |
|---|---|---|---|
| session manager, `internal/session` | map of client id to Session; per session a mutex, claude's conversation id, a workspace, LastActivity | AcquireOrCreate, release, SetCCSessionID, eviction loop, Stop | `Session`, `ConversationStore` |
| workspace resolver, `internal/workspace` | ephemeral directories on disk | Resolve, ResolveByName, Cleanup | `Session` |
| chat handlers, `internal/server/chat.go` | one goroutine per request, with its defers | runStateless, runPersistent, streamChat, bufferedChat, recording of usage | `Session`, `Subprocess`, `Translate`, `RateLimit` |
| server lifecycle, `internal/server/server.go` | listeners, context | Run, drain, deferred Stop | `Session` |
| claude subprocess, `internal/claude` | process, pipe, events channel, waitOnce, closeOnce | Spawn, readEvents, supervise, Wait, Close | `Subprocess`, `ProcHandle` |
| token store, `internal/auth` | SQLite table, cache of verified bearers | Authenticate, Create, Revoke, Rotate, SetDebugCapture, SeedFromBearer | `AuthStore` |
| start of the server, `internal/server/config.go` | the token table it finds | SeedAuth | `AuthStore` |
| rate limiter, `internal/ratelimit` | token buckets, daily usage table | AllowRequest, CheckDailyTokens, RecordUsage | `RateLimit` |
| translation, `internal/translate` | per-request Translator | EventToChunks, NonStreamingResponse | `Translate` |
| bridge transport, `internal/bridge/transport.go` | pending calls, closed, the socket | Call, Run, Close, handler's hello and Register | `BridgeConn`, `ConnLife` |
| bridge registry and route, `internal/bridge`, `internal/server/bridge_route.go` | principal map, map of mounts, watchers, the mount point on disk | Register, Unregister, Lookup, Mount, Unmount, MountPathFor | `BridgeMount` |
| stderr ring buffer, `internal/claude/ringbuffer.go` | the last bytes of stderr | Write, String | `RingBuffer` |
| bridge file system and stat cache, `internal/bridge/fs_fuse.go` | stat cache with a TTL | every FUSE operation, InvalidateCache | `BridgeFS` |
| bridge daemon, `internal/bridgeclient` | the client's disk, a goroutine per request, the prompt, the watcher | serve, dispatch, the file handlers, Ask, runWatcher | `BridgeFS` |
| debug capture, configuration, SSE, metrics, CLI parsing | files, constants, counters | | no: no state that is read back |

How they interact. A request is authenticated (`AuthStore`), admitted, and runs in a
handler. The handler takes a workspace of its own or that of its session, starts a
subprocess in it, and unwinds its defers in the order Close, then release or Cleanup.
The session manager's goroutine evicts idle sessions concurrently, and all of them
when the server is told to stop. Around the subprocess run four more goroutines: the
reader, the supervisor, the stderr drain, and one that waits for the exit for a
metric. Tokens are changed by another process, the CLI, through the same database, and by every
start of the server when there are none; the
token's quotas are checked before the subprocess starts and charged when its result
arrives. A bridge's daemon keeps one websocket (`BridgeConn`), over which the server
mounts the client's directory (`BridgeMount`) and every file operation of `claude` goes
(`BridgeFS`).

What is hard here: two mutexes taken one after the other with a gap between them;
an evictor that removes directories subprocesses run in, or fails to and does not notice;
defers whose order matters;
`cmd.Wait` closing a pipe that is still being read; bounded pipe and channel; a
`sync.Once` shared by two ways to stop a process; a cache filled with what was read
before a slow hash; a map of mounts under a mutex and, outside it, the one path they are
all mounted on; a server that stops while requests arrive; a quota that is checked
a whole request before it is charged; a stat cache over a disk that others change, with
calls that time out here and go on there. `PROJECT.json` lists
these hazards with the line where each bites.

## 2. Modules

**`Session`** models a request from admission to return, together with the manager
and `Server.Run`. A Session object, an ephemeral directory and a conversation id are
named after the request that made them. `pc[r]` is the handler's position; `sessions`,
`holder`, `ccID` and `age` are the manager's map and the fields of its sessions;
`ephemeral` and `dirs` the resolutions with a removing Cleanup and the directories that
exist, and `left` those whose removal was tried and failed, since Cleanup ignores the error
of `os.RemoveAll` (`RemoveDir`) and whoever called it goes on as if it had worked; `mgr` and `todo` the eviction loop; `phase` is `Server.Run`. The critical
section of AcquireOrCreate is one action (`Acquire`, `Create` or `CreateFails`) and
`Lock` another, because the code lets go of `m.mu` in between. An eviction holds `m.mu`
for its whole loop, so lookups wait (`MapFree`), but removes one directory per step,
so everything else interleaves. `todo` holds the sessions idle at the loop's fixed
`now`; `Release` during a loop takes its session out, since its LastActivity is later.

**`ConversationStore`** is the abstract specification of what all that is for: claude's
conversations as a client may rely on them. A run begins a conversation, or resumes one
that is its client's, whose id has been announced, and that no live run appends to; there
are no sessions, mutexes or evictors in it. `StoreSpec` is `ConversationStore` under a
mapping in which a request appears when it has a subprocess (`RunOwner`,
`RunConversation`, `Running`) and its conversation when its id is announced (`Resumable`).

**`ProcHandle`** is the abstract specification of a subprocess as `Session` uses it:
the stream ends, and Close returns, only after the exit.

**`Subprocess`** is the detailed one. Lines are counted: written to the pipe, fetched
into the bufio.Reader, sent on the channel, received. `Reap` is `cmd.Wait` in whichever
goroutine called Wait first: it closes the read end of the pipe, read to its end or
not. `once` is closeOnce, held by `supervise` for the whole grace period. `HandleSpec`
is `ProcHandle` under the mapping `proc <- child, at <- HandlerAt`.

**`AuthStore`** models the database, the server's cache and concurrent calls of
Authenticate, split where an argon2 hash separates reading from acting. A row is named
after the bearer whose prefix and hash it holds; `Rotate` puts another bearer into its
place. `Managers` says whether the management calls are made by the CLI's process (as
deployed), on the server's own Store (as in the tests), or by both. `boot` is the start of
the server, which ends with SeedAuth: `CountTokens`, and when there are none
`SeedFromBearer` with CCPROXY_TOKEN, which may hold any bearer, or `AutoMint`. `changed[b]`
is a history variable: the time since b was deleted, or, while it is in the database, since
its debug flag was set.

**`ConnLife`** is the abstract life of one bridge connection: Closed() stays true, Done
comes after it, and the handler leaves only a connection that is closed.

**`BridgeConn`** is the detailed one: the handler with its hello call, the goroutine
that runs the read loop, the pending map, callers with their timeouts, and Close from
any side. The reader takes a call's channel out of the map before it answers on it, and
Close closes the channels it finds in the map; that neither happens to a closed channel
(a panic in Go) is `PendingSound`. A frame is written in one step; watch events, which only clear a
cache, are left out. `LifeSpec` is `ConnLife` under a mapping of the handler's position.

**`BridgeMount`** puts several lives of `ConnLife`, successive or overlapping
connections of one principal, over the registry and the mount host: a request looks
up the connection, mounts on it or finds a mount, and each mount's watcher unmounts when
its connection closes. A mount is followed in two places. `mounts` is the Manager's map,
which `m.mu` guards; `path` is the stack of what is mounted at the principal's mount point,
and `dir` whether that directory exists. `TakeMount` is the critical section of Unmount;
host.Unmount (`Unmount`, `UnmountInVain`) and os.Remove (`RemovePath`) come after it, go by
the path, and may do nothing. One principal is followed; principals share nothing but the
map.

**`Translate`** is the Translator in the loop of streamChat. Text is a sequence of
numbered pieces; of what else a chunk shows its kind is kept, so that `StreamedText`
tells lost, doubled and reordered text. `EventToChunks` and `Translated` are the
translation as a function of Translator and event, `NonStreamingResponse` is a function
of the events received; the actions below "claude and the reader of its output" say
which events may follow each other: deltas before the block they add up to, a block
without deltas, bad lines, a result, failing reads and exits. A bad line (`Malformed`) may have
been anything, a text delta, a whole block or the message of an open one included: what it
said is said, and an error is all that is received of it.

**`BridgeFS`** follows FUSE calls from the kernel to the client's disk. Attributes and
contents of a path are one number, its version; `born[p]` says when each version came,
so that "how old is what I was told" is an expression over the state. `at[o]` is the FUSE
call, `job[o]` the daemon's goroutine for it: a call that times out (`CallFails`) leaves
its job running, and a response that nobody waits for is dropped. A write opens the file
and then fills it, in two steps, and a truncation creates it first; a handler may fail
at any point (`HandlerFails`: parameters, AllowWrite, resolve, ignore list, the operating
system). `Prompt`, `Approved` and `Denied` are TTYConfirm. `Edit` is the user, who
changes the same tree. `Watched` puts any changed path into the bounded channel, and need
not: events are late, doubled or missing. `made`, `acked` and `crossed` are history:
which versions a call made, which of them were acknowledged, and whether a Getattr was
under way when that happened.

**`RateLimit`** is one token's bucket and daily rows with the requests that are admitted
under them. A request goes from AllowRequest to CheckDailyTokens to the result that
RecordUsage charges; a failing query lets it in, a client that leaves before the result
is not charged. `opened` and `escaped` count those, `mark` remembers how many requests had
been let in when each tick began.

**`RingBuffer`** is an algorithm and no state machine: Write and String as functions.
`MCSubprocess` assumes `KeepsLatest`, which TLC evaluates for capacities 1 to 3 and every
input up to its bound in two writes: String is the last bytes written.

**`MCSession`**, **`MCSubprocess`**, **`MCAuthStore`**, **`MCBridgeConn`**,
**`MCBridgeMount`**, **`MCBridgeFS`**, **`MCRateLimit`** and **`MCTranslate`** give TLC its
sets and symmetries. **`SessionProofs`**, **`SubprocessProofs`**, **`AuthStoreProofs`**,
**`BridgeConnProofs`**, **`BridgeMountProofs`**, **`BridgeFSProofs`**, **`RateLimitProofs`** and
**`TranslateProofs`** hold the proofs; those about `RingBuffer` are in `SubprocessProofs`.

Operators whose comment begins with "Mutant" are not part of the models: each is a
plausible bug in place of one operator, and makes one property fail.

## 3. Runs

| Run | Bounds | Shows |
|---|---|---|
| `session` | 2 requests, 2 clients, 1 workspace, TTL 1, all shutdowns | conversations are exclusive, isolated and one per session; directories are owned, present, not removed under a subprocess and gone after evictAll, unless their removal fails; ConversationStore implemented |
| `session_live` | 2 requests, 1 client, all shutdowns | requests finish, the removal of every directory is tried, a server told to stop exits |
| `subprocess` | 7 lines, pipe 2, channel 2, claude may hang | SIGINT once, truncation reported, ProcHandle implemented; a cancelled context kills; the handler returns |
| `auth` | 2 bearers, 1 row, 2 calls, TTL 1, gap 1, CLI and server manage, restarts | staleness bounds of revocations, rotations and settings |
| `bridge_conn` | 2 calls beside the hello | no answer to a closed or foreign channel; ConnLife implemented; calls and the handler end |
| `bridge_mount` | 2 connections, 2 requests | the registry holds the newest registered connection; the mount of a live connection stays in the map, and on disk but for one window; that of a dead one leaves both as far as host.Unmount works |
| `bridge_fs` | 2 calls (stat, write, create, remove, chmod, rename) on a directory, a file in it and a free name; 1 edit, TTL 1, timeout 1, 3 ticks, 1 event | an answer of Getattr was true within the TTL and one call; an acknowledged change is seen; one prompt at a time |
| `ratelimit` | 3 requests at a time, RPM 2, TPD 2, 2 days, 1 fault of each kind, 1 restart | how far a day's quota and a minute's can be exceeded |
| `translate` | streams of up to 5 events, 3 verbosities | text once, in order, and complete or an error told; streaming and buffered answers agree |

Why these bounds suffice to meet the interesting cases. Two requests of one client
compete for a session, or one holds a session that was evicted while the other creates
its successor; two clients show a leak between clients. Three requests (one of them a
waiter that resumes an evicted session's conversation) are explored by
`session_evict_race` up to its violation; the proofs cover any number. TTL 1 lets a
session be fresh, at the limit and idle. Seven lines overfill a pipe of two and a channel
of two; every process blocks on every buffer. Two calls of Authenticate
and two bearers give a late cachePut, a hit on it and a successor bearer; one row is enough
for that, for a revocation and for a restart that finds the table empty. Two calls at once cross answers, timeouts and
Close in every order; two connections are a reconnect that overtakes the old handler's
Unregister, and two requests a mount over another that is on its way out. Five events are two blocks, each with
deltas or without, and an end; or a block, a bad line and two errors. A Getattr and a change at once, with an edit by the user beside them, put
every fill before, between and after a change, its acknowledgement and its invalidation;
three ticks let an entry expire and a call time out before or after. Three requests at a
time exceed a bucket and a day's quota of two, and the second day and the restart come
before, between and after check and charge. Saturating clocks
(`age`, `held`, `changed`) make the state spaces finite without a bound on time;
`Lines`, `Bearers`, `MaxRows`, `MaxLife`, `Gap`, `MaxEvents`, `MaxTime`, `MaxEdits`, `MaxDay`, `MaxUse`,
`MaxFaults` and `MaxRestarts` are the named bounds. The proofs hold for every value of them and
of the other constants, for all the safety properties.

Runs with a violation state what a comment or the README says and the code does not do:

| Run | Claim | What happens |
|---|---|---|
| `session_evict_race` | Mu serialises the requests of a session | an eviction between lookup and lock gives one client id two sessions |
| `session_drain` | in-flight requests get 30 s | evictAll removes their directories at once |
| `subprocess_nokill` | Close sends SIGKILL after the grace | not when Close comes before supervise |

Deadlock is checked in every run but the two in which claude may ignore SIGINT
(`subprocess`, `subprocess_nokill`): there Close really waits for ever.

More consequences of the code are visible in the models without a run of their
own: when the server exits, what stays on disk is the directory of a session created after
`evictAll`, that of a stateless request that the exit cuts off, and any that `os.RemoveAll`
could not remove, which nothing tries again (`StopReclaims` says that evictAll tries it for
every session's); the reader stays blocked on a full channel when the handler has left early; and on one Store
a cachePut under way can undo a cacheClear, for one more TTL (`StalenessBounded`).

Every start of the server seeds an empty token table (`SeedAuth`). CCPROXY_TOKEN is called a
"first-boot bearer seed" (README.md:517), but a restart after the last token was revoked puts
its bearer back, a revoked or rotated one too, and then nothing bounds how long after the
revocation it is accepted: `StalenessBounded` counts only while it is not in the database. And
SeedAuth, which "ensures the token DB has at least one usable bearer on boot" (config.go:59),
counts rows: one expired token is enough for it to do nothing (`CountTokens`).

Unmount lets go of the Manager's mutex before host.Unmount and os.Remove, which go by the
principal's mount point. A request may mount the reconnected daemon at the same point in between;
the old watcher then takes that mount down, while the map keeps it and `Manager.Lookup`, which
"returns the live mount for principal, if any" (mount_fuse.go:124), returns it until its own
connection closes. `LiveMountKept` excepts this window (`Unmounting`). A call of
host.Unmount before the host's Init does nothing, and Unmount does not look at its result: the
mount of a closed connection may stay up outside the map, under whatever is mounted over it
(`DeadMountGoes` says that the call is made). After
a failed host.Mount a connection may have two watchers, the second of which takes the
mount of its live successor; and a request that finds the mount of a connection that has
just died gets it until the watcher fires. `ccproxy token update` clears the cache of its
own process only, so a toggle takes effect in the server after the TTL, and not "on the
next request" as README.md:542 has it (`SettingBounded` is the bound that does hold).
partialTextSeen is never reset, so text of a message without deltas is lost if an earlier
message came with them (`TextComplete` excepts it); and the text of a delta whose line does not
parse is suppressed in its assistant event too, so that it is lost, with an error told to the
client (`EndAgrees`), while the buffered answer has it. "Tool calls and results are flattened into"
the buffered message (response.go:304-306) is not so: NonStreamingResponse collects text only, and
after a run that only thought and called tools its message is empty (`AggregatedText`). A stream_error makes a terminal
chunk too, so one stream can have two (`EndAgrees` says what a client can rely on), and
verbose says "tool_calls" after any tool call, not only a last one. The metrics
goroutine's Wait closes the stdout pipe when claude exits, so that the events channel can
be closed with output unread, although spawn.go:136-137 says "all stdout has been
consumed"; the handler learns of it (`TruncationReported`). `drainStderr` may lose the
end of stderr in the same way.

Conversations are kept apart per client session id, not per token: X-CC-Session and the
other fields it is taken from are the client's choice, and two tokens that choose the same id
share the session (`ConversationIsolated` is about the id).

Of the bridge: InvalidateCache drops a path's directory "for safety" (fs_fuse.go:125-126),
but filepath.Dir of a name at the top is "." while the root's key is "", so the root's
attributes stay for a TTL (`AckedSeen` excepts the root, `Fresh` does not). Confirm "is
called before any write/exec RPC" (fs_handlers.go:28), yet Create, Mkdir, Rename and
Chmod do not call it. Events is never closed, although transport.go:251-252 says so, and
the goroutine that Mount starts for it stays. Run's deferred auditor.Close runs beside
requests that are still being handled: they are not logged, and Log looks at `w` before it
has the mutex (audit.go:39), which may be nil when it has. Nothing is invalidated
after a failed call, so what a write that failed half way, or one that was done after its
call had timed out, has changed is seen only after the TTL, within the bound of
`Fresh`.

Of the quotas: a request that is refused for its tokens per day, its scopes or its
parameters has used a place of its token's minute; a daily check that fails in the
database lets the request in (chat.go:60); and RecordUsage is "called after a request
completes (regardless of success)" (limiter.go:101), but not when its client has left
before the result, and not with a request's context that is done. `DailyBounded` counts
these.

Fairness. Goroutines that can run do: weak fairness of the steps of a handler, the
manager, `Run`, the reader, supervisor and timers. Where a step waits for a mutex it is
strong, because Go's `sync.Mutex` hands itself to a waiter that starves; a `select`
with several ready cases chooses at random, so the manager sees a cancelled context
although ticks keep coming. In `Session` claude is assumed to exit; in `Subprocess` only
a claude that does not hang is assumed to write its lines, finish, and obey SIGINT.
No client is assumed to send, read or leave. In `BridgeConn` neither the daemon nor a
timer is fair: a call may wait for ever unless the connection closes, which is what
`CallsEnd` is about; a read on a closed socket does return. In `BridgeMount` a closed
connection's handler ends, which `HandlerEnds` of `bridge_conn` justifies.

## 4. Proofs

All from the constants' assumptions `SessionAssumption`, `SubprocessAssumption`,
`AuthAssumption`, `BridgeAssumption`, `MountAssumption`, `FSAssumption`, `RateAssumption` and
`TranslateAssumption`, which TLC evaluates in every run.

`SessionProofs` (any number of requests, clients, workspaces). The safety properties are
not inductive: that two subprocesses do not share a conversation follows only if whoever
runs on a session holds its mutex, if a conversation id reaches a session only from a
request of that session, and if a session object belongs to one client id for ever. The
invariant `IInv` adds exactly these (`Handlers`, `MutexHeld`, `SessionOfClient`,
`Conversations`), what the evictor holds (`EvictorInv`), which directories are
ephemeral, and that a stateless request whose directory could not be removed is done
(`EphemeralInv`). From it: `TypeCorrect`, `Exclusive`, `Isolated`, `OneConversation`,
`DirsAccounted` and the action properties `Kept` and `Reclaims`, the last of which
needs that evictAll has every mapped session on its list (`EvictorInv`). `Refinement` proves
`Spec => StoreSpec`. Its core is `HeldConversation`: what a session holds when its mutex is
held is a conversation of the session's client, announced by a run that began it, and who
else appends to it would hold the same mutex. For it `Conversations` also says that the run
whose id a session holds was started without --resume. All other steps are not seen by
`ConversationStore` (`UnseenStep`), but for the exit of a subprocess and the first event
with an id. `StoreSuffices` shows from `ConversationStore` alone that it promises what a client
needs, `Exclusive` and `Private`.

`SubprocessProofs` (any number of lines and capacities). `TypeCorrect` needs that
whoever has used closeOnce has signalled; `TruncationIsReported` that a reader past the
end of the pipe has read all of it or has sent an error; `Refinement` that `done`
implies the exit. `Refinement` proves `Spec => HandleSpec`.

`AuthStoreProofs` (any number of bearers, rows and calls, any TTL and gap). `Fresh(b, f, n)`
says that what is known about a bearer, that it is in the database and has the flag f, was true at
most n ago. The invariant: an entry
that can be hit is fresh up to its age plus `Gap` (`CacheOK`), a call about to put is
fresh up to its waiting time and a call verifying an entry up to `CacheTTL + Gap` plus
its waiting time (`CallOK`). A step of the store keeps that, since what it changes has just
changed (`Keeps`). Hence `Staleness` and `Setting` with the bound `CacheTTL + 2 * Gap`.

`BridgeConnProofs` (any number of calls). `NoPanic` needs that nobody touches a
channel before its call has put it into the map (`ChannelInv`); `Refinement`, which proves
`Spec => LifeSpec`, that the context ends in the function of closeOnce and that the
reader ends after it (`CloseInv`).

`BridgeMountProofs` (any number of connections and requests). That the registry is
current (`Current`) needs that Done comes after Closed (`DoneInv`); that a live mount
stays (`Kept`) needs that, as long as no host.Mount has failed, the only watcher that has
not fired is that of the mount in the map (`WatchInv`), and for it that a request that is
not done has made no mount (`FreshInv`); that it stays up needs that a mount is on the path
once and only while it is up (`PathInv`).

`BridgeFSProofs` (any tree, any number of calls, any TTL, timeout and channel). `Fresh`
speaks of the moment in which an answer is used; the invariant says until when every
version that anybody holds may be used (`Holds`): the cache's until its entry expires,
that of a response or an answer until its call's deadline and a TTL more (`HeldInv`). It
needs that a call is never past its deadline (`InTime`) and that a request whose
call is over changes nothing but the disk (`Known`). A change of the disk makes a held version
old only from now on, which is within the bound (`HeldChange`). `AckedSeen` needs the same of
who is up to date: what a Getattr's daemon has read is no older than what was
acknowledged, unless the acknowledgement has crossed it (`AckedInv`, `UpToDate`).

`RateLimitProofs` (any number of concurrent requests, any limits). A day's row is bounded
by the quota and what the requests that run now, or were let in unchecked, may add
(`TodayInv`, an inductive form in which the running requests have their use reserved;
`RowsInv` for the days that are over), and use exceeds the rows by what was not recorded
(`UsedInv`): `DailyQuota`. What the bucket holds and what it has let in since a tick's
beginning never exceed a full bucket, the ticks and the restarts (`BucketInv`): `RateKept`.

`TranslateProofs` (streams of any length). What a client sees is the text of a flattened
sequence of chunks, so the proofs first need what flattening does with one element more.
`FlattenSeq` is defined by a recursive function; that it is defined at all, and its value
on `Append(s, x)`, follow by induction over the set of the numbers for which they hold,
with `WFMin`, which takes a set and not an operator. From it come the lemmas
about the model's operators: the text of two sequences of items or chunks in a row is the
text of one and then that of the other (`ContentConcat`); the items that verbose and narrated
show have the text that text-only shows (`ItemsKeepText`); the chunks of any event show exactly
the text of its bodies (`ChunksShow`); one more event adds its message to the buffered text
(`AggregatedAppend`). Each of claude's steps is then one of two things: `Quiet`, or an event
is received whose text, and what is left in the open block, follow from what was said before
(`Told`). The invariant `IInv` says, piece by piece: partialTextSeen tells truly
whether text has come in deltas, as that of an open block has unless a line did not parse (`Seen`);
the streamed text is some of the pieces said, in order, and all of them for a client that stayed
if no block came unannounced and there was no error (`Streamed`); a bad line adds to what was said
and nothing to what is shown (`MalformedTold`); the messages and the open block add up to what was said unless there
was an error (`Aggregated`), which is what lets the two answers be compared although one of them is made
of deltas and the other of messages; there is one result at most (`OneResult`); and
the terminal chunks are those of the results and errors received (`Ended`). Hence
`TypeCorrect`, `TextReachesOnce`, `TextIsComplete`, `BothTextsAgree` and `BothEndsAgree`.

`SubprocessProofs` has the ring buffer's results too, for any capacity: `NewIsEmpty`;
`WriteKeepsLatest`, one byte more; `WholeWriteKeepsLatest`, a Write of any length, by induction over
a set of numbers as above; and `AlwaysKeepsLatest`, which is `KeepsLatest` for all values.

Only model-checked: the liveness properties (`RequestsFinish`, `DirsReclaimed`,
`ShutdownCompletes`, `SuperviseKills`, `HandlerReturns`, `CallsEnd`, `HandlerEnds`,
`DeadMountGoes`), since fairness is out of the prover's reach.

## 5. Not modelled, and why

Prompt and event contents, logging, metrics and wire formats are data the properties do
not depend on. `drainStderr` only fills the text of error events. `last_used_at` is
written and only listed. Configuration is read once and becomes the constants. A failed
NewSSEWriter (chat.go:343-347), after which the handler closes a subprocess it has not read from, is
one of `Session`'s `Disconnect`s but not in `Subprocess`: net/http's writer and the wrapper of
`obs` both implement Flusher, which is all it asks for. In
`AuthStore` a database error other than a missing row has the same effect as one.

Of the daemon: Exec, which the server never calls; the audit log, which nothing reads
back; dialling, flags and the ping interval; the patterns of the ignore list and the
resolution of symbolic links, whose refusals are choices of `HandlerFails`. A path that
leads through a symbolic link to another of the tree, so that one file has two names in
the cache, is not in `BridgeFS`. `Open` and `Opendir` only number handles, and data is
read and written without a cache.

Of the limiter: a change of a token's RPM, which rebuilds its bucket as a restart does,
and the float arithmetic of `golang.org/x/time/rate`, whose refill is one request per tick.

Debug capture writes a trace that nothing reads back; scopes, model aliases and effort are
decisions on the values of one request.

## 6. Plan

1. Daemon shutdown: `Client.Run` with the requests that outlive it, the audit log and the
   exit of the process.
2. The composition of `BridgeMount` and `BridgeFS`: two mounts of one connection share its
   channel of events after a failed host.Mount.
3. Scopes, and the workspace a request may name, as operators checked against a reference.
4. Proofs: a refinement of an abstract cache with bounded staleness, which `AuthStore` and
   `BridgeFS` could share; and of `ProcHandle` by each request of `Session`, which would say
   that Session asks no more of a subprocess than ProcHandle promises.
