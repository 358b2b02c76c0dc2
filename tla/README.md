# Konsul in TLA+

A verification project for Konsul, a service-discovery and configuration server
written in Go - a key-value store, a service registry with TTLs, watches, health
checks, rate limiting, access control, an agent, an optional Raft cluster - and
for its admin interface, a React application in TypeScript.
The modules here model the parts whose correctness depends on interleavings,
failures and restarts; TLC checks them on small instances and TLAPS proves
theorems about them for every value of their constants.

`PROJECT.json` maps every definition to the source lines it stands for. Line
numbers below refer to `internal/` of the repository, and for the admin interface
to `web/admin/src/`, unless they say otherwise.

## 1. The system

| Component | State | Operations | What is hard | What makes it correct |
|---|---|---|---|---|
| KV store `store/kv.go` | `Data`, `globalIndex`, engine | Set, SetWithFlags, Delete, batch and CAS forms, reads | plain writes release the mutex before the engine write and the notification; CAS holds it throughout; engine errors; crash at any point; loads that fail or skip keys | an index names one version; CAS loses no update; disk, memory and watchers agree once writes have settled |
| Service registry `store/service*.go` | `Data`, `TagIndex`, `MetaIndex`, `globalIndex`, engine with TTL | Register, Deregister, CAS forms, Heartbeat, CleanupExpired, queries | three notions of "expired"; indexes maintained by hand; combined query in two critical sections; restart with expiry, at two resolutions of time | indexes mirror the entries; queries exact; restart keeps what was live; expired services go |
| Raft FSM `raft/fsm.go`, `raft/node.go` | the stores of every node, log, snapshots | Apply of each command, Snapshot, Restore | the index counter is not replicated; map order; local clocks; snapshots without the counter | nodes agree on contents and on the outcome of every command |
| Handlers `handlers/*.go` | none | REST requests, leader check, responses | re-reads after the write; answers of the FSM ignored or asserted to the wrong type | the response describes the request's own effect (of Set it does not: `KVStoreReply`) |
| Persistence `persistence/*.go` | BadgerDB or a map | Set, Delete, batches, services with TTL, backup | failing calls; time resolution of the TTL | atomic per call |
| Watch manager `watch/manager.go`, `handlers/kv_watch.go` | watchers, patterns, per-client counts, channels | AddWatcher, RemoveWatcher, Notify, Close | dropped events, closing a channel that is still used, initial value against first event | counts match watchers; no send on a closed channel |
| Health checks `healthcheck/` | checks, one goroutine each | AddCheck, UpdateTTLCheck, RemoveCheck, Stop | mutex held during network calls; goroutines outlive their check | one goroutine per check; status of the current definition |
| Rate limiting `ratelimit/` | token buckets, access lists | Allow, Reset, cleanup, UpdateConfig | a limiter deleted while in use; configuration copies | never more than burst + rate x time |
| Load balancer `loadbalancer/` | counters, weights, rings | Select, connection counts | state kept by position while instances change | fairness of round robin |
| Agent `agent/` | cache, pending queue, batch buffer | sync, batch with retries, write-through KV | lost and duplicated batches, late fetches | the cache catches up with the server |
| Audit `audit/` | buffered channel | Record, Shutdown | shutdown against record | nothing accepted is lost, no send on a closed channel |
| Session of the admin interface `AuthContext.tsx`, `api.ts`, `Login.tsx` | three items of localStorage shared by all tabs; token and user in each tab; calls under way | page load, sign-in, sign-out, call, renewal after a 401, retry, forced sign-out | renewals of several calls and tabs at once; answers after a sign-out; tokens that expire meanwhile; items stored one by one without a lock | sign-ins and renewals leave no half session; a sign-out is final; renewals do not throw anybody out; every call ends |
| Connection for updates `WebSocketContext.tsx` | one `ws`, sets of subscribers, an indicator; sockets with their handlers and timers | render and effect, clean-up, open, message, close, reconnect | handlers see the values of the render that made them; effect and timer both connect; a timer outlives the provider | one connection, replaced while somebody is signed in; a truthful indicator; events reach the page |
| Pages `pages/*.tsx`, `components/*.tsx` | query cache, editor, forms, secret of a new key | load, poll, refresh, save, delete, register, create a key, navigate | loads and mutations in every order; pages that are left while an answer is due | changes made on a page are shown there; a secret is not replaced; loading ends |
| ACL, DNS, templates, GraphQL, CLI | mostly stateless | | | |

The handlers call the stores directly in standalone mode and `raft.Node` in
cluster mode; the node commits a command, and the FSM of every node applies it
through the `*Local` twins of the store operations. The stores call the engine
and the watch manager. A goroutine of `cmd/konsul/main.go` calls
`CleanupExpired`; each health check has a goroutine of its own. The admin
interface is a client of the REST handlers: every page calls the server through
the interceptors of `lib/api.ts` (the API keys page through `fetch`), which read
and write the same localStorage as `AuthContext`; `WebSocketProvider` depends on
the session and passes events on to the pages, which invalidate their queries.

Components that are not modelled, with the reason, are listed in
`PROJECT.json`, as are the hazards each property is aimed at.

## 2. Modules

| Module | Models | Uses |
|---|---|---|
| `KVEntries` | entries, index and CAS logic that `kv.go` contains twice (standalone and `*Local`) | |
| `KVStore` | the standalone store under concurrent requests | `KVEntries` |
| `KVReplicas` | the KV part of the Raft FSM on several nodes | `KVEntries` |
| `ServiceEntries` | service entries, tag and metadata indexes, queries | |
| `ServiceStore` | the standalone registry with expiry, cleanup and restart | `ServiceEntries` |
| `AdminSession` | sign-in, tokens and calls of the admin interface, in several tabs | |
| `ReconnectingLink` | abstract: one connection that is replaced as long as it is wanted | |
| `AdminSocket` | the WebSocket provider, its sockets, timers and subscribers | implements `ReconnectingLink` |
| `AdminPages` | the pages over the query cache they share | |
| `MCKVStore`, `MCKVReplicas`, `MCServiceStore`, `MCAdminSession`, `MCAdminSocket`, `MCAdminPages` | instances for TLC: symmetry, query sets, the channels of the pages | |
| `KVEntriesProofs` | lemmas about the operators of `KVEntries`, which both KV proofs use | `KVEntries` |
| `KVStoreProofs`, `KVReplicasProofs`, `ServiceStoreProofs`, `AdminSessionProofs`, `AdminSocketProofs`, `AdminPagesProofs` | theorems | the module each is named after |

### KVStore

`data`, `globalIndex` and `disk` are `kv.Data`, `kv.globalIndex` and the content
of the engine. `job[p]` is the operation goroutine `p` is in the middle of: what
its critical section wrote, and what it still has to persist and announce.
Each operation is an action for its critical section (`Set`, `SetWithFlags`,
`Delete`, `BatchSet`, `BatchDelete`, `SetCAS`, `DeleteCAS`, `BatchSetCAS`,
`BatchDeleteCAS`), followed by `Persist` or `PersistFails`, by one `Notify` per
announced key, and for the handler of `Set` by `Reply`, which reads the key
again (`handlers/kv.go:221`) and reports the index it finds, `Reported`. Of the
responses nothing else is modelled. `HoldsMutex` is true of a CAS operation until it
returns; plain operations have left the mutex after their first step
(`kv.go:152`). `CrashRestart` forgets memory and requests and loads the engine;
`Loaded(U)` is what it finds when it does not read the keys `U`: all of them when
`List` fails, else those whose `Get` fails (`kv.go:72`, `:79`), which the code only
logs. `unread` remembers the entries such a load left on disk, until they are
written again.
A client states as expected index the one it last read (`view`); `fresh` says
which reads come from the running process. `mirror` is what a watcher of all
keys heard last; `Notify` may find its channel full and drop the event
(`watch/manager.go:163`), which `missed` remembers. `tainted` is history: the last
write of the key overlapped another, an engine call for it failed, or the last
load skipped it.

### ServiceStore

Every operation holds the mutex from its first read to its engine call
(`service.go:168`), so each is one action. `now` is the clock, `Second` ticks of
it are a second: `ExpiresAt` is kept at the clock's resolution, while the engine's
TTL ends with a whole second (`Kept`; `persistence/badger.go:163`,
`service.go:181`). `Loaded(U)` is what `loadFromPersistence` makes of the engine
when it does not read the services `U` (`service.go:106`, `:114`, `:123`); the
code logs such errors and goes on. A list in `MetaIndex` is modelled by how often
it contains each name: `removeFromMetaIndex` takes out the first occurrence, and a
name listed twice would survive it, which `MetaIndexMirrors` excludes.
`QueryByTagsAndMetadata` is two actions, `QueryTags` and `QueryMetadata`, because
the code takes the read lock twice. `EngineWrites` lets any of the engine calls of
an operation fail; the code logs or returns the error and keeps the entry in
memory.

### KVReplicas

hashicorp/raft is external: there is one committed log, each node applies it in
order, a node can restart from its last snapshot and replay, and can receive the
snapshot of another. The state of each node is that of the `*Local` operations,
which touch no engine: data and counter. The nodes start with an empty engine; the
entries `cmd/konsul/main.go:214` would load on a node that used to run standalone
are left out. `rank` in `Execute` is the order in which that node iterates over
the map of a batch. A snapshot holds entries, no counter (`kv.go:1137`,
`fsm.go:312`). `written` and `verdicts` are history: which log position wrote an
entry, and whether a node accepted a command.

### AdminSession

`store` is localStorage, `ctx[t]` the token and the user `AuthContext` holds in
tab `t`. The code of a tab runs to its end before the tab does anything else
(`Free`), but nothing locks localStorage against other tabs: every `setItem`,
`removeItem` and `getItem` is a step of its own. `job[t]` is what tab `t` has still
to store or remove, one item per `Write`, in the order the code has everywhere:
token, refresh token, user (`First`). `Mount` and `MountUser` are the effect that
reads the session (`AuthContext.tsx:33`, `:35`); `handleSubmit`, `login`,
`loginFails` and `logout` are the form and the buttons.
A call takes its token from the store (`SendApi`) or, on the API keys page, from
the context (`SendFetch`), and is then `Served`, `Lost` or `Unauthorized`. The
first 401 reads the refresh token, then the user (`RefreshUser`), and asks for new
tokens; `RefreshOK` has them stored, whatever the store holds by then, and
`Resend` sends the call again; `RefreshFails` removes the session and sends the
browser to the login page, which takes a moment (`phase` "leaving") in which the
page runs on.
The server's side is what `auth/jwt.go` does: a token is good until it expires,
and a refresh token can be used any number of times. Tokens carry their user and
the order they were issued in (`gen`); an age has expired or not (`accessHorizon`,
`refreshHorizon`). `out` and `excused` are history. `refreshAccessToken` of the
context has no caller and is left out.

### AdminSocket and ReconnectingLink

React is modelled by the four rules the provider depends on: a setter takes effect
at the next `Render`; an effect runs after a render in which one of its
dependencies changed, after the clean-up of its previous run with the values that
run saw (`seen`); a function keeps the values of the render that made it
(`sock[s].saw`); a render that throws unmounts everything, as there is no error
boundary (`RenderError`, on the pages in `Fragile`: `KVStore.tsx:186`,
`Health.tsx:180`), after which clean-ups have run, setters are without effect
(`up` is false), and sockets and timers go on. `ws` is never reset, so the effect
connects once per page load and every later connection is made by the timer of its
predecessor. `Render` includes the pages that come and go, their subscriptions,
which are visible to the provider one render later, and the redirects of `App`
(`Redirected`).

`ReconnectingLink` is the abstract specification: one connection with five
phases, which under fairness is made and replaced as long as it is `wanted`. It is
wanted while the provider is mounted and somebody is signed in; afterwards the
connection may end or go on, since the documentation says that it ends and the
code keeps it (see the disagreements below). `ImplementsLink` is the refinement,
with `phase` mapped to the state of the socket that is alive; it fails as soon as
a second connection lives beside it, a timer is forgotten, or a socket is opened
out of turn.

The server of this repository has no `/ws/updates` endpoint; a connection that
never opens is one of the behaviours.

### AdminPages

The query cache (@tanstack/react-query) is external and modelled by what the pages
use of it: one load per query, mounting joins a load under way,
`invalidateQueries` and `refetch` start afresh unless the query has no data yet,
one retry after an error (`main.tsx:12`), `onSuccess` of a mutation runs also
after its page is gone. Queries do not influence each other, and a mutation
invalidates exactly one, so each behaviour follows one query, `topic`, chosen in
`Init`; the pages of the other queries are still visited. The keys page is active
under both queries its mutations touch the server for: its own list `kv-all`,
which they invalidate, and the list `kv-list` of the dashboard, which they do not.
`must` is history: the newest acknowledged change the followed list has to show,
raised by the mutations of the page it belongs to (`PageOf`, `Shows`). What a
query holds is abstracted to the version of the server it was read at, its rows,
and which values have arrived. Answers are modelled as this server gives them: the
value of a key is an object, which the page cannot render (`blank`); services have
no `id`, so that the buttons of a card name a service "undefined"; the list of API
keys is wrapped in an object and shows no row.

## 3. Runs

All bounds are constants of the modules: `MaxIndex` (indices drawn), `MaxFaults`,
`MaxCrashes`, `MaxNow`, `MaxLog`, `MaxBatch`, `MaxSnapshots`, `MaxRestarts`,
`MaxTokens` (pairs of tokens issued), `MaxChanges` (changes of the server), and
the sets `Sockets`, `Calls` and `Jobs`.

| Run | Instance | Shows |
|---|---|---|
| `KVStore` | 2 requests, 1 key, 1 value with 2 flag words, 2 indices, 2 failures (engine calls, events, loads), 2 crashes | `TypeOK`, `IndexBounded`, `VersionUnique`, `CASExclusive`, `SettledAgree`, `VersionsAdvance`, `CASNoLostUpdate` |
| `ServiceStoreQueries` | 2 services, 1 tag, 2 metadata values, all combined filters, TTL 1, clock to 3 | `TypeOK`, `IndexesMirror`, `QueriesExact`, `QueryMissesNothing` |
| `ServiceStoreLife` | 1 service, seconds of 2 ticks, TTL 2 ticks, clock to 6, 3 indices, fairness, 2 failures (engine calls, loads), 2 crashes | `RestartKeepsLive`, `CASNoLostUpdate`, `EntriesAdvance`, `ExpiryIsFinal` |
| `RaftPlain` | 2 nodes, 2 keys, batches, 1 snapshot, 1 restart | `ContentsAgree`, `ReplicaSound` |
| `RaftCAS` | 2 nodes, 1 client, 4 commands, 1 restart | `TypeOK`, `ReplicasAgree`, `OutcomesAgree`, `CASNoLostUpdate` |
| `AdminSession` | 2 tabs with a call each, 1 user, 2 pairs of tokens, fairness | `TypeOK`, `SessionWhole`, `ForcedOutExcused`, `SignedOutStays`, `SentAtMostTwice`, `CallsSettle` |
| `AdminSocket` | 5 pages (2 that may throw), 3 channels, 2 users, 3 sockets, fairness | `TypeOK`, `OneConnection`, `IndicatorTrue`, `ImplementsLink` |
| `AdminPages` | 5 queries, 1 item, 2 mutations at once, 2 changes, fairness | `TypeOK`, `OwnWritesShown`, `SecretKept`, `SkeletonEnds` |

Why the bounds are enough for the cases that matter: two requests and two
indices give every overlap of two writers with a reader that holds an old
index; two failures and two crashes let a load skip a key, the process go on with
the smaller counter, and start again from what is then on disk. One key is enough
for the questions of `KVStore`; batches of two keys run in `RaftPlain` and
`KVStoreReply`, and the theorems about `KVStore` hold for any number of keys. In
`ServiceStoreLife` a second of two ticks makes the engine's TTL end before, and at,
the expiry of an entry, and the clock runs through three seconds; with TTL 1 and a
clock up to 3, in `ServiceStoreQueries`, a service expires, is found expired at its
very instant and is cleaned up. Registrations and heartbeats stop while the clock
can still pass their expiry (`now + TTL < MaxNow`). For the replicas, two nodes with
different snapshots and positions are the smallest disagreement; the log of four
commands allows write, delete, write and CAS.
`RaftPlain` does not check for deadlock: with no clients to read, everything
stops when the bounded log is full and applied.

For the session, two tabs with one call each are the smallest case of a renewal
racing a sign-in, a sign-out or another renewal; a second call of one tab would
differ only by sharing its page load. Two pairs of tokens allow a sign-in and its
renewal, two sign-ins at once, or a session found at the start that both tabs ask
to renew, where the second request is left to fail; the theorems have no such
bound. No property tells users apart: they speak of who may go on, not of whose
tokens are stored, so one user is enough. When the tokens are used up a renewal
can only fail, which is one of its outcomes anyway. In `AdminSocket` nothing is
bounded but the number of socket objects: at most two are referred to at a time
(the current one and the one the last effect saw), the third is the new one. In
`AdminPages` visits, loads and mutations are unbounded; a mutation that is on its
way when the server's changes are used up can only be refused. One item is enough
to be there, be missing, and be found or not by a search; two mutations overlap in
every order.

Symmetry sets contain keys, values, goroutines, nodes, services, clients and
metadata values, none of which any definition distinguishes; runs with a liveness
property use none.

Fairness (`ServiceStore!Fairness`): the clock goes on, and the cleanup goroutine
of `cmd/konsul/main.go:679` runs again and again; its ticker never stops and Go's
`RWMutex` lets a waiting writer go before later readers. Nothing is assumed
about clients. `AdminSession!Fairness`: a request is answered, or fails, in the
end (the browser reports a request it gives up on as failed, which the
interceptor treats as an end), React runs the effect of a mounted component, and
code that has begun runs to its end.
`AdminSocket!Fairness`: React renders what is queued, the browser finishes
closing a socket, timers fire; the network may refuse every connection.
`AdminPages`: a load is answered or fails and its pauses end; users, servers'
changes and mutations are free. `SkeletonEnds` excludes users who reload the
page for ever.

### Where the code and its documentation disagree

Four runs check a statement of the documentation or of a comment and find it
violated; `PROJECT.json` quotes the lines.

| Run | Statement | What the code does |
|---|---|---|
| `KVStoreReply` | the response to Set returns the new index | it returns the index of whatever the key holds by then, or 0 |
| `RaftRestore` | check-and-set in the FSM prevents races | a restored counter makes nodes decide differently |
| `AdminLogout` | signing out clears all tokens from localStorage | a renewal under way stores its tokens afterwards |
| `AdminLive` | a green indicator means updates are received | an open socket never sees the subscriptions made after it |

Other disagreements met while modelling. The models contain these behaviours;
the properties above are stated so as to allow them.

- `docs/CAS.md:332` says indices are never reused; a restart continues from the
  largest index still stored (`store/kv.go:103`). Hence `VersionUnique` speaks of
  one run of the process and of what is on disk.
- `docs/persistence-badger.md:8` says KV data persists across restarts; two
  overlapping plain writes of a key may reach the engine in the opposite order
  (`store/kv.go:152`). `SettledAgree` excludes exactly such keys.
- `docs/CAS.md:338` says a CAS operation fails atomically; an engine error leaves
  its change in memory (`store/kv.go:245`). Also excluded by `SettledAgree`.
- The same line of `docs/persistence-badger.md` does not hold of entries a load
  cannot read: the error is logged (`store/kv.go:53`, `:79`), the key is missing
  from memory and the counter may restart below its index, so that new versions
  take indices which an entry on disk still has. `IndexBounded`, `VersionUnique` and
  `SettledAgree` except such entries until they are written again. Services that a
  load skips (`store/service.go:87`, `:115`, `:124`) are gone until they register
  again; `RestartKeepsLive` excepts them.
- A service in the last second before its `ExpiresAt` is listed but lost by a
  restart: the engine keeps the expiry in whole seconds (`persistence/badger.go:163`
  against `store/service.go:181`). `RestartKeepsLive` asks for a second to live.
- A watcher whose channel is full loses the event without being told
  (`watch/manager.go:163`). `SettledAgree` excuses it until the next event.
- The comment at `store/service_query.go:137` promises that results match tags and
  metadata; a registration between the two critical sections breaks it.
  `QueryMissesNothing` is the half that holds.
- `docs/RAFT_CLUSTERING.md:12` says all data is replicated; the indices of a
  batch follow each node's map order (`store/kv.go:1034`). `ContentsAgree`
  compares values and flags, `ReplicasAgree` is checked without batches.
- A cluster node with persistence loads what its engine still holds from
  standalone use before it applies the log (`cmd/konsul/main.go:214`), which the
  other nodes do not have. This is the one behaviour of the list that is not in a
  model.
- `docs/WEBSOCKET_REALTIME_COMPLETE.md:185` says "Graceful cleanup on logout" and
  `:242` "Logout -> WebSocket closes". The clean-up does close the socket, but its
  timer looks at the `isAuthenticated` of the render that made it
  (`contexts/WebSocketContext.tsx:118`) and connects again, with the old token.
  `ReconnectingLink` therefore asks for a connection only while somebody is
  signed in, and allows it afterwards.
- After a render that throws, the timer connects once more to a socket that no
  clean-up will close (`contexts/WebSocketContext.tsx:117`, `:132`); it lasts until
  the page is left. `OneConnection` says who closes it only while the provider is
  mounted.
- The three items of a session are stored and removed one by one
  (`contexts/AuthContext.tsx:61`, `:74`, `lib/api.ts:70`). A tab that is forced out
  while another signs in can leave a user without a token, or tokens without a
  user; the next page load then shows the login form. `SessionWhole` speaks of
  sign-ins and renewals alone.
- A save or a deletion on the keys page does not invalidate the list of keys the
  dashboard shows (`pages/KVStore.tsx:38`, `:47`, `pages/Dashboard.tsx:18`): opened
  before the acknowledgement, it rests on the older list.
- A change acknowledged while the first load of its list is under way, or while a
  load runs whose page is gone, joins that load, which may have been answered
  before. `OwnWritesShown` excepts both.
- `web/admin/AUTH_IMPLEMENTATION.md:24` says API keys are listed; the list the server sends is
  an object with the list inside, and the page shows "No API keys created yet".
- The keys page and the health page do not survive the answers of this server
  (`pages/KVStore.tsx:186`, `pages/Health.tsx:180`).
- The buttons Heartbeat and Remove of a service send the name "undefined"
  (`components/ServiceCard.tsx:66`, `:73`).

## 4. Proofs

Each safety property the passing runs check is also a theorem, for every value of
the constants. Assumptions on the constants are weak and named in the modules:
keys and services are finite sets, 0 is a flag, `Absent` (`NoUser`, `NoSocket`,
`NoData` and the like) is no entry (user, socket, answer), bounds are naturals.
TLC evaluated the invariants below on the instances of the runs before they were
proved, except the histories of `KVReplicasProofs`, which are quantified over
functions without bound; what follows from those is what the runs check.

### KVStoreProofs

| Theorem | States | Argument |
|---|---|---|
| `TypeCorrect` | `[]TypeOK` | by action |
| `VersionsAreUnique`, `IndicesAreBounded` | `[](IndexBounded /\ VersionUnique)` | see below |
| `CASIsSafe` | `CASNoLostUpdate` | an equal index means an equal entry, so a CAS that passes its check replaces the version read |
| `CASIsExclusive` | `[]CASExclusive` | inductive with `TypeOK`: every critical section starts when nobody holds the mutex |
| `VersionsDoAdvance` | `VersionsAdvance` | from `TypeOK`, one step at a time |
| `SettledKeysAgree` | `[]SettledAgree` | `SettledInv`: see below |

Uniqueness alone is not inductive: a write is safe only because its index is
above that of every copy that still matters, which is `IndexBounded`. The set
`Copies(k)` names them: memory, disk, the entries on their way to the engine, and
what clients have read since the process started. The argument classifies the
steps (`StepKinds`): those that draw indices, those that move copies, and the
restart, after which what was loaded from disk remains and the counter is its
maximum. An entry on disk that a load skipped is no copy: the counter may be behind
it, and it counts again once its key is persisted.

`SettledAgree` speaks of keys nobody is working on; `SettledInv` says what leads
there. As long as a key is not tainted, one request at most works on it, that
request carries the entry the key has now, and what it has done so far - the
engine call, the announcement - agrees with that entry. A key that is written and
not announced, the deletion of what is not there, has been announced before.
A restart establishes the agreement anew for the keys it loads and taints the
others.

### KVReplicasProofs

| Theorem | States | Hypothesis |
|---|---|---|
| `TypeCorrect` | `[]TypeOK` | |
| `ReplicasAreSound` | `[]ReplicaSound` | |
| `ContentsDoAgree` | `[]ContentsAgree` | |
| `ReplicasDoAgree` | `[]ReplicasAgree` | `OneAtATime` |
| `OutcomesDoAgree` | `[]OutcomesAgree` | `OneAtATime` |
| `NoUpdateIsLost` | `CASNoLostUpdate` | `OneAtATime` |

Soundness rests on `ReplicasInv`: what a node holds is sound below its counter
and what a snapshot holds is sound below some counter, so that the counter
computed when it is restored is again enough.

Agreement of nodes is not inductive: a node may be anywhere in the log. The
invariant says instead that there is one history. For contents,
`ContentHistory(H)`: `H[i]` is what the first `i` commands make of an empty store,
indices left out, and every node and every snapshot holds `H` at its own position.
This is independent of the order in which a node runs through a batch.

`OneAtATime` is `MaxBatch <= 1 /\ MaxSnapshots = 0`: commands of one key, and
restarts that replay the whole log. It is needed: a batch draws its indices in
each node's own map order (`store/kv.go:1034`), and a counter restored from a
snapshot may restart lower than it was (`store/kv.go:1167`, the `RaftRestore`
run). Under it there is one history of whole states, `StateHistory(H)`, along which
the counter never goes back and every entry carries the counter as the command
that wrote it left it - so an index names one version of a key -, every node has
judged each command as the history does, and every index a client has read or
sent stood beside that version at some point of the history.

### ServiceStoreProofs

| Theorem | States | Argument |
|---|---|---|
| `TypeCorrect` | `[]TypeOK` | by action |
| `IndexesAreMirrors` | `[]IndexesMirror` | inductive with `TypeOK`; that the counts of `MetaIndex` are exactly 0 or 1 makes removing one occurrence enough |
| `QueriesAreExact` | `[]QueriesExact` | from the mirrors |
| `RestartDoesKeepLive` | `[]RestartKeepsLive` | inductive with `TypeOK`: an engine call leaves in the engine what the store has or marks the service; what the engine shows has not expired, and it shows whatever has a second to live |
| `EntriesDoAdvance` | `EntriesAdvance` | `ExpiryInv`: no expiry is further away than `now + TTL`, so that none is ever brought forward |
| `CASIsSafe` | `CASNoLostUpdate` | `VersionInv`: below |
| `QueriesMissNothing` | `QueryMissesNothing` | `PendingInv`: a query under way has found every service it saw with its tags; with the mirrors of both critical sections |

`VersionInv` is the registry's form of uniqueness: an index names one version of a
service, but for its expiry, among the copies in memory, in the engine and with
clients that read from the running process, and the counter is not behind them.
The copy in the engine counts only while it has not expired: an entry whose
removal failed may keep an index above the one a restart continues from, and it
is never loaded again. After a step each copy is gone, an old one but for its
expiry, or the entry that took the index drawn in the step (`Inherits`).

### AdminSessionProofs

`SessionInv` proves `TypeCorrect`, `CallsAreSentTwice` (`SentAtMostTwice`),
`SessionIsWhole` (`SessionWhole`), `NobodyIsForcedOut` (`ForcedOutExcused`) and
`SignedOutIsFinal` (`SignedOutStays`). Its parts: `CallShape`, how often a call
was sent from where it is (`_retry` is set before the renewal); `BootInv`, that a
page that is loading has nobody signed in yet; `OutInv`, that a session that was
ended has no user in the store whatever tokens come back; and `InnocentInv`, that
as long as nothing has failed, expired or been signed out, items are only added,
the user after the tokens (`JobSound`), so that whoever shows the pages, waits for
an answer or finds the user finds the tokens.

### AdminSocketProofs

`SocketInv` proves `TypeCorrect`, `ConnectionIsUnique` (`OneConnection`) and
`IndicatorIsTrue` (`IndicatorTrue`). `OneConnection` becomes inductive as an
equivalence while the provider is mounted: a socket is alive, or its timer runs,
exactly when it is the one in `ws`. A render that throws leaves one socket at most,
and from then on only its own timer replaces it. From it,
`ImplementsLinkSafety`: `Spec => Link!Safety`. Every step of the provider is a step
of `ReconnectingLink`, or leaves its phase alone. This is the safety part of
`ImplementsLink`; the fairness part is checked by TLC.

### AdminPagesProofs

`PagesInv` proves `TypeCorrect`, `OwnWritesAreShown` (`OwnWritesShown`) and
`SecretIsKept` (`SecretKept`). An answer under way is as new as the acknowledged
changes of its page ask for (such a change restarts a load on display that has
data), and so are the data once nothing is under way and the list is on display;
at most one creation of a key has a page that waits for it, and none while a
secret is on display.

### Only model-checked

Liveness under fairness is outside the prover's reach: `ExpiryIsFinal`,
`CallsSettle`, `SkeletonEnds` and the fairness part of `ImplementsLink` are checked
by TLC alone. `ReplyOwnIndex`, `SignedOutHasNoTokens` and `LiveReceives` are
statements of comments and documentation that the runs refute, and so is
`OutcomesAgree` where snapshots are taken.

## 5. Plan

1. (done) `KVStore`, `ServiceStore`, `KVReplicas` with their runs; the first
   theorems about the two stores.
2. (done) The admin interface: `AdminSession`, `AdminSocket` with the abstract
   `ReconnectingLink` it implements, `AdminPages`.
3. (done) Theorems for every safety property of the runs, and for the safety part
   of the refinement.
4. Further theorems. Agreement with snapshots as far as it goes: with snapshots of
   states in which the counter is the largest index, nothing restored is behind,
   and `ReplicasAgree` should follow from the same history. Agreement of contents
   after compare-and-swap, when expected indices are those of single-key
   commands. An abstract specification of the KV store (a map with versions) that
   `KVStore` implements up to the engine.
5. Further modules, in this order: `WatchManager` (channels, limits, streaming
   handlers); `ServiceReplicas` (the registry under Raft, local clocks and
   cleanup, agent updates outside the log, the handlers' reading of FSM answers);
   leader redirects and retries of uncertain commands; `HealthChecks`;
   `AgentSync`; `RateLimit`; `AuditManager`; `LoadBalancer`; the read lock taken
   twice in `QueryByTags`; ACL evaluation against a reference definition.

## 6. Not modelled

Cryptography (JWT signatures, TLS), template rendering, generated GraphQL code,
configuration parsing, metrics and logging, the command line client, the minified
bundles under `cmd/konsul/ui/`, and the consensus protocol of hashicorp/raft. Of
the admin interface: layout, formatting (`formatBytes`, `formatUptime`,
`formatValue`), the fields of the forms, revoking and deleting API keys (their
buttons stand in rows that are never shown), functions without a caller (`getKV`,
`getService`, `refreshAccessToken`), and the double effects of React's StrictMode,
which exist in development builds only. The components of the server named under 5
are not modelled yet; `PROJECT.json` lists the foremost of their hazards.
