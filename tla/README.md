# TLA+ models of sesame-kit

This directory holds a formal model of the parts of sesame-kit (`packages/core`, `packages/kit`) in
which the order of events matters: the cloud transport and what is asked over it, the serve daemon from
its start to its end and its client, the files that daemon and command line share, signing in, the
temporary AWS credentials, and the Bluetooth sessions. The modules are checked with TLC on small instances; the
safety properties are proved with TLAPS for every value of the constants. `PROJECT.json` maps each
definition to the lines it translates.

    cd tla
    tlc -workers 2 -config MCHub3Ws_life.cfg MCHub3Ws.tla     # a run (see "Runs")
    tlapm StoresProofs.tla                                    # a module of proofs

## 1. The system

| Part | State it keeps | Operations | Talks to |
|---|---|---|---|
| WebSocket transport `core/transport.js` (`Hub3WsClient`) | socket, status, four timers, `closedByUser`, retry count, FIFO of resolvers per (action, op), queue of frames | `connect`, `close`, `request`, `send`, socket and timer callbacks, token refresh | the API Gateway; its user's `onTokenRefreshNeeded` |
| Cloud façade `core/client.js` (`SesameHub3`) | `_ws`, callbacks, pending cleanups, copies of the config | `connect`, `close`, `onDeviceUpdate`, `onIRLearned`, `listDevices`, some forty operations that are one request each | transport, token store, config |
| Lock commands, infrared learning, paged answers (`lock.js`, `ir.js`, `util.js`) | resolvers that wait for one push among several; the mode of the Hub3 | `dispatchTrigger`, `learnIRKey`, `subscribeChunks` | transport |
| Serve daemon `kit/serve/daemon.js` | connections and their topics, the shared subscription, `authState`, connect loop, chains of calls, shutdown flags | `addConnection`, `subscribe`, `unsubscribe`, `invoke`, `start`, `shutdown` | façade; framings |
| Framings `kit/serve/framing/*`, command `kit/cli/serve.js` | the socket path, listening servers, the queue of lines per client | `cmdServe`, `ensureFreeSocket`, `start*Framing`, `stop`, `makeLineConnection` | daemon; other daemons; the file system |
| Clients `kit/clients/js` | socket, pending requests, `_subscribed`, the check for idleness | `call`, `subscribe`, `close` | framings |
| Lock file `core/secure-fs.js` | the file `<path>.lock`, its inode, its pid | `withFileLock`, `isLockStale` | the file system, other processes |
| Token store and authentication `core/tokens.js`, `core/auth.js` | `tokens.json`, the file of the pending login | `getValidIdToken`, `loginInitiate`, `loginVerify`, `logout`, `save`, `clear`, `mergeStoredTokens` | lock file, Cognito, other processes |
| Local configuration `core/config.js` | `config.json`, a copy per process, the names it knew | `load`, `save`, adding, removing, synchronising | lock file, other processes |
| AWS credentials `core/aws-credentials.js` | cached and persisted credentials, the identity, the refresh in flight | `getCredentials`, `clearCache`, signed requests | Cognito identity pool, API gateway |
| BLE session (OS3) `core/ble/session.js` | token, keys, counters, waiters of the handshake, queues of requests per item | `connect`, `register`, `request`, `disconnect`, receive handlers | BLE transport and protocol, the registration server |
| BLE transport and protocol `core/ble/transport.js`, `protocol.js` | peripheral, chain of writes, receive buffer | `connect`, `write`, `disconnect`; segments and their assembly | noble, the device |
| OS2 session `core/ble/os2/*` | a second handshake and cipher over the same transport | `connect`, `register`, `request` | BLE transport, two servers |
| BLE façades, cloud operations, registry of methods, codecs | (almost) none | requests, tables, formats | sessions, transport |

How they interact. The daemon owns one façade, which owns at most one transport; the transport calls
back on opening, on push frames and when it wants a token. Getting a token goes through the token
store, hence through the lock file, hence meets every other process of the user. A command of a client comes in
over a framing, waits in the chain of its method and ends as requests on the one transport, whose replies carry no id. A BLE session owns a
BLE transport, and each call of the session races the device's answers, the loss of the link and its own timers.

What is hard. JavaScript runs a handler to its next `await`, so that every `await` is a place where
other handlers come in and what was read before may be stale; promises are settled in later turns;
timers race the events they guard; the WebSocket protocol has no correlation ids, so that a reply is
matched by position; several processes share files, and may die between two system calls; a radio link loses and damages
segments. `PROJECT.json` lists each of these hazards at its line, with the property that would catch it.

What makes each part correct:

* transport — it never leaks a socket, never stays disconnected with nothing armed to reconnect, settles
  every request exactly once, and matches a reply wrongly only after something went wrong before;
* what is asked over it — a command is reported done by its own acknowledgement, a list is whole, a Hub3 gets its mode back;
* daemon — every client that has subscribed is served exactly once over any number of reconnections; the calls of a
  method run one at a time; lines reach the reader in order; `shutdown()` ends the loop and the process;
  a running daemon keeps its address;
* client — it gives up a connection only if nobody uses it, and then does give it up;
* lock file — no two processes at work at the same time; a lock left by a crash does not stay;
* token store — a save never replaces tokens by older ones; tokens that were rotated out never come back;
* signing in — comes to an end with tokens, and stores a device only if Cognito has confirmed it;
* configuration — a save removes no name that its process was not asked to remove, and leaves no default without its entry;
* credentials — none is used after it has expired;
* BLE sessions — each call and request ends, with its own answer or an error; commands are enciphered
  with the key of the first connection; registration gives the owner's key; the counters of both ends agree.

## 2. The modules

| Module | Models | One action is |
|---|---|---|
| `Hub3Ws` | `transport.js` | one socket event, one timer, one call, or the code from an `await` to the next |
| `Trigger` | `dispatchTrigger` of `lock.js` | a command sent, an acknowledgement, a push, a time-out |
| `Learn` | `learnIRKey` of `ir.js`, `onIRLearned` and `close` of `client.js` | the code between two awaits, or a request served |
| `ServeDaemon` | the connect loop, subscriptions and shutdown of `daemon.js` with `connect`, `close`, `onReconnect`, `onDeviceUpdate` of `client.js` | the code between two awaits |
| `MethodQueue` | what the daemon promises of calls: one queue for each method | a call, a run, an end |
| `MethodChain` | `invoke` and `_serialize` of `daemon.js`: chains of promises and the map of their ends | one reaction to a promise |
| `ServeLists` | `MethodChain` with calls of `listDevices` and `subscribeChunks` | a page pushed, or a step of `MethodChain` |
| `LineConn` | `makeLineConnection` of `framing/ndjson.js` | a send, a read, a "drain", a close |
| `ServeStart` | `cmdServe` of `cli/serve.js` with `framing/socket.js` and `stdio.js`, in several processes | a system call on the path, or the code between two awaits |
| `SocketClient` | `StreamTransport` of `clients/js/sesame-client.mjs` | one call, answer, timer or socket event |
| `FileLock` | `withFileLock`, `isLockStale` | one system call |
| `TokenStore` | `tokens.js`, the operations of `auth.js` and Cognito; `save` and `clear` are atomic | the code up to the next await, or one answer of Cognito |
| `TokenStoreLocked` | the same with `save` and `clear` as system calls under `FileLock`; composes the two | one system call |
| `LoginDialogue` | `loginInitiate` and `loginVerify` of `auth.js`, with Cognito's challenges and devices | the code between two awaits |
| `ConfigStore` | `config.js` in several processes | an operation with its save |
| `AwsCredentials` | `aws-credentials.js` and its signed requests | an HTTP attempt, a call, a tick |
| `BleSession` | `session.js` (OS3) over `ble/transport.js` | one call, message, timer or loss |
| `BleFrames` | segments, assembly and the counters of the cipher | one segment |
| `Os2Session` | `ble/os2/session.js` | one call, message, timer, loss, or answer of a server |
| `MC*` | model values, symmetry, and the parts that a run checks | |
| `*Proofs` | theorems and proofs | |

Definitions keep the names of the source where they can: `InitWebSocket` is `_initWebSocket`,
`ActiveReconnect` is `_reconnect`, `EnsureStateSub` is `_ensureStateSub`, `Merge` is
`mergeStoredTokens`, `FailAllPending` is `_failAllPending`.

Some MC modules join components that share no state: `MCServe` (`ServeStart`, `ServeDaemon`, `ServeLists` with `MethodChain`,
`LineConn`, `LoginDialogue`, `SocketClient`), `MCStores` (`TokenStore`, `ConfigStore`, `AwsCredentials`), `MCHub3Calls` (`Hub3Ws`, `Learn`,
`Trigger`), `MCBleOnce` (`BleSession`, `BleFrames`) and `MCBleReuse` (`BleSession`, `Os2Session`). The variable `part` is
chosen initially and constant; in a behaviour only that part moves, so that the states add up and do not multiply. The initial state of
a part that does not move leaves the actions of its fairness conditions disabled, so that no behaviour of another part is excluded by them.

**`Hub3Ws`.** `ws` is `this.ws`; `sock` gives the state of each socket object, including the ones the
transport no longer refers to; a connection that died silently is `half`, one that was closed and has
yet to report it `closing`. Timers are booleans, except that a connect timer whose handle was
overwritten stays armed and is counted in `orphanTimers`. `pending` is the FIFO per key, `queue` the queue of frames,
`wire` what the server has yet to answer on each socket. The five calls that close a socket in the code (`_initWebSocket`,
`close`, the two time-outs and `_reconnect`) are told apart by whether they detach the handlers first.
The subscribers' registry is left out.

**`Trigger`.** All commands wait under one key of the transport, in the order they were sent. A push of a state settles the
commands to its lock, or those to any if it does not say which; the acknowledgement of a command settled by a push must still find its own place.
A socket that reports its end fails all that waits; one that the transport replaces itself (`ConnectionReplaced`: idle, pong time-out, wake-up) takes the frames with it and leaves the requests waiting. `adrift` records that
what waits and what is to be acknowledged may differ since.

**`Learn`.** Calls of `learnIRKey` and listeners of `onIRLearned` of one client change the mode of one Hub3; `sent` is what the
cloud has yet to serve, in order; `lapsed` records what went wrong (a request that failed, a `close()`).

**`ServeDaemon`.** A transport is reduced to what its user sees of it. State changes and changes of the device
list are always subscribed to together and are one subscription; a client subscribes to topics or
not. Frames too old are dropped whenever the connection opens; after a first dial that took that long (the host slept, and dialled again when it woke) nothing subscribes again, which `missed` records. Filtering by device is left out.

**`MethodQueue`, `MethodChain`, `ServeLists`.** `MethodChain` has a promise for each call, which call each waits for, and the map
`_locks`; the refinement mapping (`OneAtATime`, `MethodQueue` instantiated with the queue that the links of the promises spell) takes the map's
clearing to a stutter. `ServeLists` adds to each call of a listing method the pages it has collected; each page of an answer goes to every call that is collecting, as a push names no request.

**`LineConn`.** Lines are numbered. `queue` is the connection's, `buffer` the stream's, `read` what the reader took; "drain" comes in a later turn
than the emptying that causes it. Closing from within `send()` at the limit of the queue is part of the action.

**`ServeStart`.** `path` says whose socket lies at `socketPath`; `start` where `cmdServe` is; `handles`, `closing` and `pos` the loop of `shutdown()`,
which also sees framings that are pushed while it runs. One framing, `port`, stands for HTTP, WebSocket and gRPC. Binding a socket whose path exists fails, and closing a listening socket
removes the path by its name, whoever made it.

**`SocketClient`.** `ask` is what became of each request, `written` those that were written on an open connection, `idle` whether the callback of `_scheduleIdleClose` is due,
`ref` whether the socket keeps the process alive. The socket closed by the client itself (`idled`) is told apart from one closed by the user or lost.

**`FileLock`.** `lock` is the inode at `lockPath`, `reap` the inode at each process' own
`lockPath.reap.<pid>`, `holder` the pid written in each inode. What the lock protects is the step `Work`. Constants turn on crashes, holders
slower than `staleMs` and the reuse of inode numbers that are still remembered by a process, and bound the failing writes. Assumed away: the reuse of pids.

**`TokenStore`.** A set of tokens is the login it stems from, the number of rotations of its refresh token, its
freshness (`tokenFreshnessMs`) and the device it carries. Two tokens issued in the same second
are equally fresh, as in the code. Assumed away: clocks that step back, and an idToken that lives shorter than the
margin before its refresh.

**`TokenStoreLocked`.** `TokenSpec`, the specification of `TokenStore`, is checked as a property of this module: with the
lock, `save()` and `clear()` are the atomic steps of `TokenStore`, and anything else is a stutter.

**`LoginDialogue`.** The step `Login` of `TokenStore`, taken apart: the file of the pending login, what each process awaits, the device it answers
with (the stored one, if it is of the same user), and Cognito's view of sessions and devices. Tokens are there or not. Sessions and devices that nothing refers to any more are used again, so
that people may go on signing in for ever. `PASSWORD_VERIFIER` is part of `LoginInitiate`. A pool may keep no account of devices (`NoDeviceMetadata`); tokens without a device are refreshed like others. A logout removes the
file and the pending login at any time. Left out: the nickname, `bootstrap`.

**`ConfigStore`.** Each process has the copy it loaded and the names it knew at its last save (`_baselineKeys`); an operation changes the copy and saves, or fails to save and
keeps the change. Devices and remotes are entries under names; of an entry only what it is for and, for a remote, the name of its Hub3 are kept, so that adding or synchronising may replace what another process has stored under the name.
The file is absent at first, or one of version 1 in which a device may have several names and the default lock may be the one that the migration passes over. `MaxEntries` bounds a copy, `MaxUnsaved` what failed saves may pile up in it. An editor may damage the file.

**`AwsCredentials`.** An identity is known to the pool or not; credentials are their expiry. An attempt takes less than a tick longer than the one it began in.

**`BleSession`.** `pc` says where each call of `connect()` or `register()` is, `waiter` which call each kind of handshake
belongs to, `promise` whether its promise was settled. `device` is the sequence of what the device is about to say. Tokens
and keys are named by the number of the connection they belong to. `stuck` says that the chain of writes of the
transport has been rejected, after which no write goes out. `disconnect()` is one step. Left out: the wm2
profile, the TIME request that follows a login (its response could answer a request of that item), caches of settings, listeners of publishes.

**`BleFrames`.** A frame is a sequence of segments of which any may be lost or damaged. The model records which
frames the session read, and the counters of both ends.

**`Os2Session`.** A key is what it is derived from: the app's key pair, the server's token and the device's. Requests after the login are as in `BleSession` and left out.

## 3. The runs

All runs finish within four minutes with two workers. Bounds are constants of the modules, named and
commented there.

| Run | Bounds | Question |
|---|---|---|
| `hub3ws_life` | 3 sockets, 2 overlapping `connect()` calls, 1 request, 2 lost connect timers, 2 token refreshes in flight | whatever the order of socket events, timers, refreshes, `connect()` and `close()`: is a socket leaked, is the transport stranded, does it dial when closed, does it recover? |
| `hub3ws_requests` | 2 sockets, 3 requests of two keys, one of them the keepalive's; 2 learners and 1 listener; 3 commands to 2 locks | is each request settled once, when can a reply be matched wrongly; does the Hub3 get its mode back; is a command given its own acknowledgement? |
| `hub3ws_replies_match` | 3 sockets, 2 requests | refutes that replies are matched to their requests (section 6) |
| `daemon_life` | 2 transports, 2 clients; 3 calls of 2 methods, lists of 2 pages; a stream that holds 2 lines, a queue of 3, 8 lines; 2 daemons and the socket of a dead one; 2 users, 1 process signing in, 1 refreshing; 3 requests of a client, one of them a subscription | everything about `sesame serve`: subscriptions over reconnections, the end of the loop, the chains of calls, lists, lines, start and end of the process, signing in, the idle client |
| `daemon_gives_up` | 2 transports, 2 clients | refutes that the daemon goes on trying (section 6) |
| `lists_whole` | 3 calls of 2 listing methods, 3 pages, 2 answers | refutes that lists are whole (section 6) |
| `lock_crash` | 2 processes that may die anywhere, 1 failing write of a pid, 3 inodes | mutual exclusion, and an abandoned lock is reaped |
| `lock_three_reapers` | 3 processes, the lock file of a fourth | refutes mutual exclusion (section 6) |
| `stores` | 2 processes each; 2 logins, 3 seconds, rotating refresh tokens; 2 names for a lock and a Hub3, one for a remote, two entries in a copy, saves of one process fail, one change at a time (`MaxUnsaved` = 0); 2 callers, 2 retries, 6 ticks | no rollback and no return of rotated tokens; no lost updates of `config.json`; no expired signature |
| `locked_crash` | 2 processes that may die anywhere, writes of tokens that may fail, 1 failing write of a pid, 2 inodes, 1 login, 2 seconds | does the code under the lock implement the atomic store? |
| `ble_session` | 1 call, 3 requests on 2 items, 1 connection; 4 frames of up to 3 segments | a session used once, as its comment asks; which lost segments keep later frames from being read |
| `ble_reuse` | 2 calls, 2 requests, 2 connections; OS2: 3 calls, 3 links | what holds even of a session that is used again |

Why the bounds are enough. A transport has at most one current socket; with three, one can be current, one
detached and one yet to be made, and a socket that has ended can be used again, so that the number of reconnections is not bounded. Two
`connect()` calls overlap in every way the finally block allows. A FIFO shows an inversion with two entries of a key, and the third
request gives it another key to be confused with. The daemon's loop makes at most one transport before `shutdown()` and
one in a crossing `connect()`. Three calls let one method have a call that runs and one that waits, beside a call of another method. A queue of three lines over a buffer of two is filled, drained
and overrun. Two daemons are enough for one to take the path of another; `ReachableIfApart` was also checked with three. Three processes, or two after a second fault, are what it takes to break the lock: `MutualExclusion` is violated with two
processes if the lock file of a dead process and a failing write come together, for then a lock that was moved away by mistake is again taken
meanwhile. Two logins are needed for the tokens of one to meet the device or the refusal of another; within a login,
three rotations fit the seconds. Two copies of `config.json` of different ages meet in a save; with one lock and one Hub3 on two names an entry is replaced, renamed, pruned and revived; its properties were also checked with two remotes for the one name, and with any number of failed saves in a row.
A request to a BLE session can be crossed by an earlier one and be followed by a third.

Deadlock is not checked: every one of these systems may legitimately come to rest (closed, shut down, all calls
settled, all processes dead, bounds used up). That waiting comes to an end is what the liveness properties say.

### What the properties say

* `NoLeakedSocket`, `NeverStranded`, `DialAfterCloseIsLeftover`, `Recovers`, `HalfOpenDetected` — the life
  of the transport. `NeverStranded` is the invariant of which `Recovers` is the consequence.
* `WaitingIffPending`, `CrossedOnlyByLeftovers` — the FIFO. As replies carry no id, the last one is the strongest
  statement there is: a wrong match needs a leftover, a frame nobody waits for or a waiting request without a frame.
* `AckIsOwn` — a command is given the acknowledgement of another only if a request timed out, or waited while the transport replaced its socket, since all that waited was last settled; that it never is
  (`AcksMatchTriggers`, the comment at `lock.js:45`) is refuted (section 6). `ModeRestored` — learning over the same FIFO.
* `LiveIsReachable`, `SingleDelivery`, `SubscribersServed`, `LoopEnds` — the daemon. A subscriber is served on an open connection, except for one whose frame was dropped during the first dial, until something subscribes anew;
  without that exception (`AlwaysServed`) it is refuted.
* `OneAtATime` — the chains of promises implement a queue for each method. `ListsAreWhole` — why that is wanted: as long as one
  method lists, and no call gives up while its answer is coming, no page is missing or doubled.
* `LinesInOrder`, `QueueWillDrain` — the reader gets what was sent; a queued line always has something that will move it.
* `ReachableIfApart`, `ToldEnds` — a running daemon keeps its socket path unless two start at the same moment; a serving one ends when told to, even if the hub never closes.
* `StoredDeviceServes`, `LoginEnds` — signing in: no unconfirmed device, nor another user's, is stored; a revoked device does not lock its owner out.
* `IdleSparesUsers`, `IdleLetsGo` — the idle client, as long as it makes one subscription.
* `MutualExclusion`, `AbandonedIsReaped` — the lock. `HolderKeepsFile` is only proved, and for the calm case only.
* `NoRollback`, `RotationsAdvance`, `FresherIsLater` — the merge of tokens. The last one is why the freshness may decide between
  two copies of the tokens. `TokenSpec` — the lock and the store together.
* `OnlyAskedIsRemoved`, `DefaultsExist` — the merge of configurations. A name leaves the file only in a save of the process that was asked to remove it; what it stands for may be replaced (`SyncingKeepsRemotes`, refuted). No step leaves a
  default without its entry; only the migration of version 1 can (`EveryDefaultExists`, refuted).
* `SignedLive` — cached, persisted, awaited and retried credentials have not expired when they are used.
* `FailFast`, `OwnResponse`, `AwaitedIsWaiter`, `CallsSettle`, `RequestsSettle` — the BLE session. `AwaitedIsWaiter` is about a session that is called once. Of a session used again the first two hold except what calls of `register()` do that are cut off while they ask the server: with two such calls (`Twice`) a response may
  be taken for another's, with three (`Thrice`) the session may be logged in over a link given up. `WholeIsRead` — its counters.
* `OwnerKeyAgrees` — the OS2 session: once a `register()` has returned, somebody has the owner's key. That each `register()` returns it (`EachKeyAgrees`) is refuted (section 6).

Beside each definition that a property guards, an operator marked `faulty` shows a plausible mistake at that place
(a forgotten reset, a dropped comparison, a swapped order); with it in place of the original TLC finds the property violated.

## 4. Fairness

* `Hub3Ws`: timers that are armed fire, token refreshes return (they are `await`s on a fetch that ends), a socket that is
  closing reports its end, promise continuations run — weak fairness on each. `OnOpen` has strong
  fairness: if handshakes are attempted again and again, one succeeds in the end. Without it `Recovers` would ask that a
  network exists. Nothing is assumed of the user or of the server.
* `ServeDaemon`: calls return or time out, timers fire, the loop goes on. Clients are not fair.
* `ServeStart`: Node.js goes on with `shutdown()`, fires the watchdog and exits. That the hub's `close()` returns is not assumed, nor that a start succeeds.
* `LoginDialogue`: every call to Cognito ends, if only by failing; people without tokens go on signing in and type the right code at last; a call that is made again and again succeeds
  at last (strong fairness), although logouts take the pending login away again and again. Without the last two `LoginEnds` would ask for somebody to sign in and for a network.
* `SocketClient`: the callback of `setImmediate` and the timers of requests run. The daemon is not fair: it may never answer.
* `FileLock`: `withFileLock` is synchronous, so a process in it goes on; the daemon and the command line ask for the lock again;
  a file that is left alone grows old.
* `BleSession`: `transport.connect()` and `registerSesame5()` end (both have time-outs), timers fire. The device is not fair: it
  may be silent for ever.
* The other modules have safety properties only; `OneAtATime` and `TokenSpec` are refinements without fairness.

## 5. Proofs

Every safety property that a passing run checks is also a theorem, for every value of the constants that the assumptions allow.
Of some of the statements that TLC refutes (section 6) it is proved under which condition they do hold.
The modules of proofs extend the modules of the components; a proof has one step for each action and names the facts each of its leaves uses.

**`Hub3Proofs`** (`Hub3Ws`, `Trigger`, `Learn`).

* The connection: `TransportTypeCorrect`, `NoSocketLeaks`, `NeverLeftStranded`, `DialsAfterCloseAreLeftovers`. `NoLeakedSocket` and `NeverStranded`
  are together inductive over the types (`ConnInv`): wherever the code replaces or drops a socket it has closed it or detached it, and arms what leads on in the same turn.
* The requests: `NoRequestForgotten` and `OnlyLeftoversCross`. `WaitingIffPending` needs to be strengthened to `ReqInv`: frames are on their way only on sockets that
  can still deliver (`WireHolds`), a call not made has sent nothing (`IdleUnsent`), nobody waits for a frame on a socket left behind (`LeftBehind`), and two requests of a key wait in the order in
  which their frames lie in the queue and on every wire (`SameOrder`). Given that order, the head of the FIFO is answered by another's reply only if one of the two has lost its partner.
* `AcknowledgedByItsOwn` (`AckIsOwn`): unless something is `adrift`, the FIFO is the sequence of the commands not yet acknowledged. A time-out and a replaced socket with something waiting are the two ways adrift.
* `LearningRestoresTheMode`: unless something lapsed, the Hub3 is on its way to learning (the last mode among the frames under way, or the present one if there is none) only if a call is inside that
  will take it back, and `close()` found them all ended.
* Conditions for what is refuted. `UnhurriedCallsSettle`: `ConnectCallsSettle` as long as no `connect()` starts in the turn in which `close()` settled an earlier one; then one handshake is under way at a time, of the call
  whose promise the others join, and no `finally` block is due before it settles (`CallsInv`). `WithoutLeftoversClosedStays`: `ClosedStaysClosed` as long as no token refresh and no back-off timer is under way while closed, and
  `WithoutLeftoversRepliesMatch`: `RepliesMatch` as long as exactly the waiting requests have a frame queued or under way, both from the action properties above. `OneListenerIsHeard`: `ListeningIsHeard` as long as learners and listeners follow one
  another; at each of its steps the one call inside knows what is under way to the Hub3, its mode and the subscription (`AtStep`).

**`ServeProofs`** (`ServeDaemon`, `ServeStart`, `LineConn`, `SocketClient`, `LoginDialogue`).

* For any number of transports and clients: `DaemonTypeCorrect`, `NoneLeftBehind`, `DeliveredOnce`, `ServedWhenOpen`. Type correctness, `LiveIsReachable` and `SingleDelivery` become inductive with three facts. A
  transport is only made when there is none, so no live one is ever replaced in `_ws`. While the daemon is up, its subscription
  is on the hub's transport, with its handler and with a subscribe frame sent or in the queue: both places that make a transport or reopen
  one, the connect loop and `onReconnect`, subscribe again. Once the loop has ended, a client with topics has the subscription, and its frame unless that was `missed`.
* For any number of daemons: `StartTypeCorrect`, and `PathIsKept`, which is `ReachableIfApart`. The invariant is inductive only relative to `StartsApart`: a process about to unlink
  the path has found nobody answering there, and since nobody else is between its look and its own `listen()`, nobody has come to listen meanwhile. It also needs that a framing is running exactly if it
  is among those started and the loop of `shutdown()` has not passed it: otherwise a late `stop` of one daemon would remove the path of another.
* For any limits of buffer and queue: `LinesKeepTheirOrder`, `QueuedLinesDrain`. What was read, what the stream holds and what is queued continue each other (`Numbered`), and a queue
  exists only for a stream that has asked to wait and has yet to say "drain" (`Waiting`).
* For any number of requests: `ClientTypeCorrect`, `IdleCloseSparesUsers`, the latter for clients that make one subscription; with two it is refuted (section 6).
* For any number of users, processes, devices and sessions: `LoginTypeCorrect`, `StoredDevicesServe`. The file, and what every refresh was loaded with, carry a device that is confirmed and its
  user's (`Serves`), and a process confirms only a device of the user it signs in (`Confirms`).

**`MethodChainProofs`** (`MethodChain`, `MethodQueue`, `ServeLists`), for any number of methods and calls. `ChainImplementsQueue` (`OneAtATime`): initial states map to initial states and each step to a step of
`MethodQueue` or a stutter; and `MapStaysTight`. The invariant says how the promises are linked: the first call of a line waits for nothing, each other one for the call before it, and the map has the last.
`ListsStayWhole` stands on it: under `OneListing` (one method lists, no answer is late) at most one call is collecting, it runs, and it has all that was pushed of the one live answer (`Collects`).

**`FileLockProofs`** (`FileLock`). `TypeCorrect` holds with crashes, failures, stalls and reuse of inodes. Mutual exclusion is proved twice, in the two cases in which it holds:

* `Exclusion` and `HolderKeeps` under `Calm`: nothing dies, fails or stalls (`Crashed = {}`, `MaxFailures = 0` and both
  flags off), for any number of processes and inodes. Mutual exclusion alone is not inductive: it needs that a process
  between `openSync` and `unlinkSync` finds its own inode at `lockPath`, which needs that nobody renames the file away, which needs that no file
  is ever found stale; that conjunction is the inductive invariant.
* `TwoExclude` under `TwoAtATime`: two live processes, either of which may die at any system call, beside any number that died before, and any number of inodes; or, if none died before, with one write of a pid that
  fails (until it does, nothing is found stale between two living processes: `Unhurt`). Here files are found stale and moved away, also by
  mistake. The invariant (`TwoInv`) follows the file of the holder: it never looks stale (`HeldIsFresh`), it is missing from `lockPath` only while the other process holds it by mistake and is about to put it back
  (`HeldUnlessMoved`), what lies at `lockPath` meanwhile is not stale either (`NotStaleWhileHeld`), a process about to rename finds what it saw or what the other has made since (`RenamesSeenOrHeld`), and until a file moved by mistake
  is back, the other process can be nowhere in the reaping itself (`MovedIsFresh`). Every step of this was first checked by TLC with two live and two dead processes.

No part of `TwoAtATime` can be dropped: TLC violates `MutualExclusion` with a third live process (`lock_three_reapers`), with reused inode numbers, with a holder slower than `staleMs`, with one failing write of a pid beside the
lock file of a dead process (section 6), and with two failing writes.

**`StoresProofs`** (`TokenStore`, `TokenStoreLocked`, `ConfigStore`, `AwsCredentials`).

* For any number of processes, logins, rotations and seconds: `TokenTypeCorrect`; `NeverRolledBack` — no save replaces stored tokens by less fresh ones, from the merge and the types;
  `FreshnessIsSound` — `FresherIsLater`, which is its own inductive invariant together with the types: tokens
  are issued in a later second than the ones they replace, with a rotation no copy has yet, because no copy is later than
  what Cognito accepts; `RotationsNeverReturn` — a refresh token that was rotated out never replaces its successor: by `FresherIsLater`
  the fresher of two copies of one login is the later one, and the merge keeps the fresher.
* The refinement. `StoreIsAtomic`: `LockedSpec /\ []File!MutualExclusion => TokenSpec`, whatever crashes, fails, stalls or is reused. The lock is needed for one thing, `ReadIsStored`: what a process at work has read is what is stored
  until it writes, since only a process at work writes and there is no other. With it reading, writing and renaming map to stutters and one atomic `save()` or `clear()`. The exclusion comes from `FileLockProofs`, instantiated:
  `CalmStoreIsAtomic` (`Exclusion`) and `TwoStoresAreAtomic` (`TwoExclude`, which covers what `locked_crash` checks) are `LockedSpec => TokenSpec` without further hypothesis.
* Conditions for what is refuted of `tokens.json`. `OneByOneDeviceMatches` and `OneByOneKeepsHonoured`: `DeviceMatchesToken` and `HonouredTokensKept` as long as no two operations of any processes overlap (`OneByOne`). What is stored then is
  of one login, with the device of that login or none, and the one operation under way started from it (`SequentialInv`).
* For any number of processes, names, devices and remotes: `ConfigTypeCorrect`, `DefaultsAlwaysExist` (`DefaultsExist`), `NothingGetsLost` (`OnlyAskedIsRemoved`). Every operation
  replaces the copy in memory by one that lacks only what it was asked to remove and has no default without an entry that the copy did not have before; nor has the file it writes, as the merge takes defaults and entries of the copy together.
  The invariant: a name that was known at the last save and is not in memory was asked to be removed of that process, and no name of a remote is ever gone from memory. `SoundDefaultsStay`: without a default that the migration has left behind there never is one (`EveryDefaultExists`).
* Conditions for what else is refuted of `config.json`. `AlonePruningSpares`, `AloneSyncingKeeps` and `AloneRemovedStaysRemoved`: `PruningSparesHub3s`, `SyncingKeepsRemotes` and `RemovedStaysRemoved` as long as one process at a time has the configuration in memory (`Alone`) and no save
  fails (`Unlucky = {}`): its copy is then what is stored, unless the file is broken (`UpToDate`).
* `SignaturesLive` for any number of callers and retries, a margin of at least one tick more than there are retries, and any lifetime above the margin. The invariant says by how much credentials outlast
  their use: one tick for each attempt that is left, and one for the current attempt if it has not seen any.

**`BleProofs`** (`BleSession`, `BleFrames`), for any number of calls, requests, items and connections.

* `BleTypeCorrect`; `RequestsWaitOnALiveLink` (`FailFast`) from what each call that is waited for has gone through (`Roles`), what the device may be saying (`Handshakes`, `Regs`) and who may still be heard over a link given up (`Fast`).
* `ResponsesMeetTheirRequests` (`OwnResponse`): in addition, a connection has one chance to log its session in (`OneChance`), which is spent before any response is under way (`Spent`); a request waits at one place and is answered
  once (`Single`); the responses under way are to waiting requests, in their order, and lack only what is behind (`Order`).
* `KeysOfTheFirstConnection` and `FirstCallIsAwaited`: `KeyFitsConnection` up to the second connection, and `AwaitedIsWaiter` up to the second call; beyond that both are refuted (section 6). No run lists `KeyFitsConnection`: with one connection there is no other that a key could be of, so that the instance would say little. `ble_session` checks `AwaitedIsWaiter` of one call.
* `FramesTypeCorrect`, `WholeFramesAreRead` for frames of any number and length: the segments in the air follow each other (`InOrder`), the assembler has the beginning of an undamaged frame (`Assembled`), the counter lags only by what was
  missed (`Counted`). This is also the condition for `AfterLossRead`.
* `ReuseKeepsOwnerKeys`: `OwnerKeyAgrees` of the system that `ble_reuse` checks, in which an OS2 session runs beside the OS3 one. Its steps are steps of `Os2Session` or leave it alone, so that the theorem of `Os2Proofs` is its own.

**`Os2Proofs`** (`Os2Session`): `Os2TypeCorrect`, `OwnerKeyIsKept`, `FirstLinkAgrees`. A waiter or timer belongs to a call that is where it says and is not settled (`Awaiting`); as long as nothing is registered, what the device publishes is under
the key it was enrolled by (`Unregistered`), and afterwards a caller has that key, or the device was registered from the start (`Registered`).
`FirstLinkAgrees`: `CipherFits` and `EachKeyAgrees`, both refuted over several links, hold until the link is up for a second time, whatever calls overlap and time out. All that is under way on the first link is of that link (`OfThisLink`), and on it
there are either logins or one registration, which one call takes from the start to the end (`Going`, `FirstLink`).

**`SequenceFacts`**: what `Append`, `Tail`, `RemoveAt` and taking a part do to "contains" and "comes before", used by the FIFOs of `Hub3Proofs` and `BleProofs`.

The constants' assumptions are `ASSUME`d by name in the modules that declare them and evaluated by TLC in every run; that `None` is no member of a set of model values is one of them. `OwnerKeyIsKept` assumes it of the calls and keys of an OS2 session
(`NoneApart`), as keys are built in the module.

What the attempts found. `FailFast` and `OwnResponse` were not invariant as first stated. If two calls of `register()` are cut off while they ask the server, the first may hear the device's answer to the other's REGISTRATION; TLC confirms
it for `FailFast` with three such calls over three connections, and for `OwnResponse` with two, two of `connect()` and three requests, both beyond the bounds of `ble_reuse`; the properties name the exceptions (`Thrice`, `Twice`), and
the theorems show that there are no others. `OwnerKeyAgrees` was stated for every `register()` that returns; with three calls over three links one of them returns another's key
(`EachKeyAgrees`, section 6). The failing write that breaks the lock between two processes was found from the unprovable step of `TwoExclude`; that one such write
is harmless if nobody has died before, and two are not, from the attempt to prove `lock_crash` as it is run.

Only model-checked. Liveness, as fairness and ENABLED are beyond the proof system: `Recovers`, `HalfOpenDetected`, `LoopEnds`, `LoginEnds`, `ToldEnds`, `IdleLetsGo`, `AbandonedIsReaped`, `CallsSettle`, `RequestsSettle`.
Under which conditions `CloseRestores`, `ShutdownIsFinal`, `OrphanEnds`, `NoOrphanRejected` and the statements about the idle client hold is not examined.

## 6. Where code and comments disagree

Four runs end in a violation; each checks what a comment of the code says.

* `hub3ws_replies_match` — a request that fails leaves its frame in the queue; the answer to it resolves the next request of the key
  (`transport.js:586` against the comment at 17). It holds without leftovers: `WithoutLeftoversRepliesMatch`.
* `daemon_gives_up` — the first handshake fails, `_ws` stays set, the next `connect()` returns at once and the loop ends with
  `authState` `ok` over a dead transport (`client.js:263`).
* `lists_whole` — two methods of the daemon that list the devices run at the same time, as each is serialised with its own kind only; each takes the
  pages of the other's answer (`daemon.js:259` against the comment at 250).
* `lock_three_reapers` — a lock that was moved away by mistake is moved back over the lock a third process has taken
  meanwhile (`secure-fs.js:239`).

Further statements are defined beside the others and refuted by TLC with the configuration named (`tlc -continue -config X_refuted.cfg X.tla`); they are kept out of the regular runs. Where section 5 proves under which condition a statement holds, the theorem is named behind it:

| Statement | Configuration | Counterexample |
|---|---|---|
| `ClosedStaysClosed` (`WithoutLeftoversClosedStays`) | `MCHub3Ws_refuted` | `close()` during the await of the token refresh (`transport.js:469`); the await returns and a new connection is opened, while the comment at 225 says reconnecting is suppressed |
| `ConnectCallsSettle` (`UnhurriedCallsSettle`) | `MCHub3Ws_refuted` | `connect()`, `close()`, `connect()`, `connect()`: the first call's finally block (221) forgets the second's promise, whose resolvers the third overwrites |
| `AcksMatchTriggers` (`AcknowledgedByItsOwn`) | `MCHub3Calls_req`, as an invariant | a command times out, or the transport replaces its socket while it waits (`transport.js:486`: its resolver stays, its frame is gone), and an acknowledgement is given to a command it does not belong to |
| `CloseRestores` | `Learn_refuted` | `close()` while `onIRLearned` sets the mode: its cleanup is registered later and nobody runs it (`client.js:1515`) |
| `ListeningIsHeard` (`OneListenerIsHeard`) | `Learn_refuted` | one learner ends and takes the mode, or the subscription, from another that still listens (`ir.js:546`) |
| `ShutdownIsFinal` | `ServeDaemon_refuted` | `shutdown()` while `connect()` awaits the token (`client.js:264`): there is nothing to close, and the transport opens afterwards |
| `AlwaysServed` (`ServedWhenOpen`) | `ServeDaemon_refuted` | the first dial takes over a minute (the host slept and dialled again): the subscribe frame is dropped when it opens (`transport.js:604`), and `onReopen` is not called on a first opening (398) |
| `ListsAreWhole` (`ListsStayWhole`) | `MCServe_life` with `LateAnswers = TRUE` | a list times out while its pages are still coming; the next takes them for its own (`util.js:147`) |
| `RunningIsReachable` (`PathIsKept`) | `ServeStart_refuted` | two daemons start over one stale socket: the slower unlinks the path on which the faster has begun to listen, and listens there itself (`socket.js:30`) |
| `OrphanEnds` | `ServeStart_refuted` | stdin ends while the socket is being opened: `shutdown()` is over before the framing is pushed, so it is never stopped, and signals find `shuttingDown` set (`serve.js:441`) |
| `IdleSparesUsers`, with two subscriptions (`IdleCloseSparesUsers`) | `SocketClient_refuted` | `subscribe()` twice, the second times out: `_subscribed` is cleared, and the idle client closes the connection under the first (`sesame-client.mjs:211`) |
| `IdleClientServes` | `SocketClient_refuted` | a request made after the client has closed itself waits its 20 seconds for nothing: only the error sets `_fatal` (`sesame-client.mjs:190`) |
| `LossIsReported` | `SocketClient_refuted` | the daemon ends the connection in an orderly way: no handler, the pending requests wait for their time-outs (`sesame-client.mjs:155`) |
| `RefusalLetsGo` | `SocketClient_refuted` | the daemon refuses the topics: the answer is an error but no rejection, `_subscribed` stays set, and the process does not end (`sesame-client.mjs:210`) |
| `MutualExclusion` | `MCFileLock_reuse` | the fresh lock file gets the inode number of the stale one, so that comparing inodes (`secure-fs.js:236`) tells them not apart |
| `MutualExclusion` | the same with 3 inodes, `ReuseInodes = FALSE`, `MaxFailures = 1` and one process dead beforehand | a file whose pid could not be written grows old; the slower of two reapers moves it away for the stale one, its maker opens the lock again, and the old file is put back over the new one and reaped (`secure-fs.js:239`) |
| `MutualExclusion` | the same with `MayStall = TRUE` instead of the failing write | a holder slower than `staleMs` is taken for dead, by design (`secure-fs.js:257`) |
| `DeviceMatchesToken` (`OneByOneDeviceMatches`) | `TokenStore_refuted` | of two logins the older saves last: the tokens of one, the device of the other (`tokens.js:148`) |
| `HonouredTokensKept` (`OneByOneKeepsHonoured`) | `TokenStore_refuted` | a refusal of an old refresh token is saved over the tokens of a new login (`tokens.js:145`) |
| `EveryDefaultExists` (`SoundDefaultsStay`) | `ConfigStore_refuted` | the migration of version 1 passes over the second name of a device although it is the default lock (`config.js:229`) |
| `SyncingKeepsRemotes` (`AloneSyncingKeeps`) | `ConfigStore_refuted` | two processes take one name for different remotes; the later save replaces the other's (`config.js:895`, 366) |
| `PruningSparesHub3s` (`AlonePruningSpares`) | `ConfigStore_refuted` | a Hub3 is pruned although another process has meanwhile stored a remote for it (`config.js:768`) |
| `RemovedStaysRemoved` (`AloneRemovedStaysRemoved`) | `ConfigStore_refuted` | a process that still has a removed lock in memory saves anything (`config.js:366`) |
| `AwaitedIsWaiter` (`FirstCallIsAwaited`) | `BleSession_refuted` | a second call is accepted while `transport.connect()` of a timed-out first one is under way; its failure clears the second's waiter (`session.js:254`) |
| `KeyFitsConnection` (`KeysOfTheFirstConnection`) | `BleSession_refuted` | an answer of the server, asked for over a connection that is lost, arrives late and replaces the key (`session.js:892`) |
| `NoOrphanRejected` | `BleSession_refuted` | the login timer fires while `transport.connect()` is awaited: a promise is rejected that nobody awaits yet (`session.js:239`) |
| `AfterLossRead` (`WholeFramesAreRead`) | `BleFrames_refuted` | a frame whose last segment is lost is not counted, and no later frame is read (`session.js:733`) |
| `EachKeyAgrees` (`FirstLinkAgrees`) | `Os2Session_refuted` | a `register()` waits for the server while another, over another link, enrols the device; its own answer comes later, makes a key that the device never hears of, and the login publish for a third call ends it (`os2/session.js:307`) |
| `CipherFits` (`FirstLinkAgrees`) | `Os2Session_refuted` | as `KeyFitsConnection`, for the OS2 session |

## 7. Not modelled

* Pure functions over bytes and text (codecs, AES-CMAC, SRP, SigV4, payload formats): no state, and nothing in them that small sets of values tell apart.
* The cloud operations of `devices.js`, `access.js`, `org.js`, `account.js`, `company.js`, `schedule.js`, `payment.js`, `sharekey.js`: one frame built, one request sent; what can go wrong is in `Hub3Ws`. They
  are the larger part of the code, which is why the map covers a small share of its lines.
* The BLE façades (`ble/index.js`, `biometric.js`, `hub3.js`, `wm2.js`, `bot2.js`): commands that are one request on a session each. The collectors of
  published lists return what has come until their time-out, by design; two at once on one session hear each other.
* Registry of methods, the rest of the command line, prompts, the generated SDKs: tables and I/O. HTTP, WebSocket and gRPC framings beyond their start and end, and the clients over them: a request, an answer.
* The values of tokens and keys: only whose they are. The MQTT client of `iot.js`: one request.

## 8. Plan

Done: the components above, in the order in which the rest of the system depends on them, and a theorem for every safety property that holds. What is left:

1. an abstract request service (each request answered once, by its own reply or an error) implemented by `Hub3Ws` as long as nothing times out;
2. `LoginDialogue` over `TokenStoreLocked`: the save of a login that dies with its process;
3. more of the code: `lock-manager.js`, the caches of a BLE session, the collectors of its published lists, the exchange of `bootstrap`.
