# OpenConnect GUI in TLA+

A specification of the concurrent and failure-handling parts of OpenConnect GUI:
TLA+ modules translated from the Rust sources, TLC configurations that check them
on small instances, and TLAPS proofs for any number of users, connections,
attempts and restarts.

```
tlc -config Daemon.cfg MCDaemon            # one run; PROJECT.json lists them all
tlapm DaemonProofs.tla                     # one module of proofs
```

`PROJECT.json` maps every definition to the lines it models and lists components,
runs, mutants, hazards and theorems.

## 1. The system

One VPN per machine, shared by every local user's interfaces (CLI, terminal UI,
desktop application).

```
 interfaces --IPC--> service (daemon.rs) --> supervisor task (worker.rs, supervise)
 (client crate)        one slot, one mutex        | pipes
                                                  v
                                     private worker (worker.rs, run_channel)
                                       loop | monitor task | native thread (engine)
                                                  | runs as its script
                                                  v
                                     network helper (net crate) -- journal on disk
```

A user authenticates in his own process with the engine crate and hands the
resulting session to the privileged service. The service reserves the machine's
slot, starts a supervisor, the supervisor launches a private worker, the worker
runs libopenconnect on a thread, and libopenconnect runs the network helper as its
script. The helper changes routes, addresses and resolver settings and writes a
journal from which any later process can undo the change.

| Component | State | Operations | Interacts by |
|---|---|---|---|
| Service `service/src/daemon.rs` | slot, snapshot, `stopping`, `recovery_blocked`, `quiescence_blocked`, quiesce guard, event bus | Reserve, AuthProgress, Start, Disconnect, Subscribe, AdminQuiesce, close of a connection, lease tick, updates of a tunnel, shutdown | one mutex, the update channel of each supervisor, watch and broadcast channels |
| Supervisor `worker.rs` `supervise` | child, process tree, reader channel, terminal result | launch, hand over, forward, cancel, deadline, kill, reap, wait for the tree, recover, report | pipes to the worker, update channel (32) to the service, locks |
| Worker `worker.rs` `run_channel` | `native_ready`, `reconnecting`, `native_reconnected`, `observation`, `connected`, `failure` | tick, report, event, announce, cancel, kill timer | reports (16) from the monitor task, events (32) from the native thread |
| Native thread `engine/src/tunnel.rs` | `Shared::cancelled`, command handle | connect, lose, retry, regain, statistics, finish | event channel, command pipe, helper processes |
| Helper `net/src/monitor.rs` | its stream to the monitor | dial, lifecycle, deliver, acknowledge, roll back | Unix socket, journal |
| Journal `net/src/journal.rs`, `unix.rs`, `unix/lifecycle.rs` | `Journal` on disk and in memory | plan, preflight, intent, write, record, verify, undo, recover | exclusive lock, network settings of the machine |
| Lifetime `service/src/lifetime.rs` | three lock files | acquire, inherit, probe, close, offline recovery | flock, inheritance of descriptors |
| Client `client/src/{connect,daemon}.rs` | connection, event cursor, attempt's control | connect flow, event stream | IPC |
| Profile store `client/src/{profiles,configuration,credentials,private_fs}.rs` | three metadata documents, keyring, login registration, exported files | create, update, remove, import, export, save settings and pins, reserve a profile, one-time passwords | lock files, atomic replacement, keyring |
| Engine authentication `engine/src/auth.rs` | form state, prompts, replies, cancellation | forms, certificate decisions, browser hand-off | callbacks of libopenconnect, channels to the interface |
| Authentication session `client/src/auth.rs` | control, certificate prompts, browser task | receive, reply, save pins, cancel | the engine's events and replies |
| Sign-on broker `client/src/{browser*,globalprotect}.rs` | transaction lock, pending completion, ledger of completions, embedded child | bind, serve, claim, confirm, submit, close | loopback page, callback receiver, socket to the window |
| Sign-on window `desktop/src-tauri/src/auth_window*` | view of the web engine, capture in progress, profile directory | load, capture, certificate questions, close | socket to the broker, callbacks of the web engine |
| Routes `net/src/routes.rs` | none | plan tunnel routes and bypass routes | called when a configuration is planned |
| Interfaces `apps/cli`, `apps/desktop` | view state | presentation | client crate |

### What is hard

* **Ordering.** Updates of a tunnel sit in a channel while the user cancels; the
  last frame of a worker sits in a pipe while the worker is already gone; native
  events and helper reports reach the worker's loop by two channels.
* **Partial failure.** A supervisor can panic, a worker can be killed while its
  helpers go on, a helper can be killed between any two of its writes, `save` can
  fail after the rename.
* **Restart.** The service can be killed and started again while processes of the
  previous instance are alive.
* **Timeouts.** Administrative quiesce, hand-over, dial, acknowledgement and kill
  timers race what they time.
* **Waiting.** Bounded channels in both directions between service, supervisor,
  worker, native thread and helper.
* **No compare-and-swap.** The helper reads a setting and then writes it; the
  administrator may write between.
* **Answers that come late.** Prompts expire and are followed by other prompts; web
  engines answer questions about a page after the user has moved on; completions
  from outside arrive in any process, at any time, more than once.
* **Several processes, one configuration.** Interfaces of one user share profiles,
  secrets and counters by files, and any of them may be killed.

### What makes each component correct

* Service: one user at a time; a network is granted only when nobody has touched
  it or may still touch it; whatever a tunnel leaves behind is remembered;
  cancellation is final; only the owner or an administrator disconnects; shutdown,
  cancellation and abandoned reservations complete.
* Supervisor: recovery only when the whole tree is gone; a report never claims more
  than was established; a cancelled supervisor reports.
* Worker: Connected means connected, configured and current; a helper's failure is
  final; a cancelled worker ends.
* Journal: what is on disk suffices to undo what was done, in every crash state,
  except for what the kernel has lost (section 5); nobody else's settings are
  overwritten; at most one journal.
* Lifetime: no two instances act on the network at once.
* Client event stream: a subscriber never goes backwards and catches up after a gap.
* Connection flow: an attempt that fails or is cancelled leaves nothing behind.
* Profile store: no work is overwritten unseen, no profile in use is removed, no
  counter is used twice, removal leaves no secret, and nobody waits in a circle.
* Authentication: an answer reaches its own prompt and nothing else, peers are
  approved one by one, and a session is handed over only when no callback failed
  and every pin the user asked for is saved.
* Sign-on: what the user confirmed is submitted, once; a page is captured whole; no
  window or profile directory is left behind; every transaction ends.
* Routes: longest-prefix lookup in the resulting table sends every address where
  includes and exclusions say.

## 2. Modules

| Module | Models | Role |
|---|---|---|
| `MachineSlot` | the service's promise | abstract specification |
| `TunnelContract` | what service and supervisor rely on from each other | interface specification |
| `Daemon` | `daemon.rs` | implements `MachineSlot`, uses supervisors as `TunnelContract` |
| `DaemonProofs` | | proofs about `Daemon` |
| `Supervisor` | `supervise`, `terminate_worker`, `process_tree.rs`, `WorkerLease` | implements `TunnelContract` |
| `StatusPromise` | what the service is promised of a worker's status | properties of `Worker` |
| `Worker` | `run_channel`, the tunnel thread, `run_helper`, `Monitor` | what happens inside the supervisor's worker |
| `TunnelProofs` | | proofs about `Supervisor` and `Worker` |
| `Journal` | `journal.rs`, `unix.rs`, `unix/lifecycle.rs` | what happens inside a helper's lifecycle call |
| `Lifetime` | `lifetime.rs` and the start of the service | restarts, around `Daemon` |
| `StreamPromise` | what a subscriber is promised | properties of `EventStream` |
| `EventStream` | `publish`, `visible` and the following half of `connection_inner` in `daemon.rs`, `Connection` and `Events` of `client/src/daemon.rs` | one subscriber of the service |
| `ServiceProofs` | | proofs about `Lifetime` and `EventStream` |
| `AttemptPromise` | what an interface is promised of an attempt | properties of `ClientConnect` |
| `ClientConnect` | `client/src/connect.rs` | one attempt of an interface, with `Daemon` as a coarse service |
| `RoutePolicy` | prefixes of `routes.rs`, the routing table that `plan` of `unix/linux.rs` makes, what the routes should do | data and promise of `Routes` |
| `Routes` | the loops of `routes.rs` | pure algorithm |
| `NetworkProofs` | | proofs about `Journal` and `Routes` |
| `ProfileStore` | `profiles.rs`, `configuration.rs`, `credentials.rs`, `private_fs.rs` | the configuration interfaces share |
| `ProfileStoreProofs` | | proofs about `ProfileStore` |
| `Authentication` | `engine/src/auth.rs`, `client/src/auth.rs` | what `ClientConnect` takes as one choice |
| `AttemptProofs` | | proofs about `Authentication` and `ClientConnect` |
| `SignOnWindow` | what the broker relies on of its window | interface specification |
| `AuthWindow` | `auth_window.rs` and its three adapters | implements `SignOnWindow` |
| `AuthWindowProofs` | | proofs about `AuthWindow` |
| `Browser` | `browser.rs`, `browser_transport.rs`, `browser_bootstrap.rs`, `globalprotect.rs` | the broker, composed with `SignOnWindow` |
| `BrowserProofs` | | proofs about `Browser` |
| `MC...` | | constants, symmetry and constraints for TLC |

The modules divide the system along its process boundaries and meet at
specifications. `Daemon` contains a coarse supervisor per attempt (its `Sup`
actions). `TunnelContract` states that coarse supervisor as a specification of its
own, with the actions of both sides: the service starts it, asks it to stop,
receives its updates and leaves its journal alone until it has ended. `Supervisor`
refines the supervisor's side (`KeepsContract`), `Daemon` the service's side
(`UsesContract`), and both are proved. `Worker` refines what `Supervisor` treats as a worker that may
write anything, and `Journal` what `Worker` treats as a lifecycle call with a
result.

The sign-on is divided in the same way. `SignOnWindow` has the life of the window's
process, the order of its messages and its private profile directory, with the
steps of both sides. `AuthWindow` opens the window up, with the adapters and the
web engine, and is shown to implement it (`KeepsContract`) against a broker that
does anything its side allows. `Browser` EXTENDS `SignOnWindow`, so that its broker
runs against every window that keeps the contract, including one that crashes or
never closes. `Authentication` in turn sees of the broker only that pages of a
transaction arrive, or that it breaks.

### Correspondence with the code

`Daemon`. A step is one critical section of `Service::state`, one step of the task
that consumes a tunnel's updates, of a supervisor, of a quiesce, or of the accept
loop. `slot` is `Session.slot` (owner, connection, attempt, whether it has a
worker, age of its lease), `snap` the snapshot without its profile fields,
`published` the last snapshot sent on the bus. A request the code refuses changes
nothing and has no action. `journals` is the set of transactions with a journal
file, `tree[a]` whether a process of attempt `a` may be alive, `recoverers` the
number of quiesce recoveries running, timed out or not.

`Supervisor`. `pc` follows `supervise` and `supervise_inner`. Frames travel through
the pipe, the reader's channel and the update channel, each with its capacity. The
worker writes any frame, hangs, exits or leaves helpers that outlive it. Kill and
reap may fail.

`Worker`. `loop` is the position in the body of `run_channel`; a turn takes a tick
or one report and then all events, as `select!` and the `while let` do. The
locals keep their names, except that `connected` is read off the last update written.
`native` is where libopenconnect is, and its order of script calls (pre-init,
connect; attempt-reconnect before every attempt; reconnect, then the callback;
disconnect when the tunnel device is freed; results ignored) is external, taken
from the version the repository pins. `helper`, `monitor` and `stream` are the
two ends of the report protocol with their 10 s and 180 s timeouts.

`Journal`. Keys stand for routes, addresses and resolver settings. A helper's
position is explicit between every read, write and save. `mem` and `disk` are the
two copies of `Journal`. Environment steps change, remove or restore settings,
remove the interface, kill the helper or reboot. `Bound` keys name the interface by
its index and are skipped when it is gone (`Missing`). A route has a key without an
index, but one through the tunnel device (`Carried`) goes with the device, or with the
address or link state it stands on (`Needs`): `Fallen` says what is left. Linux reads a
route's slot as a list, so an empty one is not None (`Listed`, `Nothing`), and what
the kernel takes may have stood beside others or have replaced them. Setting an address
makes the kernel add its connected route (`Implied`), beside what is there (`extra`) or
as the very state that is planned; `Implicit` is the third state that `apply_one`
accepts. `lost` remembers routes that were replaced and are gone for good.

`Lifetime`. A lock is the set of live processes that share the locked open file
description, so inheritance, death and probing are set operations.

`EventStream`. A snapshot is its place, the instance of the service and the
sequence number. `ring` and `lagged` are the subscriber's view of the broadcast
channel, `hand` the frame its handler is writing, `wire` the socket, `last` the
cursor of `Events`. A change of the session publishes a log record and a snapshot
under one lock, with a number each. Dropping a stream is one step, for the
interface and for the handler.

`ClientConnect`. `pc` follows `run`, `reserved` and `wait_for_cleanup`. A call puts
a request on the line; the service may handle it long after the caller has given
up, and answers that nobody waits for are lost. `slot` and `snap` are what
`Daemon` shows an interface: whose attempt, in which state. Other interfaces and
other users reserve, connect and disconnect. Everything the authentication does is
the choice between prompts, progress, a session and failure.

`ProfileStore`. `at[p]` is where a process is in its operation: waiting for a lock,
reading, checking, writing, syncing. `base` is the version its user was shown and
`old` the document it read under the lock. A crash releases the locks and loses
what was not renamed. A write may fail before or after the rename. `born` tells a
profile from another one under the same id.

`Authentication`. The worker thread is in the library (`native`), in a prompt
(`asking`), or leaving. `pending` and `queue` are `Shared::pending` and the bounded
channel of replies; an answer is checked against `pending` and then sent, so it may
be in the queue when its prompt has expired. `sending` is the time between the flag
of a cancellation and its messages, `saving` the time in which a certificate's pin
is written under the lock of the prompts. The library calls back in any order.

`AuthWindow`. `engine` has the navigations by number: which have been responded to,
committed, are over, were refused for their certificate, and which is shown. An
adapter's `view` has `generation`, `capturing` and `headers` as in the source;
`captures` are the questions the engine has not answered. The three adapters share
one action where the code is parallel and differ in operators (`CurrentMac`,
`StartLinux`, ...). Responses and ends may be reported of any navigation that is not
over, the superseded ones included, and on Linux a navigation that is given up ends
like one that has finished. The history variable `stray` has the kinds of such late
reports since the last navigation began. Attaching the handlers may fail where the
request is refused, which stops the window, or later, in the closure that runs on
the main thread: then `Failed` is queued like any message, Ready never comes
(`attached`), and the window closes itself. Once a view has closed itself its adapter
ignores every callback, so the engine and the captures are no longer followed.

`Browser`. A task's record holds `Flow` and its channels; `lock` is the user's
transaction lock, `ledger` the file of consumed completions with the day of their
entry. A step of a serving task is one turn of its loop, except that the claim of a
completion reads and writes the ledger in two steps.

`Routes`. One action takes one turn of a loop of `tunnel_routes` or
`bypass_routes`; an initial state is a configuration that `validate` accepts.
`RoutePolicy` has what the loops share: a prefix is an address and a length,
`Normalize` and `Contains` are the functions of these names, with quotients by powers
of two in place of shifts. `Lookup` is the kernel's longest-prefix lookup, external.

## 3. Runs

| Run | Properties | Question |
|---|---|---|
| `Daemon` | `OneSupervisor`, `RecoverySafe`, `DownOnRequest`, `KeepsPromise`, `UsesContract`, `SlotReturns` | does one tunnel at a time run, is nothing it leaves behind forgotten or repaired too early, does it go down on request only, does the service implement `MachineSlot` and use its supervisors by `TunnelContract`, and does the slot come back? |
| `Supervisor` | `KeepsContract`, `CancelReports` | does the detailed supervisor implement `TunnelContract`, and does it report at all once it is cancelled? |
| `Lifetime` | `OneGeneration`, `MachineQuiet` | do generations, restorations and new instances exclude each other? |
| `Journal` | `Restorable`, `ForeignPreserved`, `HelperEnds` | on Linux, can every crash state be undone or is it still known, are foreign settings preserved, with routes that the kernel makes and takes, and does every helper end? |
| `Worker` | `HonestStatus`, `CancelEnds` | is Connected current and configured, is a failure final, and does a cancelled worker end? |
| `EventStream` | `LogFaithful`, `NeverBackwards`, `CatchesUp` | does a lagging subscriber see no holes in its log and no other user's sessions, go forward only, and catch up? |
| `ClientConnect` | `ResultTrue`, `WindsDown` | does a failed attempt leave nothing behind, does Connected mean its own tunnel, does a cancelled attempt end on both sides? |
| `Routes` | `PlanFaithful` | does every address go where includes, exclusions and peer say, in every small configuration? |
| `ProfileStore` | `NothingOverwritten`, `InUseKept`, `HotpOnce`, `LoginAgrees`, `RemovalErases`, `NoCircularWait` | do interfaces that share the configuration, and may be killed, keep each other's work, secrets and counters? |
| `Authentication` | `AnswersFit`, `PeersApproved`, `PinCommitted`, `HandoffClean`, `CancelEnds` | does every answer belong to its prompt, is a session handed over only with its wanted pins saved and no callback failed, and does a cancellation end both sides? |
| `AuthWindow` | `ExceptionsApproved`, `PagesWhole`, `KeepsContract`, `CapturesGoOn` | is a certificate accepted for its own question only, is a captured page of one navigation, unless an undetectable late report has come, does the window implement `SignOnWindow`, whether or not its handlers could be attached, and is the document of every finished page captured? |
| `Browser` | `ConfirmedOnly`, `SubmittedOnce`, `NothingLeft`, `TaskEnds` | does only what the user confirmed reach the server, once, and does every transaction end with nothing left? |

The `TypeOK` of a module documents its state. Parts of an inductive invariant that
are proved, such as `NoOrphanAttempt`, `StoppingDrains` and `SubscribersCurrent` of the
daemon, have no run of their own.

Every property has a mutant in `PROJECT.json`: an operator in the module, marked
*Fault*, that changes one definition the way a plausible bug would. TLC then finds
the property violated.

### Bounds

* `Daemon`: an administrator and a user, two connections, two attempts. The second
  attempt is the one that meets what the first left behind; two connections are
  needed for overlapping quiesces and for a foreign disconnect. A supervisor's
  channel of length 1 makes every update race its consumer; a lease of one tick
  makes expiry race renewal. Two constraints cut the state space. `FirstAttempt`
  hands out `a1` before `a2`: attempts are UUIDs and interchangeable, so every
  behaviour is one of these up to the names. `OnePeerEach` gives one connection to
  each of the two users. Neither hides a step that fairness promises, since nothing
  is assumed of `Accept` and `Reserve`. The safety properties are proved without
  these bounds.
* `Supervisor`: pipe and update channel of 2 (empty, partly filled and full), a
  reader's channel of 1.
* `Worker`: one lost connection, so that stale reports and events of the first
  connection meet the second; capacities 1, so that every channel can be full.
* `Journal`: two keys, the address of the tunnel interface and the connected route
  that stands on it; two transactions; one foreign change, one reboot, two
  incarnations of the interface. The constants are those of Linux, whose lists and
  implied routes have the harder cases. macOS is another value of them (`Listed` and
  `Implied` empty: a route that is gone reads as None, and `lost` may have members);
  no run has it, the theorems of `NetworkProofs` cover it.
  Two keys are what partial application and partial restoration need. A key has one
  foreign value or none, which gives every pattern of equality between what was
  before, what is intended and what is there.
* `Lifetime`: two starts of the service and one offline recovery. The proofs cover
  any number.
* `EventStream`: eight numbers of each of two instances, a channel of 3 and a
  socket of 2. Since a change takes two numbers, the channel loses the first half
  of a change and keeps the second, and another change fits behind it.
* `ClientConnect`: one attempt, any number of attempts of others, a subscription
  that holds 3 snapshots before the oldest is lost.
* `Routes`: addresses of three bits have every relationship between two prefixes
  (equal, inside, outside, adjacent) at `/0`, at host length and between. One
  exclusion, a subnet, a default route, and either one interface address with a
  free include or two interface addresses, nested or not. Includes have any host
  bits, exclusions none. The peer is fixed, since exchanging the two values of a bit
  of all addresses changes nothing else.
* `ProfileStore`: two processes, two profiles, two names, three operations and one
  kill. Two operations race and the third meets the outcome. Revisions end at 4, so
  that an exhausted revision is met. Processes, profiles and names are symmetric,
  and the run has no liveness property.
* `Authentication`: two callbacks (a prompt that meets what the one before left),
  a queue of two replies, one accepted peer before the limit. Three profiles and
  five forms cover each branch of the form, with and without saved password and
  group, GlobalProtect and others.
* `AuthWindow`: all three engines and two navigations, so that each answer and each
  report can belong to the other one; a full channel and socket. Two certificate
  questions, so that a decision can meet the other one.
* `Browser`: two transactions of two processes with the same two completions, or
  one in the embedded window; a ledger of one entry is full at once, and one day
  lets it expire. `Scenarios` are the requests of each platform; sign-ons from
  outside do not differ between platforms and are checked for one.

### Fairness

Fairness is assumed of the program's own tasks and timers, never of users,
servers, or the administrator.

* `Daemon`: supervisors return and report, consumers receive, the lease ticker and
  the clock advance, the drained service exits.
* `Supervisor`: weak fairness of each of its steps and of the receiving service;
  strong fairness of the cancel and deadline branches of its `select!`, which
  chooses at random among the ready ones.
* `Worker`: tasks run, the ten second timers fire, libopenconnect sets up, answers
  commands and runs its callbacks; it need not succeed, and it need not reconnect.
* `Journal`: a helper that is not killed takes its next step.
* `EventStream`: the handler's task runs, and an interface that follows calls
  `next` again.
* `ClientConnect`: calls and waits end by their timeouts, a cancelled attempt takes
  the cancelled branch of its biased `select!`, the service reads its connections
  and ends a tunnel it has cancelled. Nothing is assumed of the interface that
  should read the attempt's events.
* `Authentication`: the worker's own steps with its prompt's timer, the owner's loop
  around `recv_timeout`, a pin or a cancellation that is under way. The library, the
  user and the browser may be silent for ever; a library that has been sent the
  cancel command returns.
* `AuthWindow`: the engine answers what it is asked, and the adapter's timer goes
  on. Navigations need not end; an answer may be a failure.
* `Browser`: the task's own steps and timers. The window, the user and the callback
  receiver may do nothing.

## 4. Proofs

`DaemonProofs` holds for every set of peers, connections and attempts, every lease
and every channel capacity. Assumptions are those of module `Daemon`: roots are
peers, lease and capacity are positive, the earlier transaction is not one of the
attempts. Its theorems are of three kinds.

* *Invariants* (`DaemonInvariant` and its corollaries, among them
  `DaemonOneSupervisor` and `DaemonRecoverySafe`). None of the safety properties is
  inductive. `OneSupervisor` needs to know that a live supervisor has a consumer
  that still listens and that this consumer's attempt is in the slot (`TasksBound`).
  `RecoveryKnown` needs to know that a `Finished` update that is still in a channel,
  or still being composed, tells the truth about the tree and the journal
  (`ReportsJustified`). `RecoveryAlone` needs the order of the two blocks
  (`BlocksOrdered`) and the exclusion of quiesces (`QuiesceSerialized`). Their
  conjunction with the stated properties is `IInv`. The proof has one lemma per
  action. `RecoverySafe` is the conjunction of `RecoveryKnown`, `RecoveryAlone` and
  `UncertainRemembered`.
* *An action property* (`DaemonDownOnRequest`). Each action that makes an
  established tunnel Disconnecting is shown to be a request of its owner, a quiesce
  or a stop; and no late update takes a Disconnecting back. The
  cancellation of the slot is the shared step (`CancelSlotSticks`).
* *A refinement* (`DaemonKeepsPromise`). The mapping gives `MachineSlot` its holder,
  phase and dirty flag as the operators `Holder`, `Phase` and `Dirty` of `Daemon`.
  Initial states map to initial states (`InitKeeps`), every step to a step or a
  stutter (`NextKeeps`), under `IInv` in both the old and the new state.

  The refinement `DaemonUsesContract` is proved for each attempt apart, since
  `UsesContract` instantiates `TunnelContract` once per attempt. Beside `IInv` it
  needs `JournalsStarted`: a transaction has processes and a journal only after its
  supervisor was started. Otherwise the repair of a quiesce could be the removal of
  a journal whose attempt has not begun, which the contract does not know.

The first part of `TunnelProofs` shows the other half, `SupervisorKeepsContract`, for any error
codes and any capacities of the pipe, the reader's channel and the update channel.
`SInv` relates the position in `supervise` to the tree: a tree that is said to be gone
has gone (`TreeKnown`), the flag is set from the launch to the end of `wait_quiet`
(`FlagFollows`), and a report about a tree that may be alive demands repair
(`UncertainDemands`). With `DaemonUsesContract` it joins the two sides of the
contract: what the service relies on of a supervisor is what `supervise` does.

The first part of `ServiceProofs` (`LifetimeInvariant` and its corollaries) holds for any number of
starts. `LInv` adds to the types: whoever is alive or serving shares the mutator
lock (`LocksFollow`), the sharers of a lock descend from one instance
(`OneFamily`), a restoration and a worker exclude each other (`Separate`), and an
open service has nothing pending (`Settled`).

The first part of `NetworkProofs` proves `Restorable` and `ForeignPreserved` for any number of keys and
transactions, any negotiated configurations, and any number of foreign changes,
reboots and incarnations of the interface. `JInv` has a part for what is on the
machine and one for the helper at its position. *World*: there is one journal at a
time (`OneJournal`); a journal, on disk or in memory, was planned for a boot and an
interface that have existed and never records a result that was not intended
(`WellPlanned`); every key that is not as it would be without the helper is undone by
a journal on disk (`Undone`), or is known to it where the kernel emptied its list, or is
`lost`; a key that was changed between a check and its
write has a value the helper never writes (`RacedForeign`), which is why that
exception does not spread to later runs; a route through the device is never anybody's
own (`RoutesForeign`); and without a journal neither the helper nor the kernel has left
anything (`Journalled`). *Inside*: while the helper works, its copy
and the one on disk are of one plan, whatever `save` did (`HelperHolds`); the value a
write relies on changes under it only in a way that is seen, because the interface or
the kernel's route is gone or somebody changed it (`WindowHolds`, `Dropped`); a loop
that has no warning has settled every key behind it (`LoopSettles`), which is what
allows the journal to be removed; and `recover_all` does not meet the journal it
works on twice (`QueueHolds`). `ForeignPreserved` is an action property and follows
from `JInv` before each step. Assumed: values of a configuration are never absent,
no route through the tunnel device exists before the device or after a reboot,
and foreign values differ from those a configuration intends. The model tells who
wrote a value by the value, as the code does; a foreign value equal to the intended
one cannot be told apart by either.

`ProfileStoreProofs` proves all six properties of the run for any number of
processes, profiles, names, operations and kills. The heart of `StoreInv` is the pair
`Locking` and `Holding`: which locks a position implies, and which positions a lock
implies. From it come what a process may rely on at its position: a document that is
about to be replaced is the one the new document was made from (`Proposal`), the
version an interface was shown is older than the stored one or equal to it, unless
the id was used again (`Shown`), a profile is being reserved or removed but not both
(`Using`), and a counter that was used is behind the one in the keyring (`Counting`,
`Spent`). `NoCircularWait` follows from an order of the locks. `NothingOverwritten`
and `RemovalErases` are action properties. Assumed: names of locks and of nothing
(`None`) are not ids of profiles.

The first part of `AttemptProofs` proves `PeersApproved`, `PinCommitted`, `HandoffClean` and
`AnswersFit` for any forms and peers, any queue and any number of callbacks. A prompt
is known to four parties at once and outlives its callback, so `AuthInv` relates what
the worker waits with (`Waiting`), what is published, what the session and its owner
still hold (`Agreed`), and what is in the queue (`Approvals`, `Ordered`). The step
that makes it necessary is the reply that was checked against the published prompt
and arrives after that prompt has expired: it carries the number of its prompt, and
`Numbered` says that no later prompt has that number. Assumed: `None` is none of
the values it stands beside.

`BrowserProofs` proves `ConfirmedOnly`, `SubmittedOnce` and `NothingLeft` for any
tasks, completions, days and limits, and for every window that keeps to
`SignOnWindow`. `BInv` has four parts: what a task holds at its position and who has
the transaction lock (`Fits`, `Locked`); that the account a user sees or answers about
is that of the completion that waits (`Fits`); that what a claim has read of the
ledger is still all it holds that matters, although reading and writing are two
steps (`Ledgers`); and from when to when the window of a task is there (`Windows`).
Assumed: `ScenarioAssumption`, at most one task of a scenario uses the embedded
window, and `None` is none of the values it stands beside.

`AuthWindowProofs` proves `PagesWhole`, `ExceptionsApproved` and the refinement
`KeepsContract` of `SignOnWindow`, for the three adapters, any sites, any number of
navigations and certificate questions, and any capacities. `Fine` says what the
adapter's state has to do with the engine's: the generation counts the navigations
while the view is open, and a capture carries the generation it was made in. As long
as no late report has passed the adapter since the last navigation began (`Sound`),
the headers that are kept and the page that is loaded are of that navigation, and a
capture of its generation is of its page, in which its script ran no earlier than
the page was shown (`Follows`, `Apt`, `Taken`). An answer that passes `current` is then
of the last navigation, and the script can have run in no other document. A new
navigation makes the window sound again, whatever came before it, since the captures
made until then have an earlier generation. Every callback is shown to keep `Fine`, to
forget no late report, and to add at most one message, neither Ready nor the last
word (`Reaches`), which the refinement uses to make all of them stutters. The mapping
turns `running` into `broken` for a window that was not attached, of which `Bare` says
that it is never navigated and has only failures to tell, and into `ready` when Ready
has left the channel (`Phase`), and messages into their kinds (`Kinds`). With
`BrowserProofs` this joins the two sides of the window's contract.

Four modules of proofs have a second part, about the component next to the first.
What that component promises is stated in a module of its own (`StatusPromise`,
`StreamPromise`, `AttemptPromise`, `RoutePolicy`), with the part of the state that its users meet. The
component EXTENDS it and adds the rest of the state and the steps; the proofs EXTEND it
too, and have the component as a named instance (`Work`, `Stream`, `Connect`, `Policy`), in
`TunnelProofs` with two variables renamed, since the supervisor has variables of
these names. The assumptions of the instance are hypotheses of the theorems.

*Worker* (`WorkInvariant`, `WorkHonestStatus`), for any number of lost connections and
any capacities of the two channels. That Connected is announced for the connection
that is there cannot be seen from the loop: a report and an event reach it by two
channels, and either may be of the connection before. `WorkInv` says that no report
is of a connection still to come (`Cycles`); that a Reconnect report follows, in the
channel or in what the loop remembers, the AttemptReconnect of its own connection
(`Paired`), which is why the loop has forgotten older observations when it meets one;
that a confirmation of the present connection, wherever it has got to, was made by a
script that configured it (`Grounded`); and that the loop's flags are those of the
status it wrote last (`Announced`). The exception `late` is the one of section 5.

*EventStream* (`StreamInvariant`, `StreamLogFaithful`, `StreamNeverBackwards`), for any
users, any number of events and restarts, and any capacities of channel and socket.
`StreamInv` reads the channel, the frame in hand, the socket and the cursor as one
line. What is sent is not ahead of the service (`Past`) nor behind what the client shows
(`Forwards`); the channel holds the newest events without a gap (`Numbered`); a stream
of log records is strictly ascending along the whole line (`Ordered`), and a record is
returned, under way, in the channel, or behind the point at which a lagging stream
will be closed (`Complete`). `NeverBackwards` is an action property: a refetched
snapshot after a gap or a restart, with its new instance, is compared with the one
that is shown. A snapshot of another user reaches no stream (`Answers`). Assumed: `Me`,
`Other` and `NoOne` differ, and the capacities are positive.

*ClientConnect* (`ConnectInvariant`, `ConnectResultTrue`), for any capacity of the feed.
`ResultTrue` is about a request that may be handled long after its caller has given
up. `ConnectInv` adds that the one Reserve of an attempt is on the line or answered,
never both (`Single`), that a taken slot shows whose it is (`ShowsOwner`), and that
nobody has heard of the attempt's tunnel before there was one (`Heard`). Assumed:
`NoOne` is none of the values it stands beside.

*Routes* (`RoutesInvariant`, `RoutesPlanFaithful`), for any width of an address, so for
IPv4 and IPv6, and any number of includes, exclusions and interface addresses.
`RouteInv` says what each loop has made of the configuration so far: kept includes
share no address and, with those still to come, have exactly the included ones
(`Looping`); after the exclusions, what is kept is included, lies in no
exclusion, and lacks only what is excluded or the peer (`Retained`); and the bypasses
are the exclusions and the children of the connected prefixes they cover, less the
local host routes at the end (`Bypassed`). The promise follows by cases of an address:
local, the peer, excluded, included or connected, none of these. The case that needs
an argument is the excluded one. A route into the tunnel that matches there is either
a kept include, which then is shorter than the exclusion since no exclusion contains
it, or a connected prefix inside the exclusion, whose two children are bypasses and
one of which matches (`LookupExcluded`, `Wins`). Beneath lies the arithmetic of
prefixes: they are nested or apart (`Nested`, `Overlap`), and the next bit tells two
children apart (`Halving`). It rests on powers of two (`PowerDef`, `PowerSum`) and on
`Longest`, that some match is the longest; both are inductions, which are made by
counting: a set with 0 and with each member's successor has every number
(`SetInduction`), since otherwise its members below a missing one would be as many
as their successors, and 0 is not one of those. Assumed: a peer is an address other
than the first and the last, and an address has more than one bit.

Every proved property is one that a run checks as well, and each inductive invariant
was checked by TLC on the bounds of its component's run before it was proved (for
`EventStream` with two capacities of the channel, for `Worker` with two lost
connections as well).

Only model-checked:

* every liveness property (`SlotReturns`, `CancelReports`, `HelperEnds`, `CancelEnds`,
  `CatchesUp`, `WindsDown`, `CapturesGoOn`, `TaskEnds`): they rest on fairness and on
  ENABLED, which the prover does not handle.

## 5. Observations

Behaviour of the code met while modelling that a reader may not expect. The models
contain it; the properties are stated around it, and say so.

* **Connected after a rollback** (`net/src/monitor.rs:178`). A helper that times out
  waiting for the acknowledgement undoes its configuration, although the monitor
  may have accepted its report. The worker then announces Connected, which the
  service logs as "Tunnel and network configuration verified"
  (`service/src/daemon.rs:551`). The exception is `late` in
  `Worker`, and `ConnectedConfigured` shows that there is no other way.
* **A replaced route that is lost with the device** (`net/src/journal.rs:139`, `:160`).
  A planned route may replace one with the same destination and metric
  (`unix/linux.rs:711`, `unix/macos.rs:742`). If the tunnel device goes before the
  undo, the kernel takes the new route and the old one does not come back. Recovery
  writes only over its own value, so it does not restore the old one: on Linux the
  empty list is a state to preserve, and the journal stays, asking for repair, even
  after the administrator has put things right in another way; on macOS the route
  reads as None, counts as undone, and the journal is removed without a warning.
  `Restorable` names the first case and exempts the second (`lost`).
* **Stuck at Reconnecting** (`service/src/worker.rs:410`). A turn of `run_channel`
  takes one report but all events. If a reconnection completes while the loop is
  held up in a write to the supervisor, its `Reconnected` event is used up by the
  announcement of the connection before it, and the session stays at Reconnecting
  on a working tunnel, while the lab waits for it to settle
  (`native/lab/runtime.py:300`). `AnnouncesCurrent` shows the opposite mistake,
  Connected for the wrong connection, to be impossible.
* **A dropped attempt that stays connected** (`client/src/connect.rs:134`).
  `Attempt::drop` says that the worker delivers the cancellation even if the
  connection won the race. If the task has already returned Connected and the
  interface has not read it (`connect.rs:462`), the drop cancels a control nobody
  looks at, and the tunnel stays up. `ResultTrue` is about attempts that report.
* **Stale edits of another profile** (`client/src/profiles.rs:155`, `:203`). The
  README says that revision checks prevent stale edits. A profile that is removed and
  imported again under its id starts at revision 1, so an edit of the old one may
  pass. `NothingOverwritten` is about edits of the same profile.
* **A completion that is used up unseen** (`client/src/browser.rs`, claim). A
  completion is entered in the ledger before its prompt is sent. If the interface
  does not read its notices, the prompt is lost and the completion cannot be
  submitted again.
* **Completions of the embedded window are not claimed.** The ledger covers what
  comes from outside; `SubmittedOnce` is stated for these.
* **Reports of a superseded navigation** (`auth_window/macos.rs:263`, `:222`;
  `windows.rs:526`; `linux.rs:403`). Of the navigation that ends only Windows asks
  whether it is the one under way, of a response only Linux. If an engine reports
  the end of the page before, or its response, after the next navigation to the same
  address has begun, the adapter captures the old document in the new generation,
  or keeps the old headers; and on Linux a load that was given up reports Finished
  too. Such a page may have the headers of one navigation and the document of
  another. Whether the engines ever report in this order, the repository does not
  say. `PagesWhole` is about the windows in which no such report has come since the
  last navigation began (`stray`, `KeptOut`).
* **A window that is never ready** (`auth_window/linux.rs:508`, `windows.rs:439`,
  `macos.rs:404`). What fails in the closure that attaches the handlers is sent as
  Failed and followed by Closed or Failed, without Ready. The broker ends the
  transaction at the first of them; `SignOnWindow` lets the window do so (`broken`).
* **A last word that changes.** A window whose channel is full reports its failure as
  Closed, since only the last message is certain to be delivered.
* **A profile directory that cannot be looked at** ends the transaction as an
  ordinary error instead of RecoveryRequired, while the directory may stay:
  `NothingLeft` names this case, `Unreadable`.
* The transition table of the model crate (`ConnectionState::can_transition_to`) is
  not what the daemon follows: it publishes Authenticating to Disconnected, for
  one. `transition` is called by its own test only, so the table has no run.

## 6. Not modelled

* Platform primitives (netlink, routing sockets, SystemConfiguration, Windows
  APIs, web views, keyrings): the modules take them as reads, writes and callbacks
  that may fail or come late.
* Windows variants of supervisor, lifetime, monitor and journal: other mechanisms
  (job objects, named pipes, persistent rules) for the same protocol.
* The script's grouping of mutations, and macOS route equivalence.
* Parsing: option texts and forms in `Authentication`, callbacks in `Browser`, the
  script's environment in `Journal`. Each is a choice among its outcomes.
* Launching the system's browser, the registration of the callback receiver, proxy
  selection; installation and registration with service managers. They are
  sequences of platform commands with no state that another step depends on.
* Presentation (`apps/cli`, `main.tsx`, `commands.rs`), library loading, the C
  bridge, build tooling and packaging.
* A log record published between the joining of the channel and the answer to
  `Logs` is in the backlog and in the stream. `LogFaithful` is about missing records
  only; nothing in the code says that a record is shown once.
* Wording, logging, frame encoding and size limits.

## 7. Plan

Done, in this order: `Daemon` with `MachineSlot` and its proofs, `Supervisor` with
`TunnelContract`, `Journal`, `Lifetime` with its proofs, `Worker`, `EventStream`,
`ClientConnect`, `Routes`, `ProfileStore`, `Authentication`, `SignOnWindow` with
`AuthWindow` and `Browser`; the proofs of `Daemon` and `Lifetime`, then those of
`Supervisor`, `Authentication`, `ProfileStore`, `Journal`, `Browser` and `AuthWindow`,
and last those of `Worker`, `EventStream`, `ClientConnect` and `Routes`.

Further modelling, where it pays: the planning of mutations on Linux between
`Routes` and `Journal`, and the Windows variants of supervisor and lifetime.
