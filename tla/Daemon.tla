------------------------------- MODULE Daemon -------------------------------
(***************************************************************************)
(* The privileged service (crates/service/src/daemon.rs): one machine-wide *)
(* VPN slot behind one mutex, shared by every local user's interfaces.     *)
(*                                                                         *)
(* A step of this module is one critical section of Service::state, one    *)
(* step of the task that consumes a tunnel's updates, one step of the      *)
(* tunnel's supervisor (crates/service/src/worker.rs, supervise), one step *)
(* of an administrative quiesce, or one step of the accept loop.  A        *)
(* request the code refuses leaves the state alone, so it is a stuttering  *)
(* step and has no action of its own.                                      *)
(*                                                                         *)
(* Abstractions.  UUIDs are members of Attempts and Conns; a fresh UUID is *)
(* a member nothing refers to.  Profile fields travel with the attempt and *)
(* are left out.  The payloads of an update are left out; whether an       *)
(* observation or a session id is present is kept.  The event bus is       *)
(* represented by the last snapshot published on it.  The journal          *)
(* directory is the set of transactions with a journal file in it; how a   *)
(* journal is applied and undone is the subject of module Journal.         *)
(***************************************************************************)
EXTENDS Naturals, Sequences, FiniteSets

CONSTANTS
    Peers,        \* operating-system identities of control peers
    Roots,        \* the peers whose uid is 0: they may quiesce the service
    Conns,        \* control connections
    Attempts,     \* attempt ids Reserve may hand out
    Prior,        \* the transaction of an earlier service instance
    LeaseLimit,   \* clock ticks in the 300 second reservation lease
    QueueLimit,   \* capacity of a supervisor's update channel (32 in the code)
    None          \* Rust's None

ASSUME RootsAssumption == Roots \subseteq Peers
ASSUME LeaseAssumption == LeaseLimit \in Nat \ {0}
ASSUME QueueAssumption == QueueLimit \in Nat \ {0}
ASSUME PriorAssumption == Prior \notin Attempts

States == {"Disconnected", "Authenticating", "Connecting", "Connected",
           "Reconnecting", "Disconnecting", "AuthenticationRequired", "Failed"}

\* ErrorCode, as far as the daemon tells the codes apart.
Errors == {"RecoveryRequired", "AuthenticationRequired", "Other"}

Snapshots == [state : States, attempt : Attempts \cup {None},
              session : BOOLEAN, network : BOOLEAN, error : Errors \cup {None}]

\* Slot: `worker' is cancel.is_some(), `age' is lease.elapsed().
Slots == [owner : Peers, conn : Conns, attempt : Attempts,
          worker : BOOLEAN, age : 0..LeaseLimit]

ASSUME NoneAssumption ==
    None \notin Slots /\ None \notin Peers /\ None \notin Attempts /\ None \notin Errors

\* Update::Finished as the supervisor composes it.
Finishes == [kind : {"Finished"}, error : Errors \cup {None}, quiescent : BOOLEAN]
Updates == [kind : {"Connected", "Reconnecting", "Traffic"}] \cup Finishes

VARIABLES
    snap,               \* Session.snapshot
    published,          \* the snapshot in the last event sent to subscribers
    slot,               \* Session.slot
    lastOwner,          \* Session.last_owner
    recoveryBlocked,    \* Session.recovery_blocked
    quiescenceBlocked,  \* Session.quiescence_blocked
    stopping,           \* Session.stopping
    run,                \* run_with_ready: "serving", "draining" or "exited"
    conn,               \* conn[c]: life of a control connection
    peer,               \* peer[c]: the identity the transport observed, while c is not closed
    quiesce,            \* quiesce[c]: progress of an AdminQuiesce on c
    guard,              \* Service.recovery: "free", held by a "request" or a blocking "task"
    recoverers,         \* blocking recovery tasks an AdminQuiesce started that still run
    used,               \* attempt ids handed out so far
    sup,                \* sup[a]: supervisor task of attempt a
    inner,              \* inner[a]: the report the supervisor is composing
    cancelled,          \* cancelled[a]: a message was sent on the slot's cancel channel
    tree,               \* tree[a]: some process of the owned worker tree is alive
    updates,            \* updates[a]: the update channel
    consumer,           \* consumer[a]: task spawned by Start
    journals            \* transactions with a journal file on disk

sessionVars == <<snap, published, slot, lastOwner, recoveryBlocked, quiescenceBlocked, stopping>>
connVars    == <<conn, peer>>
adminVars   == <<quiesce, guard, recoverers>>
tunnelVars  == <<sup, inner, cancelled, tree, updates, consumer, journals>>
vars == <<sessionVars, run, connVars, adminVars, used, tunnelVars>>

TypeOK ==
    /\ snap \in Snapshots /\ published \in Snapshots
    /\ slot \in Slots \cup {None}
    /\ lastOwner \in Peers \cup {None}
    /\ recoveryBlocked \in BOOLEAN /\ quiescenceBlocked \in BOOLEAN /\ stopping \in BOOLEAN
    /\ run \in {"serving", "draining", "exited"}
    /\ conn \in [Conns -> {"closed", "open", "following", "closing"}]
    /\ peer \in [Conns -> Peers \cup {None}]
    /\ \A c \in Conns : conn[c] # "closed" => peer[c] \in Peers
    /\ quiesce \in [Conns -> {"none", "locking", "draining", "recovering", "clearing"}]
    /\ guard \in {"free", "request", "task"}
    /\ recoverers \in Nat
    /\ used \subseteq Attempts
    /\ sup \in [Attempts -> {"none", "running", "recovering", "reporting", "ended"}]
    /\ inner \in [Attempts -> Finishes]
    /\ cancelled \in [Attempts -> BOOLEAN]
    /\ tree \in [Attempts -> BOOLEAN]
    /\ updates \in [Attempts -> Seq(Updates)]
    /\ consumer \in [Attempts -> {"none", "receiving", "joining", "done"}]
    /\ journals \subseteq Attempts \cup {Prior}

Finished(error, quiescent) ==
    [kind |-> "Finished", error |-> error, quiescent |-> quiescent]

\* Start-up recovery has run: warnings leave the prior journal and block
\* reservations; a failed recovery task blocks them whatever is on disk.
Init ==
    \E blocked \in BOOLEAN :
    /\ recoveryBlocked = blocked
    /\ journals \in IF blocked THEN {{}, {Prior}} ELSE {{}}
    /\ snap = [state |-> "Disconnected", attempt |-> None, session |-> FALSE, network |-> FALSE,
               error |-> IF blocked THEN "RecoveryRequired" ELSE None]
    /\ published = snap
    /\ slot = None /\ lastOwner = None
    /\ quiescenceBlocked = FALSE /\ stopping = FALSE
    /\ run = "serving"
    /\ conn = [c \in Conns |-> "closed"]
    /\ peer = [c \in Conns |-> None]
    /\ quiesce = [c \in Conns |-> "none"] /\ guard = "free" /\ recoverers = 0
    /\ used = {}
    /\ sup = [a \in Attempts |-> "none"]
    /\ inner = [a \in Attempts |-> Finished(None, TRUE)]
    /\ cancelled = [a \in Attempts |-> FALSE]
    /\ tree = [a \in Attempts |-> FALSE]
    /\ updates = [a \in Attempts |-> <<>>]
    /\ consumer = [a \in Attempts |-> "none"]

----------------------------------------------------------------------------
(* Session                                                                 *)

\* Session::authorize: a held slot admits only its owner.
Authorized(p) == slot # None => slot.owner = p

\* Session::publish, after the snapshot took its new value.
Publish == published' = snap'

\* Fault: a running tunnel's slot is dropped at once instead of at its report.
CancelSlotDropsTunnel ==
    /\ slot' = None
    /\ snap' = [snap EXCEPT !.state = "Disconnected"]
    /\ cancelled' = IF slot # None THEN [cancelled EXCEPT ![slot.attempt] = TRUE] ELSE cancelled
    /\ Publish
    /\ UNCHANGED lastOwner

\* Session::cancel.  Before Start the reservation is dropped; after it the
\* supervisor is asked to stop and keeps the slot until it reports.
CancelSlot ==
    \/ /\ slot = None
       /\ UNCHANGED <<snap, published, slot, lastOwner, cancelled>>
    \/ /\ slot # None /\ slot.worker
       /\ cancelled' = [cancelled EXCEPT ![slot.attempt] = TRUE]
       /\ snap' = [snap EXCEPT !.state = "Disconnecting"]
       /\ Publish
       /\ UNCHANGED <<slot, lastOwner>>
    \/ /\ slot # None /\ ~slot.worker
       /\ lastOwner' = slot.owner
       /\ slot' = None
       /\ snap' = [snap EXCEPT !.state = "Disconnected"]
       /\ Publish
       /\ UNCHANGED cancelled

\* What Session::cancel never touches.
CancelUnchanged ==
    UNCHANGED <<recoveryBlocked, quiescenceBlocked, sup, inner, tree, updates, consumer, journals, used>>

----------------------------------------------------------------------------
(* Connections                                                             *)

\* accept + hello: the connection id is a fresh UUID, so not one a live
\* slot still names; the peer identity is whatever the transport observed.
Accept(c, p) ==
    /\ run = "serving" /\ conn[c] = "closed"
    /\ slot # None => slot.conn # c
    /\ conn' = [conn EXCEPT ![c] = "open"]
    /\ peer' = [peer EXCEPT ![c] = p]
    /\ UNCHANGED <<sessionVars, run, adminVars, used, tunnelVars>>

\* connection_inner reads the next request only between two replies.
Ready(c) == run # "exited" /\ conn[c] = "open" /\ quiesce[c] = "none"

\* An accepted Subscribe or Logs{follow}: the connection only sends from now on.
Follow(c) ==
    /\ Ready(c) /\ Authorized(peer[c])
    /\ conn' = [conn EXCEPT ![c] = "following"]
    /\ UNCHANGED <<sessionVars, run, peer, adminVars, used, tunnelVars>>

\* connection_inner returns: end of stream, a malformed frame, a slow
\* client, or a subscriber that lost its authorization.
Hangup(c) ==
    /\ run # "exited" /\ conn[c] \in {"open", "following"} /\ quiesce[c] = "none"
    /\ conn' = [conn EXCEPT ![c] = "closing"]
    /\ UNCHANGED <<sessionVars, run, peer, adminVars, used, tunnelVars>>

\* The attempt reserved on c has not come up yet.
Pending(c) == slot # None /\ slot.conn = c /\ snap.state \in {"Authenticating", "Connecting"}

\* The tail of connection(): a pending attempt dies with its connection.
ConnectionClosed(c) ==
    /\ run # "exited" /\ conn[c] = "closing"
    /\ conn' = [conn EXCEPT ![c] = "closed"]
    /\ peer' = [peer EXCEPT ![c] = None]
    /\ IF Pending(c)
         THEN CancelSlot
         ELSE UNCHANGED <<snap, published, slot, lastOwner, cancelled>>
    /\ CancelUnchanged
    /\ UNCHANGED <<stopping, run, adminVars>>

----------------------------------------------------------------------------
(* dispatch                                                                *)

\* What an admitted Reserve writes.
Admit(c, a) ==
    /\ a \in Attempts \ used
    /\ used' = used \cup {a}
    /\ lastOwner' = peer[c]
    /\ snap' = [state |-> "Authenticating", attempt |-> a, session |-> FALSE,
                network |-> FALSE, error |-> None]
    /\ slot' = [owner |-> peer[c], conn |-> c, attempt |-> a, worker |-> FALSE, age |-> 0]
    /\ Publish
    /\ UNCHANGED <<recoveryBlocked, quiescenceBlocked, stopping, run, connVars, adminVars, tunnelVars>>

\* Fault: a pending repair does not matter.
ReserveUnrepaired(c, a) == Ready(c) /\ ~stopping /\ slot = None /\ Admit(c, a)

\* The slot is free, the service is not going away and no repair is pending.
Reserve(c, a) ==
    /\ Ready(c)
    /\ ~stopping /\ ~recoveryBlocked /\ slot = None
    /\ Admit(c, a)

\* The reservation still stands: same attempt, same connection, live lease.
Current(c, a) ==
    slot # None /\ slot.attempt = a /\ slot.conn = c /\ slot.age < LeaseLimit

\* Start hands the authenticated session to a new supervisor and its consumer.
Start(c, a) ==
    /\ Ready(c) /\ Authorized(peer[c])
    /\ Current(c, a) /\ ~slot.worker
    /\ slot' = [slot EXCEPT !.worker = TRUE]
    /\ snap' = [snap EXCEPT !.state = "Connecting"]
    /\ Publish
    /\ sup' = [sup EXCEPT ![a] = "running"]
    /\ consumer' = [consumer EXCEPT ![a] = "receiving"]
    /\ UNCHANGED <<lastOwner, recoveryBlocked, quiescenceBlocked, stopping, run, connVars,
                   adminVars, used, inner, cancelled, tree, updates, journals>>

\* AuthProgress renews the lease; it is the only thing that does.
AuthProgress(c, a) ==
    /\ Ready(c) /\ Authorized(peer[c])
    /\ snap.state = "Authenticating" /\ Current(c, a)
    /\ slot' = [slot EXCEPT !.age = 0]
    /\ UNCHANGED <<snap, published, lastOwner, recoveryBlocked, quiescenceBlocked, stopping, run,
                   connVars, adminVars, used, tunnelVars>>

\* Cancel is scoped by attempt, not by connection.
Cancel(c, a) ==
    /\ Ready(c) /\ Authorized(peer[c])
    /\ slot # None => slot.attempt = a
    /\ CancelSlot
    /\ CancelUnchanged
    /\ UNCHANGED <<stopping, run, connVars, adminVars>>

\* Disconnect from another connection may not disturb a pending attempt.
Disconnect(c) ==
    /\ Ready(c) /\ Authorized(peer[c])
    /\ ~(/\ slot # None /\ slot.conn # c
         /\ snap.state \in {"Authenticating", "Connecting"})
    /\ CancelSlot
    /\ CancelUnchanged
    /\ UNCHANGED <<stopping, run, connVars, adminVars>>

----------------------------------------------------------------------------
(* Lease                                                                   *)

\* Time passes for the reservation's lease; once a supervisor holds the slot
\* nothing reads the lease.
ClockTick ==
    /\ run # "exited" /\ slot # None /\ ~slot.worker /\ slot.age < LeaseLimit
    /\ slot' = [slot EXCEPT !.age = @ + 1]
    /\ UNCHANGED <<snap, published, lastOwner, recoveryBlocked, quiescenceBlocked, stopping, run,
                   connVars, adminVars, used, tunnelVars>>

LeaseExpired == slot # None /\ ~slot.worker /\ slot.age >= LeaseLimit

\* lease_tick in the accept loop.
LeaseTick ==
    /\ run = "serving" /\ LeaseExpired
    /\ CancelSlot
    /\ CancelUnchanged
    /\ UNCHANGED <<stopping, run, connVars, adminVars>>

----------------------------------------------------------------------------
(* The supervisor of an attempt, as the daemon sees it                     *)

\* The worker, its helper or a descendant writes or removes the journal of
\* its own transaction; lifecycle() refuses while another journal exists.
WorkerJournals(a) ==
    /\ run # "exited" /\ tree[a] /\ journals \subseteq {a}
    /\ journals' \in {{}, {a}}
    /\ UNCHANGED <<sessionVars, run, connVars, adminVars, used, sup, inner, cancelled, tree,
                   updates, consumer>>

\* The worker process is spawned.
SupSpawn(a) ==
    /\ run # "exited" /\ sup[a] = "running" /\ ~tree[a]
    /\ tree' = [tree EXCEPT ![a] = TRUE]
    /\ UNCHANGED <<sessionVars, run, connVars, adminVars, used, sup, inner, cancelled, updates,
                   consumer, journals>>

\* An update from the worker is forwarded.
SupForward(a, kind) ==
    /\ run # "exited" /\ sup[a] = "running" /\ tree[a]
    /\ Len(updates[a]) < QueueLimit
    /\ updates' = [updates EXCEPT ![a] = Append(@, [kind |-> kind])]
    /\ UNCHANGED <<sessionVars, run, connVars, adminVars, used, sup, inner, cancelled, tree,
                   consumer, journals>>

\* supervise_inner returned and the process tree is known to be gone; it
\* never returns Ok before the spawn.
SupQuiet(a) ==
    /\ run # "exited" /\ sup[a] = "running"
    /\ \E e \in Errors \cup {None} :
        /\ e = None => tree[a]
        /\ inner' = [inner EXCEPT ![a] = Finished(e, TRUE)]
    /\ tree' = [tree EXCEPT ![a] = FALSE]
    /\ sup' = [sup EXCEPT ![a] = "recovering"]
    /\ UNCHANGED <<sessionVars, run, connVars, adminVars, used, cancelled, updates, consumer, journals>>

\* supervise_inner returned without establishing that the tree is gone.
SupUncertain(a) ==
    /\ run # "exited" /\ sup[a] = "running" /\ tree[a]
    /\ inner' = [inner EXCEPT ![a] = Finished("RecoveryRequired", FALSE)]
    /\ sup' = [sup EXCEPT ![a] = "reporting"]
    /\ UNCHANGED <<sessionVars, run, connVars, adminVars, used, cancelled, tree, updates, consumer,
                   journals>>

\* supervise: recovery of this transaction.  Without warnings the journal is
\* gone and the inner result stands; otherwise repair is required.
SupRecover(a) ==
    /\ run # "exited" /\ sup[a] = "recovering"
    /\ \/ /\ journals' = journals \ {a}
          /\ UNCHANGED inner
       \/ /\ inner' = [inner EXCEPT ![a] = Finished("RecoveryRequired", TRUE)]
          /\ journals' \in {journals, journals \ {a}}
    /\ sup' = [sup EXCEPT ![a] = "reporting"]
    /\ UNCHANGED <<sessionVars, run, connVars, adminVars, used, cancelled, tree, updates, consumer>>

\* supervise sends Finished, waiting for room in the channel, and ends.
SupReport(a) ==
    /\ run # "exited" /\ sup[a] = "reporting"
    /\ Len(updates[a]) < QueueLimit
    /\ updates' = [updates EXCEPT ![a] = Append(@, inner[a])]
    /\ inner' = [inner EXCEPT ![a] = Finished(None, TRUE)]
    /\ sup' = [sup EXCEPT ![a] = "ended"]
    /\ UNCHANGED <<sessionVars, run, connVars, adminVars, used, cancelled, tree, consumer, journals>>

\* The supervisor task dies without a report (a panic); its worker may live on.
SupPanic(a) ==
    /\ run # "exited" /\ sup[a] = "running"
    /\ sup' = [sup EXCEPT ![a] = "ended"]
    /\ UNCHANGED <<sessionVars, run, connVars, adminVars, used, inner, cancelled, tree, updates,
                   consumer, journals>>

\* The last process of a tree nobody waits for exits.
TreeExits(a) ==
    /\ run # "exited" /\ tree[a] /\ sup[a] # "running"
    /\ tree' = [tree EXCEPT ![a] = FALSE]
    /\ UNCHANGED <<sessionVars, run, connVars, adminVars, used, sup, inner, cancelled, updates,
                   consumer, journals>>

----------------------------------------------------------------------------
(* The task that consumes the updates                                      *)

\* The session ends with error e; q is whether the tree is known to be gone, b
\* whether reservations are blocked from now on.
EndSession(e, q, b) ==
    /\ slot' = None
    /\ quiescenceBlocked' = ~q
    /\ recoveryBlocked' = b
    /\ snap' = [snap EXCEPT !.network = FALSE, !.error = e,
            !.state = IF e = None THEN "Disconnected"
                      ELSE IF e = "AuthenticationRequired" THEN e ELSE "Failed"]
    /\ Publish

\* What Update::Finished writes into the session.
FinishSession(f) ==
    EndSession(f.error, f.quiescent,
               IF f.error = None THEN recoveryBlocked ELSE f.error = "RecoveryRequired")

\* Fault: an update that was under way when the user cancelled is applied.
SupersededNever(u) == FALSE

\* After a cancellation a late Connected or Reconnecting is dropped.
Superseded(u) == u.kind \in {"Connected", "Reconnecting"} /\ snap.state = "Disconnecting"

\* What the other updates write into the session.
ApplyUpdate(u) ==
    IF Superseded(u) THEN UNCHANGED <<snap, published>>
    ELSE /\ snap' = CASE u.kind = "Connected" ->
                           [snap EXCEPT !.network = TRUE, !.state = "Connected", !.session = TRUE]
                      [] u.kind = "Reconnecting" -> [snap EXCEPT !.state = "Reconnecting"]
                      [] OTHER -> snap
         /\ Publish

\* One turn of the consumer's loop.
Consume(a) ==
    /\ run # "exited" /\ consumer[a] = "receiving" /\ updates[a] # <<>>
    /\ updates' = [updates EXCEPT ![a] = Tail(@)]
    /\ LET u == Head(updates[a])
           mine == slot # None /\ slot.attempt = a
       IN IF mine /\ u.kind # "Finished"
            THEN /\ ApplyUpdate(u)
                 /\ UNCHANGED <<slot, recoveryBlocked, quiescenceBlocked, consumer>>
            ELSE /\ consumer' = [consumer EXCEPT ![a] = "joining"]
                 /\ IF mine THEN FinishSession(u)
                    ELSE UNCHANGED <<snap, published, slot, recoveryBlocked, quiescenceBlocked>>
    /\ UNCHANGED <<lastOwner, stopping, run, connVars, adminVars, used, sup, inner, cancelled, tree,
                   journals>>

\* The channel closed: the supervisor ended and nothing is buffered.
ChannelClosed(a) ==
    /\ run # "exited" /\ consumer[a] = "receiving" /\ updates[a] = <<>> /\ sup[a] = "ended"
    /\ consumer' = [consumer EXCEPT ![a] = "joining"]
    /\ UNCHANGED <<sessionVars, run, connVars, adminVars, used, sup, inner, cancelled, tree, updates,
                   journals>>

\* Fault: an attempt that was never reported keeps its slot.
UnreportedIgnored == UNCHANGED <<snap, published, slot, recoveryBlocked, quiescenceBlocked>>

\* The supervisor died without a report: nothing is known of its tree.
Unreported == EndSession("RecoveryRequired", FALSE, TRUE)

\* After supervisor.await: a slot still held by this attempt was never reported.
Join(a) ==
    /\ run # "exited" /\ consumer[a] = "joining" /\ sup[a] = "ended"
    /\ consumer' = [consumer EXCEPT ![a] = "done"]
    /\ IF slot # None /\ slot.attempt = a
         THEN Unreported
         ELSE UNCHANGED <<snap, published, slot, recoveryBlocked, quiescenceBlocked>>
    /\ UNCHANGED <<lastOwner, stopping, run, connVars, adminVars, used, sup, inner, cancelled, tree,
                   updates, journals>>

----------------------------------------------------------------------------
(* AdminQuiesce                                                            *)

\* dispatch admits root only, before it looks at the slot.
AdminQuiesce(c) ==
    /\ Ready(c) /\ peer[c] \in Roots
    /\ quiesce' = [quiesce EXCEPT ![c] = "locking"]
    /\ UNCHANGED <<sessionVars, run, connVars, guard, recoverers, used, tunnelVars>>

\* The recovery lock is obtained; then, under the state lock, stop and cancel.
QuiesceLocked(c) ==
    /\ run # "exited" /\ quiesce[c] = "locking" /\ guard = "free"
    /\ guard' = "request"
    /\ quiesce' = [quiesce EXCEPT ![c] = "draining"]
    /\ stopping' = TRUE
    /\ CancelSlot
    /\ CancelUnchanged
    /\ UNCHANGED <<run, connVars, recoverers>>

\* Fault: the recovery does not wait for the cancelled tunnel to finish.
QuiesceDrainedAtOnce(c) ==
    /\ run # "exited" /\ quiesce[c] = "draining"
    /\ quiesce' = [quiesce EXCEPT ![c] = "recovering"]
    /\ guard' = "task"
    /\ recoverers' = recoverers + 1
    /\ UNCHANGED <<sessionVars, run, connVars, used, tunnelVars>>

\* The slot is free: refuse if the last tree may live, else move the guard
\* into the blocking recovery task.
QuiesceDrained(c) ==
    /\ run # "exited" /\ quiesce[c] = "draining" /\ slot = None
    /\ IF quiescenceBlocked
         THEN /\ quiesce' = [quiesce EXCEPT ![c] = "none"]
              /\ guard' = "free"
              /\ UNCHANGED recoverers
         ELSE /\ quiesce' = [quiesce EXCEPT ![c] = "recovering"]
              /\ guard' = "task"
              /\ recoverers' = recoverers + 1
    /\ UNCHANGED <<sessionVars, run, connVars, used, tunnelVars>>

\* The blocking task ends, whether or not its request still waits: with no
\* warnings every journal is gone, otherwise some remain.
RecoveryTaskEnds ==
    /\ run # "exited" /\ recoverers > 0
    /\ recoverers' = recoverers - 1
    /\ guard' = "free"
    /\ \/ /\ journals' = {}
          /\ quiesce' = [c \in Conns |-> IF quiesce[c] = "recovering" THEN "clearing" ELSE quiesce[c]]
       \/ /\ journals' \in SUBSET journals
          /\ quiesce' = [c \in Conns |-> IF quiesce[c] = "recovering" THEN "none" ELSE quiesce[c]]
    /\ UNCHANGED <<sessionVars, run, connVars, used, sup, inner, cancelled, tree, updates, consumer>>

\* Clean recovery: the block is lifted.  This write is not published.
QuiesceClears(c) ==
    /\ run # "exited" /\ quiesce[c] = "clearing"
    /\ quiesce' = [quiesce EXCEPT ![c] = "none"]
    /\ recoveryBlocked' = FALSE
    /\ snap' = [snap EXCEPT !.error = None]
    /\ UNCHANGED <<published, slot, lastOwner, quiescenceBlocked, stopping, run, connVars, guard, recoverers,
                   used, tunnelVars>>

\* Fault: the timeout also releases the guard of the recovery task.
GuardOutlivesNothing(c) == "free"

\* A request that is dropped releases the guard unless its task owns it.
GuardAfterTimeout(c) == IF quiesce[c] = "draining" THEN "free" ELSE guard

\* A 180 second timeout drops the request; a guard it still held is released,
\* a guard it moved into the task is not.
QuiesceTimeout(c) ==
    /\ run # "exited" /\ quiesce[c] # "none"
    /\ quiesce' = [quiesce EXCEPT ![c] = "none"]
    /\ guard' = GuardAfterTimeout(c)
    /\ UNCHANGED <<sessionVars, run, connVars, recoverers, used, tunnelVars>>

----------------------------------------------------------------------------
(* Shutdown                                                                *)

\* The stop notification ends the accept loop.
Stop ==
    /\ run = "serving"
    /\ run' = "draining"
    /\ stopping' = TRUE
    /\ CancelSlot
    /\ CancelUnchanged
    /\ UNCHANGED <<connVars, adminVars>>

\* The slot is free: the connections are aborted and run_with_ready returns.
Exit ==
    /\ run = "draining" /\ slot = None
    /\ run' = "exited"
    /\ conn' = [c \in Conns |-> "closed"]
    /\ peer' = [c \in Conns |-> None]
    /\ quiesce' = [c \in Conns |-> "none"]
    /\ guard' = IF guard = "request" THEN "free" ELSE guard
    /\ UNCHANGED <<sessionVars, recoverers, used, tunnelVars>>

\* The process is gone; nothing happens any more.
Exited == run = "exited" /\ UNCHANGED vars

----------------------------------------------------------------------------
Client(c) ==
    \/ \E p \in Peers : Accept(c, p)
    \/ Follow(c)
    \/ Hangup(c)
    \/ ConnectionClosed(c)
    \/ \E a \in Attempts : Reserve(c, a)
    \/ \E a \in Attempts : Start(c, a)
    \/ \E a \in Attempts : AuthProgress(c, a)
    \/ \E a \in Attempts : Cancel(c, a)
    \/ Disconnect(c)

Admin(c) ==
    \/ AdminQuiesce(c)
    \/ QuiesceLocked(c)
    \/ QuiesceDrained(c)
    \/ QuiesceClears(c)
    \/ QuiesceTimeout(c)

Tunnel(a) ==
    \/ WorkerJournals(a)
    \/ SupSpawn(a)
    \/ \E kind \in {"Connected", "Reconnecting", "Traffic"} : SupForward(a, kind)
    \/ SupQuiet(a)
    \/ SupUncertain(a)
    \/ SupRecover(a)
    \/ SupReport(a)
    \/ SupPanic(a)
    \/ TreeExits(a)
    \/ Consume(a)
    \/ ChannelClosed(a)
    \/ Join(a)

Next ==
    \/ \E c \in Conns : Client(c) \/ Admin(c)
    \/ \E a \in Attempts : Tunnel(a)
    \/ ClockTick
    \/ LeaseTick
    \/ RecoveryTaskEnds
    \/ Stop
    \/ Exit
    \/ Exited

Spec == Init /\ [][Next]_vars

\* supervise_inner returns after a cancellation: the worker is asked to stop,
\* killed after ten seconds, and waited for at most ten more.
SupReturns(a) == cancelled[a] /\ (SupQuiet(a) \/ SupUncertain(a))

\* Tasks that are ready run, timers fire, and a cancelled supervisor returns.
\* Nothing is assumed of clients, of an uncancelled tunnel, or of a stop request.
Fairness ==
    /\ \A a \in Attempts :
        /\ WF_vars(SupReturns(a)) /\ WF_vars(SupRecover(a)) /\ WF_vars(SupReport(a))
        /\ WF_vars(Consume(a)) /\ WF_vars(ChannelClosed(a)) /\ WF_vars(Join(a))
    /\ WF_vars(ClockTick) /\ WF_vars(LeaseTick) /\ WF_vars(Exit)

FairSpec == Spec /\ Fairness

----------------------------------------------------------------------------
(* Properties                                                              *)

Live(a) == sup[a] \in {"running", "recovering", "reporting"}

\* The slot and the snapshot tell one story: a reservation is being
\* authenticated, a slot with a supervisor is on its way up, up, or on its way
\* down, a free slot shows a resting state, and an observation of the network
\* or a Connected state is shown only for the tunnel that holds the slot.
\* (Reserve, Start, Finished and the join branch of daemon.rs each write both.)
SessionConsistent ==
    /\ slot # None => lastOwner = slot.owner /\ snap.attempt = slot.attempt
    /\ (slot # None /\ ~slot.worker) <=> snap.state = "Authenticating"
    /\ (slot # None /\ slot.worker) <=>
           snap.state \in {"Connecting", "Connected", "Reconnecting", "Disconnecting"}
    /\ snap.network => slot # None /\ slot.worker
    /\ snap.state = "Connected" => snap.network /\ snap.session

\* A supervisor that still runs, recovers or has not reported belongs to the
\* slot: no new attempt is admitted before the old supervisor and its recovery
\* are finished, whatever was cancelled or disconnected meanwhile.
OneSupervisor ==
    \A a \in Attempts : Live(a) => slot # None /\ slot.worker /\ slot.attempt = a

\* Network changes left on disk are never forgotten: they belong to the tunnel
\* that holds the slot, or reservations are blocked until they are repaired.
RecoveryKnown ==
    journals # {} =>
        \/ recoveryBlocked
        \/ slot # None /\ slot.worker /\ journals = {slot.attempt}

\* Journal restoration runs alone: never two restorations at once (the
\* supervisor's, or the task of a quiesce whose request timed out), and never
\* beside a process that may still change the network.
RecoveryAlone ==
    /\ recoverers <= 1
    /\ \A a \in Attempts : sup[a] = "recovering" =>
          recoverers = 0 /\ \A b \in Attempts : ~tree[b] /\ (sup[b] = "recovering" => b = a)
    /\ recoverers > 0 => \A a \in Attempts : ~tree[a]

\* A process tree whose end was not established outlives its slot only with
\* both blocks raised, so neither Reserve nor AdminQuiesce can race it.
UncertainRemembered ==
    \A a \in Attempts :
        tree[a] /\ (slot = None \/ slot.attempt # a) => quiescenceBlocked /\ recoveryBlocked

\* What the service owes the machine, over every sequence of attempts, deaths of
\* supervisors and quiesces: changes left on disk close the service until a
\* repair, restoration runs alone, and a tree that may live is remembered.
\* (recovery_blocked, quiescence_blocked and the guard of Service.recovery.)
RecoverySafe == RecoveryKnown /\ RecoveryAlone /\ UncertainRemembered

\* A pending attempt never outlives the connection that reserved it.
NoOrphanAttempt ==
    slot # None /\ conn[slot.conn] = "closed" => snap.state \notin {"Authenticating", "Connecting"}

\* Once the service stops or is quiesced, the slot is free or its tunnel has
\* been told to stop: nothing is admitted behind the drain loop's back.
StoppingDrains ==
    stopping /\ slot # None =>
        slot.worker /\ cancelled[slot.attempt] /\ snap.state = "Disconnecting"

\* Subscribers have been sent the current snapshot; only the error a clean
\* quiesce clears, after which nothing can be reserved, is not sent again.
SubscribersCurrent ==
    /\ [published EXCEPT !.error = snap.error] = snap
    /\ ~stopping => published = snap

\* What binds the tasks of an attempt to the slot: attempt ids are not reused,
\* a supervisor has its consumer until it has reported, and the consumer of an
\* attempt listens exactly while that attempt holds the slot.
TasksBound ==
    /\ slot # None => slot.attempt \in used
    /\ \A a \in Attempts :
        /\ a \notin used => consumer[a] = "none"
        /\ consumer[a] = "none" => sup[a] = "none" /\ ~tree[a] /\ updates[a] = <<>>
        /\ consumer[a] = "receiving" => slot # None /\ slot.attempt = a /\ slot.worker
        /\ consumer[a] = "joining" => sup[a] = "ended"
        /\ Live(a) => consumer[a] = "receiving"
        /\ slot # None /\ slot.attempt = a =>
              consumer[a] \in IF slot.worker THEN {"receiving", "joining"} ELSE {"none"}

\* A report that claims quiescence is made after the tree is gone, and one
\* that does not demand repair is made after the journal is gone.
Justified(a, f) ==
    /\ f.quiescent => ~tree[a]
    /\ f.error # "RecoveryRequired" => f.quiescent /\ a \notin journals

ReportsJustified ==
    \A a \in Attempts :
        /\ sup[a] = "recovering" => ~tree[a] /\ inner[a].quiescent
        /\ sup[a] = "reporting" => Justified(a, inner[a])
        /\ \A i \in 1..Len(updates[a]) :
              updates[a][i].kind = "Finished" => sup[a] = "ended" /\ Justified(a, updates[a][i])

\* The blocks are down while the slot is held and are raised together.
BlocksOrdered ==
    /\ slot # None => ~recoveryBlocked
    /\ quiescenceBlocked => recoveryBlocked

\* One administrative recovery at a time, and only on a drained service.
QuiesceSerialized ==
    /\ recoverers <= 1
    /\ recoverers > 0 => stopping /\ slot = None /\ guard = "task" /\ ~quiescenceBlocked
    /\ \A c \in Conns :
        /\ quiesce[c] = "draining" => stopping /\ guard = "request"
        /\ quiesce[c] = "clearing" => stopping /\ slot = None /\ ~quiescenceBlocked /\ journals = {}
        /\ \A d \in Conns : quiesce[c] = "draining" /\ quiesce[d] = "draining" => c = d

\* The inductive invariant behind the safety properties above.
IInv ==
    /\ TypeOK
    /\ SessionConsistent /\ StoppingDrains /\ SubscribersCurrent /\ NoOrphanAttempt
    /\ TasksBound /\ ReportsJustified
    /\ BlocksOrdered /\ UncertainRemembered /\ RecoveryKnown
    /\ QuiesceSerialized

\* A late Connected or Reconnecting never resurrects a tunnel the user
\* cancelled: Disconnecting ends only with the slot.
CancellationSticky ==
    [][snap.state = "Disconnecting" /\ slot' # None => snap'.state = "Disconnecting"]_vars

\* An established VPN is taken down only by a request of its owner, by an
\* administrator's quiesce or by a stop; a connection that closes leaves it up.
OnlyOwnerDisconnects ==
    [][snap.state \in {"Connected", "Reconnecting"} /\ snap'.state = "Disconnecting" =>
        /\ conn' = conn
        /\ stopping' \/ \E c \in Conns : conn[c] = "open" /\ peer[c] = slot.owner]_vars

\* A tunnel goes down for a reason, and once: only its owner, a quiesce or a stop
\* starts it, and no update that was already under way takes it back.
DownOnRequest == CancellationSticky /\ OnlyOwnerDisconnects

\* The service as MachineSlot sees it.
Holder == IF slot = None THEN None ELSE slot.owner
Phase  == IF slot = None THEN "idle" ELSE IF slot.worker THEN "tunnel" ELSE "reserved"
Dirty  == journals # {} \/ \E a \in Attempts : tree[a]

\* The service implements the abstract promise of MachineSlot.
Promise == INSTANCE MachineSlot WITH
    Users   <- Peers,
    Nobody  <- None,
    holder  <- Holder,
    phase   <- Phase,
    dirty   <- Dirty,
    blocked <- recoveryBlocked

KeepsPromise == Promise!SlotSpec

\* Every supervisor is used as TunnelContract says: it is started once, and
\* nothing but itself and its tree touches its journal until it has ended and
\* its tree is gone (quiesce() recovers only on a drained service).
Contract(a) == INSTANCE TunnelContract WITH
    NoError    <- None,
    ErrorCodes <- Errors,
    sup        <- sup[a],
    report     <- inner[a],
    cancelled  <- cancelled[a],
    tree       <- tree[a],
    updates    <- updates[a],
    journal    <- a \in journals

UsesContract ==
    /\ \A a \in Attempts : Contract(a)!ContractInit
    /\ [][\A a \in Attempts : Contract(a)!ContractNext \/ UNCHANGED Contract(a)!contractVars]_vars

\* The drain loop of run_with_ready ends: a cancelled tunnel gives the slot back,
\* whether its worker obeys, has to be killed, cannot be killed, or its
\* supervisor dies.
ShutdownCompletes == (run = "draining") ~> (run = "exited")

\* A reservation that is not renewed for ever is given back or started: while
\* the service serves, the lease frees what its owner abandoned.
ReservationExpires ==
    \/ []<>(slot = None \/ slot.worker)
    \/ []<>(slot # None /\ slot.age = 0)

\* The one slot of the machine comes back: to a service that is being stopped,
\* whatever its tunnel does, and from a reservation nobody renews.
SlotReturns == ShutdownCompletes /\ ReservationExpires

=============================================================================
