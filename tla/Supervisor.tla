----------------------------- MODULE Supervisor -----------------------------
(***************************************************************************)
(* The supervisor of one tunnel (supervise, supervise_inner and            *)
(* terminate_worker of crates/service/src/worker.rs, with OwnedTree of     *)
(* process_tree.rs and WorkerLease of lifetime.rs on Unix).                *)
(*                                                                         *)
(* The supervisor launches the private worker, hands it the session,       *)
(* forwards its updates, stops it, and restores the network only once the  *)
(* whole tree is known to be gone.  The worker may write any frames, hang, *)
(* crash or ignore a cancellation; its helpers may leave the process group *)
(* and outlive it.  What they cannot do is close the lock they inherited:  *)
(* the lock is free exactly when none of them is alive.                    *)
(*                                                                         *)
(* Frames carry their kind and, when final, an error code.  Timers are     *)
(* steps that may happen whenever they are armed.                          *)
(***************************************************************************)
EXTENDS Naturals, Sequences

CONSTANTS
    Errors,       \* error codes; "RecoveryRequired" is one of them
    None,         \* no error, no terminal result
    PipeLimit,    \* frames the worker's output pipe holds
    ReaderLimit,  \* capacity of the reader's channel (32 in the code)
    QueueLimit    \* capacity of the update channel (32 in the code)

ASSUME ErrorAssumption == "RecoveryRequired" \in Errors /\ "Other" \in Errors /\ None \notin Errors
ASSUME LimitAssumption ==
    PipeLimit \in Nat \ {0} /\ ReaderLimit \in Nat \ {0} /\ QueueLimit \in Nat \ {0}

Kinds == {"Connected", "Reconnecting", "Traffic"}
Finished(e, q) == [kind |-> "Finished", error |-> e, quiescent |-> q]

\* What the worker writes: its own Finished never claims quiescence.
Frames == [kind : Kinds] \cup {Finished(e, FALSE) : e \in Errors \cup {None}}
Broken == [kind |-> "Broken"]    \* read_frame fails: end of file or a bad frame
Final(f) == f.kind \in {"Finished", "Broken"}
Updates == [kind : Kinds] \cup {Finished(e, q) : e \in Errors \cup {None}, q \in BOOLEAN}

VARIABLES
    pc,         \* where supervise stands
    quiescent,  \* its flag: no process of the tree can be alive
    stopping,   \* the stop deadline is armed
    terminal,   \* the result the worker delivered: a sequence of at most one error or None
    result,     \* what supervise_inner returned, as supervise reports it
    cancelled,  \* the slot's cancel channel holds, or held, a message
    asked,      \* CommandMessage::Cancel was written to the worker
    worker,     \* the worker process: "none", "alive", "exited"
    helpers,    \* some descendant that inherited the lifetime lock is alive
    pipe,       \* frames in the worker's output pipe
    reader,     \* the reader task
    rx,         \* the reader's channel
    held,       \* the update that waits for room in the update channel
    updates,    \* the update channel
    journal     \* the transaction has a journal on disk

treeVars == <<worker, helpers, journal>>
wireVars == <<pipe, reader, rx>>
vars == <<pc, quiescent, stopping, terminal, result, cancelled, asked, treeVars, wireVars, held, updates>>

TypeOK ==
    /\ pc \in {"none", "checks", "handoff", "handoff_kill", "handoff_reap", "handoff_quiet", "select",
               "forward", "kill", "reap", "quiet", "recovering", "reporting", "ended"}
    /\ quiescent \in BOOLEAN /\ stopping \in BOOLEAN /\ cancelled \in BOOLEAN /\ asked \in BOOLEAN
    /\ terminal \in {<<>>} \cup {<<e>> : e \in Errors \cup {None}}
    /\ result \in Errors \cup {None}
    /\ worker \in {"none", "alive", "exited"} /\ helpers \in BOOLEAN /\ journal \in BOOLEAN
    /\ pipe \in Seq(Frames \cup {Broken}) /\ Len(pipe) <= PipeLimit
    /\ reader \in {"none", "reading", "done"}
    /\ rx \in Seq(Frames \cup {Broken}) /\ Len(rx) <= ReaderLimit
    /\ held \in {<<>>} \cup {<<f>> : f \in [kind : Kinds]}
    /\ updates \in Seq(Updates) /\ Len(updates) <= QueueLimit

Init ==
    /\ pc = "none" /\ quiescent = TRUE /\ stopping = FALSE /\ terminal = <<>> /\ result = None
    /\ cancelled = FALSE /\ asked = FALSE
    /\ worker = "none" /\ helpers = FALSE /\ journal = FALSE
    /\ pipe = <<>> /\ reader = "none" /\ rx = <<>> /\ held = <<>> /\ updates = <<>>

----------------------------------------------------------------------------
(* The service                                                             *)

\* dispatch spawns the supervisor, may cancel it, and consumes its updates.
Spawned ==
    /\ pc = "none" /\ pc' = "checks"
    /\ UNCHANGED <<quiescent, stopping, terminal, result, cancelled, asked, treeVars, wireVars, held, updates>>

CancelSent ==
    /\ pc # "none" /\ ~cancelled /\ cancelled' = TRUE
    /\ UNCHANGED <<pc, quiescent, stopping, terminal, result, asked, treeVars, wireVars, held, updates>>

Received ==
    /\ updates # <<>> /\ updates' = Tail(updates)
    /\ UNCHANGED <<pc, quiescent, stopping, terminal, result, cancelled, asked, treeVars, wireVars, held>>

----------------------------------------------------------------------------
(* The worker's process tree                                               *)

\* Nothing follows a final frame, or one that cannot be read.
WorkerWrites(f) ==
    /\ worker = "alive" /\ pc # "handoff" /\ Len(pipe) < PipeLimit
    /\ reader # "done" /\ \A i \in 1..Len(pipe) : ~Final(pipe[i])
    /\ pipe' = Append(pipe, f)
    /\ UNCHANGED <<pc, quiescent, stopping, terminal, result, cancelled, asked, treeVars, reader, rx, held,
                   updates>>

WorkerExits ==
    /\ worker = "alive" /\ worker' = "exited"
    /\ UNCHANGED <<pc, quiescent, stopping, terminal, result, cancelled, asked, helpers, journal, wireVars,
                   held, updates>>

\* A helper is launched by the worker or by another helper, and ends.
HelperRuns ==
    /\ worker = "alive" \/ helpers
    /\ helpers' = ~helpers
    /\ UNCHANGED <<pc, quiescent, stopping, terminal, result, cancelled, asked, worker, journal, wireVars,
                   held, updates>>

\* Helpers write and remove the transaction's journal (module Journal).
HelperConfigures ==
    /\ helpers /\ journal' = ~journal
    /\ UNCHANGED <<pc, quiescent, stopping, terminal, result, cancelled, asked, worker, helpers, wireVars,
                   held, updates>>

\* flock on the worker-lifetime file through a description of its own.
LockFree == worker # "alive" /\ ~helpers

----------------------------------------------------------------------------
(* The reader task                                                         *)

\* It forwards frames until the final one, or until the pipe breaks; after
\* the worker's exit the frames left in the pipe are still read.
Reads ==
    /\ reader = "reading" /\ Len(rx) < ReaderLimit
    /\ \/ /\ pipe # <<>>
          /\ rx' = Append(rx, Head(pipe)) /\ pipe' = Tail(pipe)
          /\ reader' = IF Final(Head(pipe)) THEN "done" ELSE "reading"
       \/ /\ pipe = <<>> /\ worker = "exited"
          /\ rx' = Append(rx, Broken) /\ reader' = "done"
          /\ UNCHANGED pipe
    /\ UNCHANGED <<pc, quiescent, stopping, terminal, result, cancelled, asked, treeVars, held, updates>>

----------------------------------------------------------------------------
(* supervise_inner                                                         *)

\* Returned without an answer about the tree: supervise reports that, and
\* leaves the journal alone.  Dropping the child kills the worker itself.
Uncertain ==
    /\ pc' = "reporting" /\ quiescent' = FALSE /\ result' = "RecoveryRequired"
    /\ reader' = "done" /\ pipe' = <<>> /\ rx' = <<>>

\* The tree is gone; result e.
Settled(e) ==
    /\ pc' = "recovering" /\ quiescent' = TRUE /\ result' = e
    /\ reader' = "done" /\ pipe' = <<>> /\ rx' = <<>>

\* A check of the installation, the lease or the launch itself fails.
Refused ==
    /\ pc = "checks"
    /\ \E e \in Errors : Settled(e)
    /\ UNCHANGED <<stopping, terminal, cancelled, asked, treeVars, held, updates>>

Launched ==
    /\ pc = "checks" /\ LockFree
    /\ pc' = "handoff" /\ quiescent' = FALSE /\ worker' = "alive"
    /\ UNCHANGED <<stopping, terminal, result, cancelled, asked, helpers, journal, wireVars, held, updates>>

\* attach, stdin or stdout is missing after the launch.
AttachFails ==
    /\ pc = "handoff" /\ Uncertain
    /\ UNCHANGED <<stopping, terminal, cancelled, asked, treeVars, held, updates>>

\* The session is written to the worker within ten seconds, or it is killed.
HandedOver ==
    /\ pc = "handoff"
    /\ \/ worker = "alive" /\ pc' = "select" /\ reader' = "reading"
       \/ pc' = "handoff_kill" /\ UNCHANGED reader
    /\ UNCHANGED <<quiescent, stopping, terminal, result, cancelled, asked, treeVars, pipe, rx, held, updates>>

\* The deadline is reset and the worker is told to stop; that write may fail.
StopWorker == stopping' = TRUE /\ asked' \in {asked, TRUE}

\* select!: a message on the cancel channel.
OnCancel ==
    /\ pc = "select" /\ ~stopping /\ cancelled
    /\ StopWorker
    /\ UNCHANGED <<pc, quiescent, terminal, result, cancelled, treeVars, wireVars, held, updates>>

\* Fault: the deadline is armed only by a cancellation.
OnDeadlineUnasked ==
    /\ pc = "select" /\ stopping /\ asked
    /\ pc' = "kill"
    /\ UNCHANGED <<quiescent, stopping, terminal, result, cancelled, asked, treeVars, wireVars, held, updates>>

\* select!: ten seconds after the stop the tree is killed.
OnDeadline ==
    /\ pc = "select" /\ stopping
    /\ pc' = "kill"
    /\ UNCHANGED <<quiescent, stopping, terminal, result, cancelled, asked, treeVars, wireVars, held, updates>>

\* select!: an update, the final one, or a broken or closed channel.
OnUpdate ==
    /\ pc = "select" /\ terminal = <<>>
    /\ \/ /\ rx # <<>> /\ Head(rx).kind = "Finished"
          /\ terminal' = <<Head(rx).error>> /\ stopping' = TRUE
          /\ rx' = Tail(rx)
          /\ UNCHANGED <<pc, asked, held>>
       \/ /\ rx # <<>> /\ Head(rx).kind \in Kinds
          /\ pc' = "forward" /\ held' = <<Head(rx)>>
          /\ rx' = Tail(rx)
          /\ UNCHANGED <<terminal, stopping, asked>>
       \/ /\ IF rx = <<>> THEN reader = "done" ELSE Head(rx) = Broken
          /\ terminal' = <<"Other">> /\ StopWorker
          /\ rx' = <<>>
          /\ UNCHANGED <<pc, held>>
    /\ UNCHANGED <<quiescent, result, cancelled, treeVars, pipe, reader, updates>>

Room == Len(updates) < QueueLimit

\* updates.send(update).await: nothing else is selected meanwhile.
Forwards ==
    /\ pc = "forward" /\ Room
    /\ updates' = Append(updates, held[1]) /\ held' = <<>>
    /\ pc' = "select"
    /\ UNCHANGED <<quiescent, stopping, terminal, result, cancelled, asked, treeVars, wireVars>>

\* What the reader still delivers within a second of the exit; other updates
\* that were under way are dropped.
Drained ==
    IF terminal # <<>> THEN {terminal}
    ELSE {<<>>} \cup {<<f.error>> : f \in {g \in {rx[i] : i \in 1..Len(rx)} \cup {pipe[i] : i \in 1..Len(pipe)} :
                                              g.kind = "Finished"}}

\* select!: child.wait() returns.
OnExit ==
    /\ pc = "select" /\ worker = "exited"
    /\ \E t \in Drained :
        /\ terminal' = t
        /\ result' \in IF t = <<>> THEN {"Other"} ELSE {t[1], "Other"}
    /\ pc' = "quiet" /\ reader' = "done" /\ pipe' = <<>> /\ rx' = <<>>
    /\ UNCHANGED <<quiescent, stopping, cancelled, asked, treeVars, held, updates>>

----------------------------------------------------------------------------
(* terminate_worker and wait_quiet                                         *)

\* SIGKILL to the process group, before the leader is reaped: the leader
\* dies, and so do helpers that stayed in its group.  The signal may fail.
Kill ==
    /\ pc \in {"kill", "handoff_kill"}
    /\ \/ Uncertain /\ UNCHANGED treeVars
       \/ /\ pc' = IF pc = "kill" THEN "reap" ELSE "handoff_reap"
          /\ worker' \in {worker, "exited"} /\ helpers' \in {helpers, FALSE}
          /\ UNCHANGED <<journal, quiescent, result, wireVars>>
    /\ UNCHANGED <<stopping, terminal, cancelled, asked, held, updates>>

\* child.wait() within ten seconds.
Reap ==
    /\ pc \in {"reap", "handoff_reap"}
    /\ \/ Uncertain
       \/ /\ worker = "exited"
          /\ pc' = IF pc = "reap" THEN "quiet" ELSE "handoff_quiet"
          /\ result' = IF pc = "handoff_reap" THEN "Other"
                       ELSE IF terminal = <<>> THEN None ELSE terminal[1]
          /\ reader' = "done" /\ pipe' = <<>> /\ rx' = <<>>
          /\ UNCHANGED quiescent
    /\ UNCHANGED <<stopping, terminal, cancelled, asked, treeVars, held, updates>>

\* Fault: the end of the worker is taken for the end of its tree.
TreeQuietLeader == worker # "alive"

\* The lock can be taken: no holder of the inherited description is left.
TreeQuiet == LockFree

\* acquire(probe): the lock within thirty seconds, or nothing is established.
WaitQuiet ==
    /\ pc \in {"quiet", "handoff_quiet"}
    /\ \/ Uncertain
       \/ TreeQuiet /\ Settled(result)
    /\ UNCHANGED <<stopping, terminal, cancelled, asked, treeVars, held, updates>>

----------------------------------------------------------------------------
(* supervise                                                               *)

\* recover(transaction): without warnings the journal is gone and the result
\* stands; a warning or a failure demands repair.
Recover ==
    /\ pc = "recovering" /\ pc' = "reporting"
    /\ \/ journal' = FALSE /\ UNCHANGED result
       \/ journal' \in {journal, FALSE} /\ result' = "RecoveryRequired"
    /\ UNCHANGED <<quiescent, stopping, terminal, cancelled, asked, worker, helpers, wireVars, held, updates>>

Report ==
    /\ pc = "reporting" /\ Room
    /\ updates' = Append(updates, Finished(result, quiescent))
    /\ pc' = "ended"
    /\ UNCHANGED <<quiescent, stopping, terminal, result, cancelled, asked, treeVars, wireVars, held>>

----------------------------------------------------------------------------
Tree ==
    \/ \E f \in Frames \cup {Broken} : WorkerWrites(f)
    \/ WorkerExits \/ HelperRuns \/ HelperConfigures

Supervise ==
    \/ Refused \/ Launched \/ AttachFails \/ HandedOver
    \/ OnCancel \/ OnDeadline \/ OnUpdate \/ Forwards \/ OnExit
    \/ Kill \/ Reap \/ WaitQuiet \/ Recover \/ Report

Done == pc = "ended" /\ UNCHANGED vars

Next == Spawned \/ CancelSent \/ Received \/ Tree \/ Reads \/ Supervise \/ Done

Spec == Init /\ [][Next]_vars

\* The supervisor's own steps are taken; armed timers fire; the consumer
\* receives.  select! polls its branches in random order, so a branch that
\* stays ready between forwarded updates is taken.  Nothing is assumed of the
\* worker or of its helpers.
Fairness ==
    /\ WF_vars(Refused \/ Launched \/ AttachFails \/ HandedOver)
    /\ SF_vars(OnCancel) /\ SF_vars(OnDeadline) /\ WF_vars(Forwards)
    /\ WF_vars(Kill) /\ WF_vars(Reap) /\ WF_vars(WaitQuiet) /\ WF_vars(Recover) /\ WF_vars(Report)
    /\ WF_vars(Received)

FairSpec == Spec /\ Fairness

----------------------------------------------------------------------------
(* Properties                                                              *)

\* The supervisor as its contract sees it: where it stands, and what it will say.
Life     == IF pc \in {"none", "recovering", "reporting", "ended"} THEN pc ELSE "running"
Composed == IF pc \in {"recovering", "reporting"} THEN Finished(result, quiescent) ELSE Finished(None, TRUE)

\* The supervisor implements the contract the daemon relies on: "Uncertain live
\* descendants must never race journal restoration", so nothing but the
\* restoration touches the journal once the tree is said to be gone, although
\* helpers outlive and leave the worker's process group; a report that says
\* quiescent, or anything but RecoveryRequired, is true.
Contract == INSTANCE TunnelContract WITH
    NoError    <- None,
    ErrorCodes <- Errors,
    sup        <- Life,
    report     <- Composed,
    cancelled  <- cancelled,
    tree       <- ~quiescent,
    updates    <- updates,
    journal    <- journal

KeepsContract == Contract!ContractSpec

\* A cancelled supervisor reports, whether the worker obeys, hangs or cannot
\* be killed, and however full the channels are.
CancelReports == cancelled ~> pc = "ended"
=============================================================================
