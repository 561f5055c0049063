--------------------------- MODULE TunnelContract ---------------------------
(***************************************************************************)
(* What the service relies on from the supervisor of one tunnel, and what  *)
(* the supervisor relies on from the service.                              *)
(*                                                                         *)
(* Supervisor (crates/service/src/worker.rs in detail) implements this     *)
(* specification, and module Daemon uses its supervisors in no other way:  *)
(* what a supervisor assumes of its surroundings (nobody else touches its  *)
(* journal before it has ended) is what the daemon is checked to provide.  *)
(***************************************************************************)
EXTENDS Naturals, Sequences

CONSTANTS NoError, ErrorCodes

VARIABLES
    sup,        \* life of the supervisor task
    report,     \* the report it is composing
    cancelled,  \* it was asked to stop
    tree,       \* a process of its tree may be alive
    updates,    \* its update channel
    journal     \* its transaction has a journal on disk

contractVars == <<sup, report, cancelled, tree, updates, journal>>

FinishedUpdate(e, q) == [kind |-> "Finished", error |-> e, quiescent |-> q]

ContractInit ==
    /\ sup = "none" /\ report = FinishedUpdate(NoError, TRUE)
    /\ cancelled = FALSE /\ tree = FALSE /\ updates = <<>> /\ journal = FALSE

\* The service starts it, asks it to stop, and receives its updates.
Started ==
    /\ sup = "none" /\ sup' = "running"
    /\ UNCHANGED <<report, cancelled, tree, updates, journal>>

Asked == cancelled' = TRUE /\ UNCHANGED <<sup, report, tree, updates, journal>>

Received ==
    /\ updates # <<>> /\ updates' = Tail(updates)
    /\ UNCHANGED <<sup, report, cancelled, tree, journal>>

\* Its processes live, configure the network, and die.
TreeStarts ==
    /\ sup = "running" /\ tree' = TRUE
    /\ UNCHANGED <<sup, report, cancelled, updates, journal>>

TreeConfigures ==
    /\ tree /\ journal' \in BOOLEAN
    /\ UNCHANGED <<sup, report, cancelled, tree, updates>>

TreeDies ==
    /\ tree /\ sup # "running" /\ tree' = FALSE
    /\ UNCHANGED <<sup, report, cancelled, updates, journal>>

Forwards ==
    /\ sup = "running" /\ tree
    /\ \E k \in {"Connected", "Reconnecting", "Traffic"} : updates' = Append(updates, [kind |-> k])
    /\ UNCHANGED <<sup, report, cancelled, tree, journal>>

\* The tree is known to be gone: now, and not earlier, the journal is restored.
Settles ==
    /\ sup = "running" /\ sup' = "recovering" /\ tree' = FALSE
    /\ \E e \in ErrorCodes \cup {NoError} : report' = FinishedUpdate(e, TRUE)
    /\ UNCHANGED <<cancelled, updates, journal>>

\* The tree may be alive: the journal is left alone.
GivesUp ==
    /\ sup = "running" /\ tree /\ sup' = "reporting"
    /\ report' = FinishedUpdate("RecoveryRequired", FALSE)
    /\ UNCHANGED <<cancelled, tree, updates, journal>>

Recovers ==
    /\ sup = "recovering" /\ sup' = "reporting"
    /\ \/ journal' = FALSE /\ UNCHANGED report
       \/ journal' \in {journal, FALSE} /\ report' = FinishedUpdate("RecoveryRequired", TRUE)
    /\ UNCHANGED <<cancelled, tree, updates>>

Reports ==
    /\ sup = "reporting" /\ sup' = "ended"
    /\ updates' = Append(updates, report) /\ report' = FinishedUpdate(NoError, TRUE)
    /\ UNCHANGED <<cancelled, tree, journal>>

Dies ==
    /\ sup = "running" /\ sup' = "ended"
    /\ UNCHANGED <<report, cancelled, tree, updates, journal>>

\* The service's own recovery, after the supervisor has ended and its tree is gone.
RepairedLater ==
    /\ sup = "ended" /\ ~tree /\ journal' = FALSE
    /\ UNCHANGED <<sup, report, cancelled, tree, updates>>

ContractNext ==
    \/ Started \/ Asked \/ Received
    \/ TreeStarts \/ TreeConfigures \/ TreeDies \/ Forwards
    \/ Settles \/ GivesUp \/ Recovers \/ Reports \/ Dies \/ RepairedLater

ContractSpec == ContractInit /\ [][ContractNext]_contractVars
=============================================================================
