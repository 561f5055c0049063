--------------------------- MODULE StatusPromise ----------------------------
(***************************************************************************)
(* What the service is promised of the status a private worker reports:    *)
(* the tunnel it speaks of, and what is true of the two together.  Worker  *)
(* has the rest of the state and the steps.                                *)
(***************************************************************************)
EXTENDS Naturals

VARIABLES
    native,      \* where the native thread is, or will be when its script ends
    cycle,       \* connections lost so far
    helper,      \* the helper of the running script
    configured,  \* the tunnel's network configuration is in place
    late,        \* history: a helper undid its work although its report got through
    loop,        \* the worker's loop: "select", "drain" or "ended"
    failure,     \* a helper has failed, or reports have come in a wrong order
    status       \* the last of Connected and Reconnecting it wrote, or how it ended

promised == <<native, cycle, helper, configured, late, loop, failure, status>>

\* Connected is written for the connection whose loss was announced last, with
\* what was observed after that loss and not before it.
AnnouncesCurrent ==
    [][status.kind = "Reconnecting" /\ status'.kind = "Connected" => status'.cycle = status.cycle]_promised

\* What a helper reported as failed ends the session: Connected is not written
\* any more, and the final result is an error whatever the native side says.
FailureSticks ==
    [][failure => /\ status'.kind = "Connected" => status' = status
                  /\ status'.kind = "Finished" => status'.result # "ok"]_promised

\* The tunnel is in use, and the user has been told that it is connected.
InUse == /\ status.kind = "Connected" /\ native = "up" /\ helper = "none"
         /\ status.cycle = cycle /\ loop # "ended"

\* Connected, on the connection the native side has: the configuration is in
\* place, unless a helper undid it after its report got through.
ConnectedConfigured == [][(InUse => configured \/ late)']_promised

\* What the user is told is true: Connected stands for a configured connection,
\* the one that is there, and for no connection whose helper has failed.
\* (run_channel joins network reports and native events into one status.)
HonestStatus == ConnectedConfigured /\ AnnouncesCurrent /\ FailureSticks
=============================================================================
