--------------------------- MODULE AttemptPromise ---------------------------
(***************************************************************************)
(* What an interface is promised of an attempt to connect: how it was told *)
(* that the attempt ended, and what the service has of it.  ClientConnect  *)
(* has the rest of the state and the steps.                                *)
(***************************************************************************)

VARIABLES
    slot,       \* whose attempt is in the service's slot
    reported,   \* how the task ended, None before
    known,      \* history: the task knew its attempt id
    met         \* history: the attempt's tunnel has been connected

\* An attempt that ended cancelled or failed has left nothing in the service,
\* whatever was lost or late on the way: wait_for_cleanup has seen it gone, and
\* it does not come back.
NoLeftover == known /\ reported \in {"Cancelled", "Failed"} => slot # "mine"

\* An attempt that reports Connected had a connected tunnel of its own, and
\* not one that another interface has brought up since.
OwnTunnel == reported = "Connected" => met

\* What an attempt reports is true of the service it has talked to, over lost
\* answers, late calls and a slot that changed hands.
ResultTrue == NoLeftover /\ OwnTunnel
=============================================================================
