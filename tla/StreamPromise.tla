--------------------------- MODULE StreamPromise ----------------------------
(***************************************************************************)
(* What a subscriber of the service's events is promised: the part of a    *)
(* stream's state that it meets, and what is true of it.  EventStream has  *)
(* the rest of the state and the steps.                                    *)
(***************************************************************************)
EXTENDS Naturals, Sequences

CONSTANT Other    \* another user

VARIABLES
    inst,       \* the instance of the service that runs
    wire,       \* frames on their way
    wanted,     \* the subscription is for "snapshots" or "logs"
    client,     \* "idle", "asked", "following" or "fetching"
    last,       \* Events::last
    shown,      \* the last snapshot next() returned, and whose session it shows
    records,    \* the log records it returned
    due         \* history: the subscriber's records since its subscription

Before(p, q) == p.inst < q.inst \/ (p.inst = q.inst /\ p.seq < q.seq)

\* What next() returns never goes back, over gaps, refetched snapshots, new
\* subscriptions and restarts of the service.
NeverBackwards == [][~Before(shown'.at, shown.at)]_shown

\* The log stream has no holes: every record of the subscriber's session since
\* the subscription, up to the last one read, was in the backlog or was
\* returned.  (The handler joins the channel before it makes the backlog.)
NoHoles ==
    client = "following" /\ wanted = "logs" /\ last # <<>> /\ last[1].inst = inst =>
        {r \in due : r <= last[1].seq} \subseteq records

\* A subscriber sees its own sessions only: no snapshot shows, no frame carries
\* and no record is of a session of another user.
OwnSessionsOnly ==
    /\ shown.owner # Other
    /\ \A i \in 1..Len(wire) : wire[i].type = "event" => wire[i].event.owner # Other

\* What a subscriber reads is complete and its own: registration before the
\* backlog closes the gap between the two, and the check of every event in the
\* stream closes the one between two sessions.
LogFaithful == NoHoles /\ OwnSessionsOnly
=============================================================================
