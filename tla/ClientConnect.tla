--------------------------- MODULE ClientConnect ---------------------------
(***************************************************************************)
(* One connection attempt of an interface (crates/client/src/connect.rs):  *)
(* the task behind Attempt, from the reservation over authentication and   *)
(* the hand-over of the session to the connected tunnel, or to a           *)
(* cancellation that is delivered and waited for.                          *)
(*                                                                         *)
(* A call can time out at any moment: the client then drops its connection *)
(* and does not know whether the service has handled, or will handle, the  *)
(* request that is on its way.  The service is the part of module Daemon   *)
(* this attempt meets; the subscription is what module EventStream shows   *)
(* of it, a subsequence of the published snapshots in their order.  The    *)
(* same user's other interfaces and other users use the service too.       *)
(***************************************************************************)
EXTENDS Naturals, Sequences, AttemptPromise

CONSTANTS
    NoOne,      \* Rust's None
    FeedLimit   \* snapshots on their way to the client (32 and more)

ASSUME FeedAssumption == FeedLimit \in Nat \ {0}

\* A connected tunnel includes one that reconnects; a failure that blocks the
\* service until a repair is a state of its own.
\* This attempt, one of the same user's other interfaces, one of another user.
Attempts == {"mine", "theirs", "foreign"}
Working  == {"Authenticating", "Connecting", "Connected", "Disconnecting"}
Resting  == {"Disconnected", "Failed", "AuthenticationRequired", "RecoveryRequired"}
Snaps    == [state : Working \cup Resting, attempt : Attempts \cup {NoOne}]
Requests == {"Reserve", "AuthProgress", "Start", "Cancel"}
Replies  == {"Accepted", "Conflict", "Busy"}
Ends     == {"Connected", "Cancelled", "Failed", "Unknown", "RecoveryRequired"}

ASSUME NoOneAssumption == NoOne \notin Attempts \cup Requests \cup Replies \cup Ends

VARIABLES
    snap,            \* the service's snapshot
    line,            \* the attempt's connection: "none", "open", "dropped", "closed"
    request, reply,  \* what is on its way on it
    late,            \* a Cancel is on its way on a connection of its own
    feed, feeding,   \* the subscription
    pc,              \* where run and reserved stand
    back,            \* where emit returns to
    stopping,        \* Control::cancelled
    auth,            \* the authentication: "none", "running", "done", "over"
    dropped, read    \* the interface dropped the Attempt; it has read the result

serviceVars == <<slot, snap, met>>
lineVars    == <<line, request, reply>>
feedVars    == <<feed, feeding>>
taskVars    == <<pc, back, auth, reported, known>>
userVars    == <<dropped, read>>
vars == <<serviceVars, lineVars, late, feedVars, taskVars, stopping, userVars>>

Waits == {"opening", "reserving", "reserved", "authenticating", "progressing", "emitting",
          "starting", "connecting", "cancelling", "confirming", "cleaning", "ended"}

TypeOK ==
    /\ slot \in Attempts \cup {NoOne} /\ snap \in Snaps
    /\ line \in {"none", "open", "dropped", "closed"}
    /\ request \in Requests \cup {NoOne} /\ reply \in Replies \cup {NoOne} /\ late \in BOOLEAN
    /\ feed \in Seq(Snaps) /\ Len(feed) <= FeedLimit /\ feeding \in BOOLEAN
    /\ pc \in Waits /\ back \in {"authenticating", "connecting"}
    /\ stopping \in BOOLEAN /\ auth \in {"none", "running", "done", "over"}
    /\ reported \in Ends \cup {NoOne} /\ (reported # NoOne <=> pc = "ended")
    /\ known \in BOOLEAN /\ met \in BOOLEAN /\ dropped \in BOOLEAN /\ read \in BOOLEAN

Init ==
    /\ slot = NoOne /\ snap = [state |-> "Disconnected", attempt |-> NoOne]
    /\ line = "none" /\ request = NoOne /\ reply = NoOne /\ late = FALSE
    /\ feed = <<>> /\ feeding = FALSE
    /\ pc = "opening" /\ back = "authenticating" /\ stopping = FALSE /\ auth = "none"
    /\ reported = NoOne /\ known = FALSE /\ met = FALSE /\ dropped = FALSE /\ read = FALSE

----------------------------------------------------------------------------
(* The service                                                             *)

Authorized == slot # "foreign"

\* The subscriber may be sent only some of what is published, in its order.
Publish(s) ==
    /\ snap' = s /\ met' = (met \/ s = [state |-> "Connected", attempt |-> "mine"])
    /\ feed' = IF ~feeding THEN feed
               ELSE IF Len(feed) = FeedLimit THEN Append(Tail(feed), s) ELSE Append(feed, s)

SlotTaken(a) == slot' = a /\ Publish([state |-> "Authenticating", attempt |-> a])
SlotFreed(s) == slot' = NoOne /\ Publish([snap EXCEPT !.state = s])

\* Session::cancel
CancelSlot ==
    IF slot = NoOne THEN UNCHANGED <<serviceVars, feed>>
    ELSE IF snap.state = "Authenticating" THEN SlotFreed("Disconnected")
    ELSE UNCHANGED slot /\ Publish([snap EXCEPT !.state = "Disconnecting"])

Answer(r) == reply' = r
Refuse(r) == Answer(r) /\ UNCHANGED <<serviceVars, feed>>

\* One request of the attempt's connection; an answer nobody waits for is lost.
Handle ==
    /\ line \in {"open", "dropped"} /\ request # NoOne /\ request' = NoOne
    /\ \/ ~Authorized /\ Refuse("Busy")
       \/ /\ Authorized /\ request = "Reserve"
          /\ IF slot = NoOne /\ snap.state # "RecoveryRequired" THEN SlotTaken("mine") /\ Answer("Accepted") ELSE Refuse("Busy")
       \/ /\ Authorized /\ request = "AuthProgress"
          /\ Refuse(IF slot = "mine" /\ snap.state = "Authenticating" THEN "Accepted" ELSE "Conflict")
       \/ /\ Authorized /\ request = "Start"
          /\ IF slot = "mine" /\ snap.state = "Authenticating"
               THEN UNCHANGED slot /\ Publish([snap EXCEPT !.state = "Connecting"]) /\ Answer("Accepted")
               ELSE Refuse("Conflict")
       \/ /\ Authorized /\ request = "Cancel"
          /\ IF slot \in {NoOne, "mine"} THEN CancelSlot /\ Answer("Accepted") ELSE Refuse("Conflict")
    /\ UNCHANGED <<line, late, feeding, taskVars, stopping, userVars>>

\* Fault: a tunnel on its way up is left alone.
LineClosesOnce ==
    /\ line = "dropped" /\ request = NoOne /\ line' = "closed" /\ reply' = NoOne
    /\ IF slot = "mine" /\ snap.state = "Authenticating"
         THEN CancelSlot ELSE UNCHANGED <<serviceVars, feed>>
    /\ UNCHANGED <<request, late, feeding, taskVars, stopping, userVars>>

\* The connection is closed: a reservation or a tunnel on its way up ends with it.
LineCloses ==
    /\ line = "dropped" /\ request = NoOne /\ line' = "closed" /\ reply' = NoOne
    /\ IF slot = "mine" /\ snap.state \in {"Authenticating", "Connecting"}
         THEN CancelSlot ELSE UNCHANGED <<serviceVars, feed>>
    /\ UNCHANGED <<request, late, feeding, taskVars, stopping, userVars>>

\* Cancel on a connection of its own.
HandleLate ==
    /\ late /\ late' = FALSE
    /\ IF slot \in {NoOne, "mine"} THEN CancelSlot ELSE UNCHANGED <<serviceVars, feed>>
    /\ UNCHANGED <<lineVars, feeding, taskVars, stopping, userVars>>

TunnelConnects ==
    /\ snap.state = "Connecting" /\ Publish([snap EXCEPT !.state = "Connected"])
    /\ UNCHANGED <<slot, lineVars, late, feeding, taskVars, stopping, userVars>>

TunnelEnds ==
    /\ snap.state \in Working \ {"Authenticating"} /\ \E s \in Resting : SlotFreed(s)
    /\ UNCHANGED <<lineVars, late, feeding, taskVars, stopping, userVars>>

LeaseExpires ==
    /\ snap.state = "Authenticating" /\ SlotFreed("Disconnected")
    /\ UNCHANGED <<lineVars, late, feeding, taskVars, stopping, userVars>>

\* The service is killed or repaired and starts again: its connections break,
\* and it has restored the network or asks for a repair (module Lifetime).
Restarts ==
    /\ slot' = NoOne /\ \E s \in {"Disconnected", "RecoveryRequired"} : snap' = [state |-> s, attempt |-> NoOne]
    /\ line' = (IF line = "none" THEN line ELSE "closed") /\ request' = NoOne /\ reply' = NoOne
    /\ late' = FALSE /\ feeding' = FALSE
    /\ UNCHANGED <<met, feed, taskVars, stopping, userVars>>

\* What others do: another reservation and its tunnel, and a Disconnect of
\* another interface, which does not touch an attempt that is on its way up.
OthersReserve ==
    /\ slot = NoOne /\ snap.state # "RecoveryRequired" /\ \E a \in {"theirs", "foreign"} : SlotTaken(a)
    /\ UNCHANGED <<lineVars, late, feeding, taskVars, stopping, userVars>>

OthersStart ==
    /\ slot \in {"theirs", "foreign"} /\ snap.state = "Authenticating"
    /\ UNCHANGED slot /\ Publish([snap EXCEPT !.state = "Connecting"])
    /\ UNCHANGED <<lineVars, late, feeding, taskVars, stopping, userVars>>

OthersDisconnect ==
    /\ slot # NoOne /\ snap.state = "Connected" /\ CancelSlot
    /\ UNCHANGED <<lineVars, late, feeding, taskVars, stopping, userVars>>

----------------------------------------------------------------------------
(* The interface                                                           *)

Cancels ==
    /\ ~stopping /\ ~read /\ stopping' = TRUE
    /\ UNCHANGED <<serviceVars, lineVars, late, feedVars, taskVars, userVars>>

\* Attempt::drop cancels.
Drops ==
    /\ ~dropped /\ ~read /\ dropped' = TRUE /\ stopping' = TRUE
    /\ UNCHANGED <<serviceVars, lineVars, late, feedVars, taskVars, read>>

\* Attempt::next returns the result.
ReadsResult ==
    /\ pc = "ended" /\ ~dropped /\ ~read /\ read' = TRUE
    /\ UNCHANGED <<serviceVars, lineVars, late, feedVars, taskVars, stopping, dropped>>

----------------------------------------------------------------------------
(* The task                                                                *)

To(p) == pc' = p /\ UNCHANGED <<back, reported>>

\* The task ends, with its connections and its subscription.
End(r) ==
    /\ pc' = "ended" /\ reported' = r /\ UNCHANGED <<back, known>>
    /\ line' = (IF line = "open" THEN "dropped" ELSE line) /\ reply' = NoOne
    /\ feeding' = FALSE /\ feed' = <<>> /\ auth' = "over" /\ stopping' = TRUE

Ask(r, p) == line = "open" /\ request' = r /\ To(p)

\* Connection::open and reserve_profile, with their checks of cancelled.
Opens ==
    /\ pc = "opening" /\ ~stopping
    /\ line' = "open" /\ request' = "Reserve" /\ To("reserving")
    /\ UNCHANGED <<serviceVars, reply, late, feedVars, auth, known, stopping, userVars>>

OpenFails ==
    /\ pc = "opening" /\ \E r \in {"Cancelled", "Failed"} : (r = "Cancelled" => stopping) /\ End(r)
    /\ UNCHANGED <<serviceVars, request, late, userVars>>

\* The answer to Reserve.
Reserved ==
    /\ pc = "reserving" /\ line = "open" /\ reply = "Accepted" /\ reply' = NoOne
    /\ known' = TRUE /\ To("reserved")
    /\ UNCHANGED <<serviceVars, line, request, late, feedVars, auth, stopping, userVars>>

NotReserved ==
    /\ pc = "reserving" /\ line = "open" /\ reply \in {"Busy", "Conflict"} /\ End("Failed")
    /\ UNCHANGED <<serviceVars, request, late, userVars>>

\* No answer in ten seconds, before the attempt id is known.
ReserveTimesOut ==
    /\ pc = "reserving" /\ End("Failed") /\ UNCHANGED <<serviceVars, request, late, userVars>>

\* reserved failed: Control::cancel, and the subscription is dropped.
Abandon ==
    /\ stopping' = TRUE /\ feeding' = FALSE /\ feed' = <<>> /\ auth' = "over"
    /\ UNCHANGED <<serviceVars, late, known, userVars>>

\* Cancel on the attempt's connection, if that can still be used.
GiveUp ==
    IF line = "open"
      THEN Ask("Cancel", "cancelling") /\ UNCHANGED <<line, reply>>
      ELSE To("confirming") /\ UNCHANGED lineVars

\* The subscription starts with the current snapshot.
Monitors ==
    /\ pc = "reserved" /\ ~stopping /\ Authorized
    /\ feeding' = TRUE /\ feed' = <<snap>> /\ auth' = "running" /\ To("authenticating")
    /\ UNCHANGED <<serviceVars, lineVars, late, known, stopping, userVars>>

\* It cannot be had, or the attempt was cancelled.
NotMonitored == pc = "reserved" /\ GiveUp /\ Abandon

\* inspect
Good(s) == s.attempt = "mine" /\ s.state \in {"Authenticating", "Connecting", "Connected"}

\* emit: into the interface's queue, with room or not.
Emit == pc' = "emitting" /\ back' = pc /\ UNCHANGED reported

Emits ==
    /\ pc = "emitting" /\ ~stopping /\ To(back)
    /\ UNCHANGED <<serviceVars, lineVars, late, feedVars, auth, known, stopping, userVars>>

\* A snapshot while authenticating or connecting.
Sees ==
    /\ pc \in {"authenticating", "connecting"} /\ ~stopping /\ feed # <<>>
    /\ Good(Head(feed)) /\ (pc = "connecting" => Head(feed).state # "Connected")
    /\ feed' = Tail(feed) /\ Emit
    /\ UNCHANGED <<serviceVars, lineVars, late, feeding, auth, known, stopping, userVars>>

Connects ==
    /\ pc = "connecting" /\ ~stopping /\ feed # <<>>
    /\ Good(Head(feed)) /\ Head(feed).state = "Connected" /\ End("Connected")
    /\ UNCHANGED <<serviceVars, request, late, userVars>>

\* Prompts and notices, and the user's replies to them.
Prompts ==
    /\ pc = "authenticating" /\ ~stopping /\ auth = "running" /\ Emit
    /\ UNCHANGED <<serviceVars, lineVars, late, feedVars, auth, known, stopping, userVars>>

Progress ==
    /\ pc = "authenticating" /\ ~stopping /\ auth = "running" /\ Ask("AuthProgress", "progressing")
    /\ UNCHANGED <<serviceVars, line, reply, late, feedVars, auth, known, stopping, userVars>>

Progressed ==
    /\ pc = "progressing" /\ line = "open" /\ reply = "Accepted" /\ reply' = NoOne /\ To("authenticating")
    /\ UNCHANGED <<serviceVars, line, request, late, feedVars, auth, known, stopping, userVars>>

\* The session is handed over; the engine is done.
Starts ==
    /\ pc = "authenticating" /\ ~stopping /\ auth = "running" /\ auth' = "done"
    /\ Ask("Start", "starting")
    /\ UNCHANGED <<serviceVars, line, reply, late, feedVars, known, stopping, userVars>>

Started ==
    /\ pc = "starting" /\ line = "open" /\ reply = "Accepted" /\ reply' = NoOne /\ To("connecting")
    /\ UNCHANGED <<serviceVars, line, request, late, feedVars, auth, known, stopping, userVars>>

\* A cancelled attempt, a snapshot that is not good, a failed authentication,
\* an interface that is gone, or a subscription that broke.
Fails ==
    /\ pc \in {"authenticating", "connecting", "emitting"}
    /\ pc = "emitting" => stopping
    /\ GiveUp /\ Abandon

\* A refused call keeps the connection.
CallRefused ==
    /\ pc \in {"progressing", "starting"} /\ line = "open" /\ reply \in {"Busy", "Conflict"}
    /\ reply' = NoOne /\ request' = "Cancel" /\ To("cancelling") /\ UNCHANGED line /\ Abandon

LineLost ==
    /\ line' = (IF line = "open" THEN "dropped" ELSE line) /\ reply' = NoOne /\ UNCHANGED request

\* A call without an answer loses it.
CallTimesOut ==
    /\ pc \in {"progressing", "starting"} /\ LineLost /\ To("confirming") /\ Abandon

\* Cancel was answered: done, not mine any more, or somebody else's slot.
CancelAnswered ==
    /\ pc = "cancelling" /\ line = "open" /\ reply # NoOne /\ reply' = NoOne /\ To("cleaning")
    /\ UNCHANGED <<serviceVars, line, request, late, feedVars, auth, known, stopping, userVars>>

CancelTimesOut ==
    /\ pc = "cancelling" /\ LineLost /\ To("confirming")
    /\ UNCHANGED <<serviceVars, late, feedVars, auth, known, stopping, userVars>>

\* Cancel on a new connection: answered, or sent and not answered, or not sent.
Confirms ==
    /\ pc = "confirming" /\ To("cleaning")
    /\ IF slot \in {NoOne, "mine"} THEN CancelSlot ELSE UNCHANGED <<serviceVars, feed>>
    /\ UNCHANGED <<lineVars, late, feeding, auth, known, stopping, userVars>>

ConfirmFails ==
    /\ pc = "confirming" /\ late' \in BOOLEAN /\ End("Unknown")
    /\ UNCHANGED <<serviceVars, request, userVars>>

\* Fault: a tunnel on its way down counts as gone.
GoneSoon(s) == s.attempt # "mine" \/ s.state \notin (Working \ {"Disconnecting"})

\* wait_for_cleanup reads a snapshot: nothing of this attempt is left.
Gone(s) == (s.attempt \notin {NoOne, "mine"}) \/ s.state \notin Working

Cleaned ==
    /\ pc = "cleaning"
    /\ \/ ~Authorized /\ \E r \in {"Cancelled", "Failed"} : End(r)
       \/ /\ Authorized /\ Gone(snap)
          /\ IF snap.attempt \in {NoOne, "mine"} /\ snap.state = "RecoveryRequired"
               THEN End("RecoveryRequired") ELSE \E r \in {"Cancelled", "Failed"} : End(r)
    /\ UNCHANGED <<serviceVars, request, late, userVars>>

\* Three minutes, or the service does not answer.
CleanupFails ==
    /\ pc = "cleaning" /\ \E r \in {"RecoveryRequired", "Unknown"} : End(r)
    /\ UNCHANGED <<serviceVars, request, late, userVars>>

\* The interface's process is killed: there is no result at all.
Dies ==
    /\ pc # "ended" /\ End("Unknown") /\ UNCHANGED <<serviceVars, request, late, userVars>>

----------------------------------------------------------------------------
Service == Handle \/ LineCloses \/ HandleLate \/ TunnelConnects \/ TunnelEnds \/ LeaseExpires
           \/ Restarts
Others  == OthersReserve \/ OthersStart \/ OthersDisconnect
Interface == Cancels \/ Drops \/ ReadsResult
Task ==
    \/ Opens \/ OpenFails \/ Reserved \/ NotReserved \/ ReserveTimesOut
    \/ Monitors \/ NotMonitored \/ Emits \/ Sees \/ Connects
    \/ Prompts \/ Progress \/ Progressed \/ Starts \/ Started
    \/ Fails \/ CallRefused \/ CallTimesOut
    \/ CancelAnswered \/ CancelTimesOut \/ Confirms \/ ConfirmFails
    \/ Cleaned \/ CleanupFails \/ Dies

Next == Service \/ Others \/ Interface \/ Task

Spec == Init /\ [][Next]_vars

\* Calls and waits have timeouts, a cancelled attempt takes its cancelled
\* branch (select! is biased), the service reads its connections and ends a
\* tunnel it has cancelled.  Nothing is assumed of the interface, the server,
\* or of other users.
Fairness ==
    /\ WF_vars(OpenFails \/ ReserveTimesOut \/ NotMonitored \/ CallTimesOut \/ CancelTimesOut
               \/ Confirms \/ ConfirmFails \/ CleanupFails)
    /\ WF_vars(Fails /\ stopping)
    /\ WF_vars(Handle) /\ WF_vars(LineCloses) /\ WF_vars(HandleLate)
    /\ WF_vars(TunnelEnds /\ snap.state = "Disconnecting")

FairSpec == Spec /\ Fairness

----------------------------------------------------------------------------
(* Properties: those of AttemptPromise, and that an attempt comes to rest  *)

\* A cancelled attempt ends, also when nobody reads its events.
AttemptEnds == stopping ~> pc = "ended"

\* No reservation and no half-made tunnel outlives its interface, even if the
\* interface never learned that it had one.
NothingPending ==
    <>[](pc = "ended") => <>[](slot = "mine" => snap.state \notin {"Authenticating", "Connecting"})

\* A cancelled attempt winds down on both sides, whoever stopped reading what:
\* the task ends, and the service keeps nothing pending for it.  (select! is
\* biased towards the cancellation; closing the line cancels at the service.)
WindsDown == AttemptEnds /\ NothingPending
=============================================================================
