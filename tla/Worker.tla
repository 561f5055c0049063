------------------------------- MODULE Worker -------------------------------
(***************************************************************************)
(* The private tunnel worker: run_channel in crates/service/src/worker.rs, *)
(* the native thread of crates/engine/src/tunnel.rs, and the helper with   *)
(* its report channel (run_helper and Monitor in crates/net/src/monitor.rs).*)
(*                                                                         *)
(* libopenconnect runs the helper as its script, one at a time and without *)
(* looking at its result: pre-init and connect when the tunnel device is   *)
(* made, attempt-reconnect before every attempt to reconnect, reconnect    *)
(* and then the reconnected callback when one succeeded, disconnect at the *)
(* end.  The helper reports to the monitor task, the native thread to the  *)
(* event channel, and the worker's loop puts the two together: each turn   *)
(* takes a tick or ONE report, then ALL events.                            *)
(*                                                                         *)
(* `cycle' counts lost connections; it is in the reports as a history      *)
(* variable only, to tell which connection they are about.                 *)
(***************************************************************************)
EXTENDS Naturals, Sequences, StatusPromise

CONSTANTS
    MaxCycles,     \* connection losses
    EventLimit,    \* capacity of the event channel (32)
    ReportLimit    \* capacity of the report channel (16)

ASSUME LimitAssumption == MaxCycles \in Nat /\ EventLimit \in Nat \ {0} /\ ReportLimit \in Nat \ {0}

Reasons == {"PreInit", "Connect", "AttemptReconnect", "Reconnect", "Disconnect"}
Reports == [reason : Reasons, ok : BOOLEAN, cycle : 0..MaxCycles]
Broken  == [reason |-> "Broken", ok |-> FALSE, cycle |-> 0]   \* recv failed
Results == {"ok", "failed", "expired"}
Events  == [kind : {"Statistics"}, up : BOOLEAN] \cup [kind : {"Reconnected"}]
           \cup [kind : {"Finished"}, result : Results]

VARIABLES
    outcome,     \* what the native thread will report
    cancelled,   \* Shared::cancelled, with the command that goes with it
    asked,       \* a statistics command is in the pipe
    reason,      \* why the helper runs
    good,        \* its result
    monitor,     \* the monitor task
    stream,      \* the connection it serves or will accept: "none", "open", "dead"
    mail,        \* the report it is passing on
    reports, events,              \* the two channels
    ready, reconnecting, reconnected, observation   \* locals of the loop, with failure

nativeVars  == <<native, outcome, cycle>>
helperVars  == <<helper, reason, good, configured, late>>
monitorVars == <<monitor, stream, mail>>
localVars   == <<ready, reconnecting, reconnected, observation, failure>>
loopVars    == <<loop, localVars, status>>
vars == <<nativeVars, cancelled, asked, helperVars, monitorVars, reports, events, loopVars>>

TypeOK ==
    /\ native \in {"dialing", "made", "up", "trying", "callback", "finishing", "gone"}
    /\ outcome \in Results /\ cycle \in 0..MaxCycles
    /\ cancelled \in BOOLEAN /\ asked \in BOOLEAN
    /\ helper \in {"none", "dial", "lifecycle", "deliver", "acked", "rollback"}
    /\ reason \in Reasons /\ good \in BOOLEAN /\ configured \in BOOLEAN /\ late \in BOOLEAN
    /\ monitor \in {"accepting", "serving", "passing", "ended"}
    /\ stream \in {"none", "open", "dead"} /\ mail \in Reports \cup {Broken}
    /\ reports \in Seq(Reports \cup {Broken}) /\ Len(reports) <= ReportLimit
    /\ events \in Seq(Events) /\ Len(events) <= EventLimit
    /\ loop \in {"select", "drain", "ended"}
    /\ ready \in BOOLEAN /\ reconnecting \in BOOLEAN /\ reconnected \in BOOLEAN
    /\ observation \in {<<>>} \cup {<<n>> : n \in 0..MaxCycles} /\ failure \in BOOLEAN
    /\ status \in [kind : {"Connecting", "Connected", "Reconnecting"}, cycle : 0..MaxCycles]
                  \cup [kind : {"Finished"}, result : Results] \cup [kind : {"Killed"}]

Init ==
    /\ native = "dialing" /\ outcome = "ok" /\ cycle = 0
    /\ cancelled = FALSE /\ asked = FALSE
    /\ helper = "none" /\ reason = "PreInit" /\ good = TRUE /\ configured = FALSE /\ late = FALSE
    /\ monitor = "accepting" /\ stream = "none" /\ mail = Broken
    /\ reports = <<>> /\ events = <<>> /\ loop = "select"
    /\ ready = FALSE /\ reconnecting = FALSE /\ reconnected = FALSE /\ observation = <<>> /\ failure = FALSE
    /\ status = [kind |-> "Connecting", cycle |-> 0]

----------------------------------------------------------------------------
(* The native thread                                                       *)

\* No script is running.
Idle == helper' = "none" /\ reason' = "PreInit" /\ good' = TRUE

NativeAt(phases) == loop # "ended" /\ native \in phases /\ helper = "none"

\* The helper is launched and waited for; what comes after does not depend on it.
Script(r, next) ==
    /\ native' = next /\ helper' = "dial" /\ reason' = r
    /\ UNCHANGED <<cancelled, asked, good, configured, late, monitorVars, reports, events, loopVars>>

SetUp ==
    /\ NativeAt({"dialing"}) /\ ~cancelled
    /\ Script("PreInit", "made") /\ UNCHANGED <<outcome, cycle>>

Connects == NativeAt({"made"}) /\ Script("Connect", "up") /\ UNCHANGED <<outcome, cycle>>

\* The connection breaks; each attempt to get it back starts with the script.
Loses ==
    /\ NativeAt({"up"}) /\ cycle < MaxCycles
    /\ cycle' = cycle + 1 /\ Script("AttemptReconnect", "trying") /\ UNCHANGED outcome

\* The commands are read before every further attempt.
Retries ==
    /\ NativeAt({"trying"}) /\ ~cancelled
    /\ Script("AttemptReconnect", "trying") /\ UNCHANGED <<outcome, cycle>>

Regains == NativeAt({"trying"}) /\ Script("Reconnect", "callback") /\ UNCHANGED <<outcome, cycle>>

\* reconnected: an event that finds no room cancels the tunnel.
Callback ==
    /\ NativeAt({"callback"})
    /\ native' = "up"
    /\ IF Len(events) < EventLimit
         THEN events' = Append(events, [kind |-> "Reconnected"]) /\ UNCHANGED cancelled
         ELSE cancelled' = TRUE /\ UNCHANGED events
    /\ UNCHANGED <<outcome, cycle, asked, helperVars, monitorVars, reports, loopVars>>

\* stats, with what ocgui_tun_is_up says; dropped when there is no room.
Statistics ==
    /\ NativeAt({"dialing", "up", "trying"}) /\ asked
    /\ asked' = FALSE
    /\ events' = IF Len(events) = EventLimit THEN events
                 ELSE Append(events, [kind |-> "Statistics", up |-> native # "dialing"])
    /\ UNCHANGED <<nativeVars, cancelled, helperVars, monitorVars, reports, loopVars>>

\* The native main loop returns, by command or by itself.
Outcome == outcome' \in IF cancelled THEN {"ok"} ELSE Results

\* Dropping the Owner takes the tunnel device down: the disconnect script.
Quits ==
    /\ NativeAt({"up", "trying"}) /\ Outcome
    /\ Script("Disconnect", "finishing") /\ UNCHANGED cycle

\* Before there is a tunnel device there is nothing to disconnect.
QuitsEarly ==
    /\ NativeAt({"dialing", "made"}) /\ Outcome /\ native' = "finishing"
    /\ UNCHANGED <<cycle, cancelled, asked, helperVars, monitorVars, reports, events, loopVars>>

\* The final event is sent with a blocking send.
Finishes ==
    /\ NativeAt({"finishing"}) /\ Len(events) < EventLimit
    /\ native' = "gone" /\ events' = Append(events, [kind |-> "Finished", result |-> outcome])
    /\ outcome' = "ok"
    /\ UNCHANGED <<cycle, cancelled, asked, helperVars, monitorVars, reports, loopVars>>

----------------------------------------------------------------------------
(* The helper                                                              *)

\* Ten seconds without a hello, or nobody listens: nothing was done.
HelperRefused ==
    /\ loop # "ended" /\ helper = "dial"
    /\ Idle /\ stream' = IF monitor = "ended" THEN stream ELSE "dead"
    /\ UNCHANGED <<nativeVars, cancelled, asked, configured, late, monitor, mail, reports,
                   events, loopVars>>

\* The configuration after a lifecycle call with that result (module Journal);
\* a failed one undoes what it did, as far as it can.
Configurations(r, ok) ==
    CASE r \in {"PreInit", "AttemptReconnect"} -> {configured}
      [] r = "Disconnect" -> IF ok THEN {FALSE} ELSE {configured, FALSE}
      [] OTHER -> IF ok THEN {TRUE} ELSE {configured, FALSE}

\* Fault: a failed lifecycle call is reported as a good one.
HelperWorksSilently ==
    /\ loop # "ended" /\ helper = "lifecycle"
    /\ good' = TRUE /\ configured' \in Configurations(reason, TRUE) \cup Configurations(reason, FALSE)
    /\ helper' = IF stream = "open" THEN "deliver" ELSE "rollback"
    /\ UNCHANGED <<nativeVars, cancelled, asked, reason, late, monitorVars, reports, events, loopVars>>

\* The lifecycle call, and the report into the stream if it is still there.
HelperWorks ==
    /\ loop # "ended" /\ helper = "lifecycle"
    /\ good' \in BOOLEAN /\ configured' \in Configurations(reason, good')
    /\ helper' = IF stream = "open" THEN "deliver" ELSE "rollback"
    /\ UNCHANGED <<nativeVars, cancelled, asked, reason, late, monitorVars, reports, events, loopVars>>

HelperAcknowledged ==
    /\ loop # "ended" /\ helper = "acked" /\ Idle
    /\ UNCHANGED <<nativeVars, cancelled, asked, configured, late, monitorVars, reports,
                   events, loopVars>>

\* Ten seconds without the acknowledgement, or the stream broke.
HelperTimesOut ==
    /\ loop # "ended" /\ helper = "deliver" /\ helper' = "rollback"
    /\ UNCHANGED <<nativeVars, cancelled, asked, reason, good, configured, late, monitorVars, reports,
                   events, loopVars>>

\* recover(t), and the end of the process, which closes the stream.
HelperRollsBack ==
    /\ loop # "ended" /\ helper = "rollback" /\ Idle
    /\ configured' \in {configured, FALSE}
    /\ stream' = IF stream = "open" THEN "dead" ELSE stream
    /\ UNCHANGED <<nativeVars, cancelled, asked, late, monitor, mail, reports, events, loopVars>>

----------------------------------------------------------------------------
(* The monitor task                                                        *)

\* Connections are served in turn; hellos are exchanged.
MonitorAccepts ==
    /\ loop # "ended" /\ monitor = "accepting" /\ helper = "dial" /\ stream # "dead"
    /\ monitor' = "serving" /\ stream' = "open" /\ helper' = "lifecycle"
    /\ UNCHANGED <<nativeVars, cancelled, asked, reason, good, configured, late, mail, reports, events,
                   loopVars>>

\* The report is read and acknowledged.  The stream is open until the helper
\* ends, so this succeeds even if the helper has just given up.
MonitorReads ==
    /\ loop # "ended" /\ monitor = "serving" /\ stream = "open" /\ helper \in {"deliver", "rollback"}
    /\ mail' = [reason |-> reason, ok |-> good, cycle |-> cycle]
    /\ monitor' = "passing" /\ stream' = "none"
    /\ helper' = IF helper = "deliver" THEN "acked" ELSE helper
    /\ late' = (late \/ helper = "rollback")
    /\ UNCHANGED <<nativeVars, cancelled, asked, reason, good, configured, reports, events, loopVars>>

\* accept fails, the stream breaks, or a helper takes more than three minutes.
MonitorFails ==
    /\ loop # "ended" /\ monitor \in {"accepting", "serving"}
    /\ mail' = Broken /\ monitor' = "passing" /\ stream' = "none"
    /\ UNCHANGED <<nativeVars, cancelled, asked, helperVars, reports, events, loopVars>>

\* The report goes to the loop when there is room; an error is the last one.
MonitorPasses ==
    /\ loop # "ended" /\ monitor = "passing" /\ Len(reports) < ReportLimit
    /\ reports' = Append(reports, mail)
    /\ monitor' = (IF mail = Broken THEN "ended" ELSE "accepting") /\ mail' = Broken
    /\ UNCHANGED <<nativeVars, cancelled, asked, helperVars, stream, events, loopVars>>

----------------------------------------------------------------------------
(* The loop                                                                *)

\* Fault: the ticker fires once a session, not once a second.
TickOnce ==
    /\ loop = "select" /\ ~ready /\ loop' = "drain" /\ asked' = TRUE
    /\ UNCHANGED <<nativeVars, cancelled, helperVars, monitorVars, reports, events, localVars, status>>

Tick ==
    /\ loop = "select" /\ loop' = "drain" /\ asked' = TRUE
    /\ UNCHANGED <<nativeVars, cancelled, helperVars, monitorVars, reports, events, localVars, status>>

\* A report that ends the session.
Fails == failure' = TRUE /\ cancelled' = TRUE /\ UNCHANGED <<reconnecting, observation, status>>

\* attempt-reconnect: what was observed is no longer true.
Lost(n) ==
    /\ reconnecting' = TRUE /\ observation' = <<>>
    /\ status' = [kind |-> "Reconnecting", cycle |-> n]

TakeReport ==
    /\ loop = "select" /\ reports # <<>>
    /\ loop' = "drain" /\ reports' = Tail(reports)
    /\ LET r == Head(reports)
           expected == IF reconnecting THEN "Reconnect" ELSE "Connect"
       IN \/ ~r.ok /\ Fails
          \/ r.ok /\ r.reason \in {"Connect", "Reconnect"} \ {expected} /\ Fails
          \/ r.ok /\ r.reason = "AttemptReconnect" /\ Lost(r.cycle) /\ UNCHANGED <<failure, cancelled>>
          \/ /\ r.ok /\ r.reason = expected /\ observation' = <<r.cycle>>
             /\ UNCHANGED <<failure, cancelled, reconnecting, status>>
          \/ /\ r.ok /\ r.reason \in {"PreInit", "Disconnect"}
             /\ UNCHANGED <<failure, cancelled, reconnecting, observation, status>>
    /\ UNCHANGED <<nativeVars, asked, helperVars, monitorVars, events, ready, reconnected>>

\* failure.map_or(result, Err)
FinalResult(result) == IF failure THEN "failed" ELSE result

\* The process is gone, with its threads, its locals and its channels.
Gone ==
    /\ loop' = "ended" /\ reports' = <<>> /\ events' = <<>> /\ asked' = FALSE
    /\ monitor' = "ended" /\ stream' = "none" /\ mail' = Broken
    /\ ready' = FALSE /\ reconnecting' = FALSE /\ reconnected' = FALSE /\ observation' = <<>>
    /\ cycle' = 0 /\ outcome' = "ok" /\ late' = FALSE /\ UNCHANGED failure

\* One event.
Drain ==
    /\ loop = "drain" /\ events # <<>>
    /\ LET e == Head(events)
       IN /\ e.kind # "Finished" /\ events' = Tail(events)
          /\ ready' = IF e.kind = "Statistics" THEN e.up ELSE ready
          /\ reconnected' = (reconnected \/ e.kind = "Reconnected")
    /\ UNCHANGED <<nativeVars, cancelled, asked, helperVars, monitorVars, reports, loop,
                   reconnecting, observation, failure, status>>

\* The final event ends the worker, which waits for nothing else.
Finish ==
    /\ loop = "drain" /\ events # <<>> /\ Head(events).kind = "Finished"
    /\ Gone /\ status' = [kind |-> "Finished", result |-> FinalResult(Head(events).result)]
    /\ UNCHANGED <<native, cancelled, helper, reason, good, configured>>

\* Everything that must hold before Connected is written.
Announceable ==
    /\ status.kind # "Connected" /\ ~failure /\ ready
    /\ reconnecting => reconnected
    /\ observation # <<>>

\* The channel is empty: announce, and notice the end of the monitor.
TurnEnds ==
    /\ loop = "drain" /\ events = <<>> /\ loop' = "select"
    /\ IF Announceable
         THEN /\ status' = [kind |-> "Connected", cycle |-> observation[1]]
              /\ observation' = <<>> /\ reconnecting' = FALSE /\ reconnected' = FALSE
         ELSE UNCHANGED <<status, observation, reconnecting, reconnected>>
    /\ failure' = (failure \/ monitor = "ended")
    /\ cancelled' = (cancelled \/ (monitor = "ended" /\ ~failure))
    /\ UNCHANGED <<nativeVars, asked, helperVars, monitorVars, reports, events, ready>>

----------------------------------------------------------------------------
(* The supervisor                                                          *)

\* The input task: a Cancel frame, or the end of the supervisor.
Cancelled ==
    /\ loop # "ended" /\ ~cancelled /\ cancelled' = TRUE
    /\ UNCHANGED <<nativeVars, asked, helperVars, monitorVars, reports, events, loopVars>>

\* Ten seconds after the input task cancelled (it may also have done so after
\* somebody else), or when a frame cannot be written: the worker kills its
\* process group.
Killed ==
    /\ loop # "ended" /\ cancelled
    /\ Gone /\ status' = [kind |-> "Killed"] /\ Idle /\ native' = "gone"
    /\ UNCHANGED <<cancelled, configured>>

Ended == loop = "ended" /\ UNCHANGED vars

----------------------------------------------------------------------------
Native  == Callback \/ Statistics \/ Finishes \/ SetUp \/ Connects \/ Retries \/ Regains \/ Quits \/ QuitsEarly
Helper  == HelperWorks \/ HelperAcknowledged \/ HelperRollsBack
Monitor == MonitorAccepts \/ MonitorReads \/ MonitorPasses
Loop    == Tick \/ TakeReport \/ Drain \/ Finish \/ TurnEnds

Next ==
    \/ Native \/ Loses
    \/ Helper \/ HelperRefused \/ HelperTimesOut
    \/ Monitor \/ MonitorFails
    \/ Loop \/ Cancelled \/ Killed \/ Ended

Spec == Init /\ [][Next]_vars

\* Tasks run, the ten second timers fire, and libopenconnect sets the tunnel
\* up, answers commands and runs its callbacks.
Fairness ==
    /\ WF_vars(SetUp \/ Connects \/ QuitsEarly)
    /\ WF_vars(Callback) /\ WF_vars(Statistics) /\ WF_vars(Finishes)
    /\ WF_vars(cancelled /\ (Quits \/ QuitsEarly))
    /\ WF_vars(Helper) /\ WF_vars(HelperRefused) /\ WF_vars(HelperTimesOut)
    /\ WF_vars(Monitor) /\ WF_vars(MonitorFails /\ stream = "dead")
    /\ WF_vars(Loop)

FairSpec == Spec /\ Fairness

----------------------------------------------------------------------------
(* Properties: those of StatusPromise, and that the worker can be stopped  *)

\* A cancelled worker ends, by itself or by its kill timer: the loop, the
\* native thread, its scripts and the monitor do not wait for each other.
CancelEnds == cancelled ~> loop = "ended"
=============================================================================
