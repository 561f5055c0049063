----------------------------- MODULE AuthWindow -----------------------------
(***************************************************************************)
(* The embedded sign-on window: the unprivileged helper process of the     *)
(* desktop application (apps/desktop/src-tauri/src/auth_window.rs) and its *)
(* three adapters for the system's web view (auth_window/linux.rs,         *)
(* macos.rs, windows.rs).                                                  *)
(*                                                                         *)
(* The web engine navigates whenever it likes and answers questions about  *)
(* a document later, from its own processes.  An adapter asks for the      *)
(* document, then for the cookies, and puts both with the headers of the   *)
(* response into one page for the broker: each answer, and each report of  *)
(* the engine, may belong to a navigation that is over.  Certificate       *)
(* errors are decided by the broker, whose decision may come after the     *)
(* window has moved on.                                                    *)
(*                                                                         *)
(* The broker is the client (module Browser): here it may do whatever its  *)
(* side of SignOnWindow lets it do.                                        *)
(***************************************************************************)
EXTENDS Naturals, Sequences, FiniteSets

CONSTANTS
    Platforms,     \* of {"linux", "macos", "windows"}
    Sites,         \* what is navigated to: "vpn" is the expected origin
    OutLimit,      \* messages for the broker in the window's channel, 16 in the code
    WireLimit,     \* messages for the broker on the socket
    ChallengeLimit,\* certificate questions at a time, 16 in the code and 1 on Linux
    MaxLoads, MaxChallenges  \* bounds: navigations, certificate questions

ASSUME AuthWindowAssumption ==
    /\ Platforms \subseteq {"linux", "macos", "windows"} /\ "vpn" \in Sites
    /\ OutLimit \in Nat \ {0} /\ WireLimit \in Nat \ {0} /\ ChallengeLimit \in Nat
    /\ MaxLoads \in Nat /\ MaxChallenges \in Nat

VARIABLES
    platform,
    proc,       \* "none", "starting", "hello", "open", "running", "leaving", "removing", "gone"
    renderers,  \* processes of the web engine, which use the directory too
    reason,     \* Lifetime::reason: why the window is over, "none" before
    view,       \* the adapter's state: see NewView
    engine,     \* the web engine: see NewEngine
    wire,       \* messages on their way to the broker
    orders,     \* messages of the broker on their way to the window
    directory,  \* the private profile of the web view: "none", "present"
    challenges, \* certificate questions so far
    granted,    \* certificate questions whose certificate the view now accepts
    trusted,    \* certificate questions the broker has decided for
    sent        \* navigations whose document was captured

historyVars == <<challenges, granted, trusted, sent>>
vars == <<platform, proc, renderers, reason, view, engine, wire, orders, directory,
          historyVars>>

\* State and View: one record for the three adapters.  No navigation is number 0.
\* attached is set when Ready is queued; stray is history, the kinds of reports that
\* came too late in this generation.
NewView == [attached |-> FALSE, closed |-> FALSE, closing |-> FALSE, generation |-> 0, loaded |-> FALSE,
            capturing |-> FALSE, headers |-> 0, pending |-> {}, captures |-> {}, outbox |-> <<>>, stray |-> {}]

\* The navigations, the one shown, the one of the view's address, the last that was
\* responded to; those that were responded to, committed, over, and refused for
\* their certificate; and whether the view has been told to load such a one again.
NewEngine == [loads |-> <<>>, shown |-> 0, at |-> 0, response |-> 0,
              responded |-> {}, committed |-> {}, over |-> {}, refused |-> {}, reload |-> FALSE]

Init ==
    /\ platform \in Platforms /\ proc = "none" /\ renderers = FALSE /\ reason = "none" /\ view = NewView
    /\ engine = NewEngine
    /\ wire = <<>> /\ orders = <<>> /\ directory = "none"
    /\ challenges = 0 /\ granted = {} /\ trusted = {} /\ sent = {}

Message(kind, id) == [kind |-> kind, id |-> id]
Latest(e) == Len(e.loads)
Uri(e, load) == IF load = 0 THEN "blank" ELSE e.loads[load]

----------------------------------------------------------------------------
(* The adapters: what a callback makes of the state                        *)

Room(v) == Len(v.outbox) < OutLimit
Post(v, m) == [v EXCEPT !.outbox = Append(@, m)]
Report(v) == IF Room(v) THEN Post(v, Message("Failed", 0)) ELSE v

\* fail: once; the window closes itself from the event loop later.
FailLinux(v)   == [Report(v) EXCEPT !.closed = TRUE, !.closing = TRUE, !.pending = {}]
FailWindows(v) == [Report(v) EXCEPT !.closed = TRUE, !.closing = TRUE]
FailMac(v)     == [Report(v) EXCEPT !.closed = TRUE, !.closing = TRUE, !.pending = {},
                                    !.generation = @ + 1, !.headers = 0]
Fail(v) ==
    IF v.closed THEN v
    ELSE CASE platform = "linux" -> FailLinux(v)
           [] platform = "windows" -> FailWindows(v)
           [] OTHER -> FailMac(v)

\* A full channel is a failure.
Send(v, m) == IF v.closed THEN v ELSE IF Room(v) THEN Post(v, m) ELSE Fail(v)

\* Fault: an answer is good for any navigation to the same address.
CurrentAddress(v, e, c) == ~v.closed /\ Uri(e, e.at) = c.uri /\ c.uri = "vpn"

\* An answer counts only for the navigation it was asked in.
CurrentMac(v, e, c) == ~v.closed /\ v.generation = c.generation /\ Uri(e, e.at) = c.uri /\ c.uri = "vpn"
CurrentLinux(v, e, c) == CurrentMac(v, e, c) /\ v.pending = {}
Current(v, e, c) == IF platform = "linux" THEN CurrentLinux(v, e, c) ELSE CurrentMac(v, e, c)

Capture(v, e, stage, headers) ==
    [stage |-> stage, generation |-> v.generation, load |-> e.at, uri |-> Uri(e, e.at),
     headers |-> headers, document |-> 0]
With(v, c) == [v EXCEPT !.captures = @ \cup {c}]
Without(v, c) == [v EXCEPT !.captures = @ \ {c}]

\* capture on Linux: with the document once the page is loaded, with the headers
\* alone as soon as the response is there; the headers are of the resource that has
\* answered, if it is of the address shown.
HeadersLinux(e, uri) == IF Uri(e, e.response) = uri THEN e.response ELSE 0

CaptureLinux(v, e, document) ==
    LET c == Capture(v, e, IF document THEN "script" ELSE "cookies", HeadersLinux(e, Uri(e, e.at)))
    IN  IF v.closed \/ v.capturing \/ (document /\ ~v.loaded) \/ ~CurrentLinux(v, e, c) THEN v
        ELSE IF c.headers = 0 THEN (IF document THEN FailLinux(v) ELSE v)
        ELSE With([v EXCEPT !.capturing = TRUE], c)

CaptureWindows(v, e) ==
    LET c == Capture(v, e, "script", 0)
    IN  IF v.closed \/ v.capturing \/ ~v.loaded \/ ~CurrentMac(v, e, c) THEN v
        ELSE With([v EXCEPT !.capturing = TRUE], c)

CaptureMac(v, e) ==
    LET c == Capture(v, e, "script", 0) IN IF CurrentMac(v, e, c) THEN With(v, c) ELSE v

\* A capture that is out of date makes room for the next one.  Linux has done so
\* when the navigation started; Windows starts the next one here.
DroppedLinux(v, c)   == [Without(v, c) EXCEPT !.capturing = @ /\ v.generation # c.generation]
DroppedWindows(v, e, c) == CaptureWindows([Without(v, c) EXCEPT !.capturing = FALSE], e)
Dropped(v, e, c) == CASE platform = "linux" -> DroppedLinux(v, c)
                      [] platform = "windows" -> DroppedWindows(v, e, c)
                      [] OTHER -> Without(v, c)

\* The document is there, and the cookies are asked for.
DocumentDone(v, e, c) ==
    IF ~Current(v, e, c) THEN Dropped(v, e, c)
    ELSE IF platform = "macos" /\ Uri(e, c.document) # c.uri THEN FailMac(Without(v, c))
    ELSE With(Without(v, c), [c EXCEPT !.stage = "cookies"])

\* The page: on Linux with the headers read with it, on Windows with those of the
\* navigation once, on macOS with those of the same address.
PageLinux(v, e, c)   == [kind |-> "Page", uri |-> c.uri, headers |-> c.headers, document |-> c.document, stray |-> v.stray]
PageWindows(v, e, c) == [PageLinux(v, e, c) EXCEPT !.headers = v.headers]
PageMac(v, e, c)     == [PageLinux(v, e, c) EXCEPT !.headers = IF Uri(e, v.headers) = c.uri THEN v.headers ELSE 0]

CookiesDoneLinux(v, e, c)   == Send(DroppedLinux(v, c), PageLinux(v, e, c))
CookiesDoneWindows(v, e, c) == Send([Without(v, c) EXCEPT !.capturing = FALSE, !.headers = 0], PageWindows(v, e, c))
CookiesDoneMac(v, e, c)     == CaptureMac(Send(Without(v, c), PageMac(v, e, c)), e)
CookiesDone(v, e, c) ==
    IF ~Current(v, e, c) THEN Dropped(v, e, c)
    ELSE CASE platform = "linux" -> CookiesDoneLinux(v, e, c)
           [] platform = "windows" -> CookiesDoneWindows(v, e, c)
           [] OTHER -> CookiesDoneMac(v, e, c)

\* Fault: the capture of the last page still holds its place.
StartLinuxHeld(v) == [v EXCEPT !.generation = @ + 1, !.loaded = FALSE, !.pending = {}, !.stray = {}]

\* A new navigation of the main frame.
StartLinux(v)   == [v EXCEPT !.generation = @ + 1, !.loaded = FALSE, !.capturing = FALSE, !.pending = {}, !.stray = {}]
StartWindows(v) == [v EXCEPT !.generation = @ + 1, !.loaded = FALSE, !.headers = 0, !.pending = {}, !.stray = {}]
StartMac(v)     == [v EXCEPT !.generation = @ + 1, !.headers = 0, !.pending = {}, !.stray = {}]

\* allowed: only the broker's address and https are navigated to.
Allowed(site) == site # "other"

\* The response of the main resource: Linux captures with it, if the navigation is
\* still the one under way; Windows keeps its headers if it is of the address
\* navigated to, macOS if it is of the expected origin.
Expected(e, load) == Uri(e, load) = "vpn"
RespondLinux(v, e, load) == IF load = Latest(e) THEN CaptureLinux(v, e, FALSE) ELSE v
RespondWindows(v, e, load) ==
    IF Expected(e, load) /\ Expected(e, Latest(e)) THEN CaptureWindows([v EXCEPT !.headers = load], e) ELSE v
RespondMac(v, e, load) == IF Expected(e, load) THEN [v EXCEPT !.headers = load] ELSE v

\* The end of a navigation: Windows asks whether it is the one under way.
FinishLinux(v, e)         == CaptureLinux([v EXCEPT !.loaded = @ \/ v.pending = {}], e, TRUE)
FinishWindows(v, e, load) == IF load = Latest(e) THEN CaptureWindows([v EXCEPT !.loaded = TRUE], e) ELSE v
FinishMac(v, e)           == CaptureMac(v, e)

\* Certificate errors: Linux has one question at a time, the others a few.
ChallengeLinux(v, q) == IF v.pending # {} THEN FailLinux(v) ELSE Send([v EXCEPT !.pending = {q}], Message("Certificate", q.id))
ChallengeMac(v, q) ==
    IF Cardinality(v.pending) >= ChallengeLimit THEN FailMac(v)
    ELSE Send([v EXCEPT !.pending = @ \cup {q}], Message("Certificate", q.id))
ChallengeWindows(v, q) ==
    IF Cardinality(v.pending) >= ChallengeLimit THEN FailWindows(v)
    ELSE Send([v EXCEPT !.pending = @ \cup {q}], Message("Certificate", q.id))

\* Fault: the decision is taken for whatever question is open.
DecidedAny(v, id) == IF v.closed THEN {} ELSE v.pending

\* certificate_decision: for the question it answers, if that is still open and of
\* the navigation under way.
Decided(v, id) == IF v.closed THEN {} ELSE {q \in v.pending : q.id = id /\ q.generation = v.generation}

DecideLinux(v, id, accept) ==
    LET w == [v EXCEPT !.pending = @ \ Decided(v, id)]
    IN  IF ~accept /\ Decided(v, id) # {} THEN FailLinux(w) ELSE w
DecideMac(v, id)     == [v EXCEPT !.pending = {q \in @ : q.id # id}]
DecideWindows(v, id) == [v EXCEPT !.pending = {q \in @ : q.id # id}]
Decide(v, id, accept) ==
    CASE platform = "linux" -> DecideLinux(v, id, accept)
      [] platform = "windows" -> DecideWindows(v, id)
      [] OTHER -> DecideMac(v, id)

\* attach: Ready, or the window has failed, with Failed queued for the writer.  A
\* window that has no state yet answers nothing; on Windows the state may be there.
Ready == [Post(NewView, Message("Ready", 0)) EXCEPT !.attached = TRUE]
Stateless == [Report(NewView) EXCEPT !.closed = TRUE, !.closing = TRUE]
AttachLinux   == {Ready, FailLinux(NewView)}
AttachWindows == {Ready, Stateless, [Report(NewView) EXCEPT !.closing = TRUE]}
AttachMac     == {Ready, Stateless, FailMac(NewView)}
Attached == CASE platform = "linux" -> AttachLinux
              [] platform = "windows" -> AttachWindows
              [] OTHER -> AttachMac

\* close: handlers are removed, and what they held is given up; answers that are
\* still to come find nothing.
Released(v) == [v EXCEPT !.closed = TRUE, !.closing = FALSE, !.pending = {}, !.captures = {}]
CloseLinux(v)   == Released(v)
CloseWindows(v) == [Released(v) EXCEPT !.headers = 0]
CloseMac(v)     == [Released(v) EXCEPT !.headers = 0, !.generation = @ + 1]
Closed(v) == CASE platform = "linux" -> CloseLinux(v)
               [] platform = "windows" -> CloseWindows(v)
               [] OTHER -> CloseMac(v)

----------------------------------------------------------------------------
(* The web engine (external), and the adapters' handlers                   *)

Running == proc = "running" /\ reason = "none"
\* The handlers of a view that has failed do nothing, so nothing of it is followed
\* but its messages, and nothing of its engine.
Engine(v, e) ==
    IF v.closed THEN view' = [v EXCEPT !.captures = {}, !.stray = {}] /\ engine' = NewEngine
    ELSE view' = v /\ engine' = e
engineOthers == <<platform, proc, renderers, reason, wire, orders, directory, trusted>>

\* The view has an address when the navigation begins, on macOS perhaps later, on
\* Windows when it is committed.
MovesTo(e) ==
    CASE platform = "linux" -> {Latest(e)}
      [] platform = "windows" -> {e.at}
      [] OTHER -> {e.at, Latest(e)}

\* The view is sent to the request's address when Ready is written; the page and
\* the user navigate on.
Starts ==
    /\ Running /\ view.attached /\ ~view.closed /\ Latest(engine) < MaxLoads
    /\ \E site \in Sites :
         LET e == [engine EXCEPT !.loads = Append(@, site), !.reload = FALSE]
         IN  Allowed(site) /\ \E at \in MovesTo(e) :
                 Engine(CASE platform = "linux" -> StartLinux(view)
                          [] platform = "windows" -> StartWindows(view)
                          [] OTHER -> StartMac(view), [e EXCEPT !.at = at])
    /\ \A k \in DOMAIN view.outbox : view.outbox[k].kind # "Ready"
    /\ UNCHANGED <<engineOthers, challenges, granted, sent>>

\* What is still to come of a navigation, of a superseded one too: its reports may
\* be late.  The handlers of a view that has failed do nothing.
Ongoing(load) == Running /\ ~view.closed /\ load \notin engine.over \cup engine.refused
Stray(v, kind) == [v EXCEPT !.stray = @ \cup {kind}]

Responds ==
    /\ \E load \in DOMAIN engine.loads :
         /\ Ongoing(load) /\ load \notin engine.responded
         /\ LET e == [engine EXCEPT !.responded = @ \cup {load}, !.response = IF @ < load THEN load ELSE @]
                v == IF load # Latest(e) /\ Uri(e, load) = Uri(e, Latest(e)) THEN Stray(view, "response") ELSE view
            IN  Engine(CASE platform = "linux" -> RespondLinux(v, e, load)
                         [] platform = "windows" -> RespondWindows(v, e, load)
                         [] OTHER -> RespondMac(v, e, load), e)
    /\ UNCHANGED <<engineOthers, challenges, granted, sent>>

Commits ==
    /\ \E load \in engine.responded :
         /\ Ongoing(load) /\ engine.shown < load
         /\ Engine(view, [engine EXCEPT !.shown = load, !.at = IF @ < load THEN load ELSE @, !.committed = @ \cup {load}])
    /\ UNCHANGED <<engineOthers, challenges, granted, sent>>

Finishes ==
    /\ \E load \in engine.committed :
         /\ Ongoing(load)
         /\ LET e == [engine EXCEPT !.over = @ \cup {load}]
                v == IF load # Latest(e) THEN Stray(view, "finish") ELSE view
            IN  Engine(CASE platform = "linux" -> FinishLinux(v, e)
                         [] platform = "windows" -> FinishWindows(v, e, load)
                         [] OTHER -> FinishMac(v, e), e)
    /\ UNCHANGED <<engineOthers, challenges, granted, sent>>

\* A navigation that is given up before it is committed.  On Linux its end looks the
\* same; the others do not act on it.
Fails ==
    /\ Running /\ ~view.closed /\ platform = "linux"
    /\ \E load \in DOMAIN engine.loads \ (engine.committed \cup engine.over) :
         LET e == [engine EXCEPT !.over = @ \cup {load}] IN Engine(FinishLinux(Stray(view, "failure"), e), e)
    /\ UNCHANGED <<engineOthers, challenges, granted, sent>>

\* The timer of Linux and Windows; macOS asks again after every page.
Polls ==
    /\ Running /\ ~view.closed /\ platform \in {"linux", "windows"}
    /\ Engine(IF platform = "linux" THEN CaptureLinux(view, engine, TRUE) ELSE CaptureWindows(view, engine), engine)
    /\ view' # view
    /\ UNCHANGED <<engineOthers, challenges, granted, sent>>

\* The script runs in the document that is shown then; its answer comes later.
Runs ==
    /\ Running /\ \E c \in view.captures : c.stage = "script" /\
         Engine(With(Without(view, c), [c EXCEPT !.stage = "ran", !.document = engine.shown]), engine)
    /\ UNCHANGED <<engineOthers, challenges, granted, sent>>

\* An answer of the engine, or its failure.
Answers ==
    /\ Running
    /\ \E c \in view.captures :
         \/ c.stage = "ran" /\ Engine(DocumentDone(view, engine, c), engine) /\ UNCHANGED sent
         \/ c.stage = "cookies" /\ Engine(CookiesDone(view, engine, c), engine)
            /\ sent' = IF Current(view, engine, c) THEN sent \cup ({c.document} \ {0}) ELSE sent
         \/ c.stage # "script" /\ Current(view, engine, c) /\ Engine(Fail(Without(view, c)), engine) /\ UNCHANGED sent
    /\ UNCHANGED <<engineOthers, challenges, granted>>

\* A handler that meets an error of the web view, or is told that its content
\* process is gone.
HandlerFails ==
    /\ Running /\ ~view.closed /\ Engine(Fail(view), engine)
    /\ UNCHANGED <<engineOthers, challenges, granted, sent>>

\* The question is of the navigation under way, whatever was navigated to.
Challenged ==
    /\ Running /\ ~view.closed /\ challenges < MaxChallenges /\ challenges' = challenges + 1
    /\ \E load \in DOMAIN engine.loads \ (engine.responded \cup engine.over) :
         /\ platform = "linux" => load \notin engine.refused
         /\ LET q == [id |-> challenges + 1, generation |-> view.generation, load |-> load]
            IN  Engine(CASE platform = "linux" -> ChallengeLinux(view, q)
                         [] platform = "windows" -> ChallengeWindows(view, q)
                         [] OTHER -> ChallengeMac(view, q),
                       [engine EXCEPT !.refused = @ \cup {load}])
    /\ UNCHANGED <<engineOthers, granted, sent>>

----------------------------------------------------------------------------
(* The process: open_request, run, write_messages, read_messages           *)

\* What the process knew goes with it.
Exits == proc' = "gone" /\ view' = NewView /\ engine' = NewEngine /\ orders' = <<>>

Connects ==
    /\ proc = "starting" /\ proc' = "hello"
    /\ UNCHANGED <<platform, renderers, reason, view, engine, wire, orders, directory, historyVars>>

\* The request is there, or the deadline is over; the profile must be new.
Opens ==
    /\ proc = "hello"
    /\ \/ orders # <<>> /\ Head(orders).kind = "Open" /\ orders' = Tail(orders)
          /\ directory = "none" /\ proc' = "open" /\ directory' = "present" /\ UNCHANGED <<view, engine>>
       \/ Exits /\ UNCHANGED directory
    /\ UNCHANGED <<platform, renderers, reason, wire, historyVars>>

\* A window that cannot be built is over without a word; an adapter that refuses
\* the request stops it.  What fails while the handlers are attached is a message
\* like any other, and a window that closes itself.
Attaches ==
    /\ proc = "open"
    /\ \/ proc' = "removing" /\ renderers' \in BOOLEAN /\ UNCHANGED <<reason, view>>
       \/ proc' = "leaving" /\ renderers' = TRUE /\ reason' = "failed" /\ view' = Closed(NewView)
       \/ proc' = "running" /\ renderers' = TRUE /\ view' \in Attached /\ UNCHANGED reason
    /\ UNCHANGED <<platform, engine, wire, orders, directory, historyVars>>

\* stop: the first reason counts; the view is torn down before it is destroyed.
Stop(why) == reason' = why /\ proc' = "leaving" /\ view' = Closed(view) /\ engine' = NewEngine

\* The user, and an error or the deadline of the reader or the writer.
WindowCloses ==
    /\ Running /\ \E why \in {"user", "failed"} : Stop(why)
    /\ UNCHANGED <<platform, renderers, wire, orders, directory, historyVars>>

\* The writer: Ready only after the view has been told where to go.
Writes ==
    /\ Running /\ view.outbox # <<>> /\ Len(wire) < WireLimit
    /\ wire' = Append(wire, Head(view.outbox)) /\ view' = [view EXCEPT !.outbox = Tail(@)]
    /\ UNCHANGED <<platform, proc, renderers, reason, engine, orders, directory, historyVars>>

\* The last message: a failure that is still queued goes before the reason.
LastWord ==
    LET failures == SelectSeq(view.outbox, LAMBDA m : m.kind = "Failed")
    IN  IF reason = "host" THEN <<>>
        ELSE IF failures # <<>> \/ reason = "failed" THEN <<Message("Failed", 0)>> ELSE <<Message("Closed", 0)>>

\* Fault: the window may say another last word.
LeavesAgain ==
    /\ proc = "leaving" /\ proc' \in {"leaving", "removing"}
    /\ wire' \in {wire, IF Len(wire) < WireLimit THEN wire \o LastWord ELSE wire}
    /\ view' = [view EXCEPT !.outbox = <<>>]
    /\ UNCHANGED <<platform, renderers, reason, engine, orders, directory, historyVars>>

\* A writer that has failed says nothing any more.
Leaves ==
    /\ proc = "leaving" /\ proc' = "removing"
    /\ wire' \in {wire, IF Len(wire) < WireLimit THEN wire \o LastWord ELSE wire}
    /\ view' = [view EXCEPT !.outbox = <<>>]
    /\ UNCHANGED <<platform, renderers, reason, engine, orders, directory, historyVars>>

RemovesOwn ==
    /\ proc = "removing" /\ Exits /\ directory' \in {"none", directory}
    /\ UNCHANGED <<platform, renderers, reason, wire, historyVars>>

\* The reader: a decision is handled before the next message is read.
Reads ==
    /\ Running /\ orders # <<>> /\ orders' = Tail(orders)
    /\ \/ /\ Head(orders).kind = "Close" /\ Stop("host") /\ UNCHANGED granted
       \/ /\ Head(orders).kind \in {"Accept", "Reject"}
          /\ LET id == Head(orders).id  accept == Head(orders).kind = "Accept"
                 q  == Decided(view, id)
             IN  /\ granted' = granted \cup (IF accept THEN {c.id : c \in q} ELSE {})
                 /\ Engine(Decide(view, id, accept),
                           IF platform = "linux" THEN [engine EXCEPT !.reload = @ \/ (accept /\ q # {})]
                           ELSE [engine EXCEPT !.refused = IF accept THEN @ \ {c.load : c \in q} ELSE @])
          /\ UNCHANGED <<reason, proc>>
    /\ UNCHANGED <<platform, renderers, wire, directory, challenges, trusted, sent>>

\* The helper crashes; its renderers go when they notice.
WindowCrashes ==
    /\ proc \in {"starting", "hello", "open", "running", "leaving", "removing"} /\ Exits
    /\ UNCHANGED <<platform, renderers, reason, wire, directory, historyVars>>

RenderersExit ==
    /\ renderers /\ proc = "gone" /\ renderers' = FALSE
    /\ UNCHANGED <<platform, proc, reason, view, engine, wire, orders, directory, historyVars>>

----------------------------------------------------------------------------
(* The broker (module Browser)                                             *)

BrokerStarts ==
    /\ proc = "none" /\ proc' = "starting"
    /\ UNCHANGED <<platform, renderers, reason, view, engine, wire, orders, directory, historyVars>>

\* One request, and one Close.
BrokerOrders ==
    /\ \/ proc = "hello" /\ orders = <<>> /\ orders' = <<Message("Open", 0)>>
       \/ /\ proc \in {"open", "running", "leaving", "removing"} /\ \A k \in DOMAIN orders : orders[k].kind # "Close"
          /\ orders' = Append(orders, Message("Close", 0))
    /\ UNCHANGED <<platform, proc, renderers, reason, view, engine, wire, directory, historyVars>>

BrokerHears ==
    /\ wire # <<>> /\ wire' = Tail(wire)
    /\ LET m == Head(wire)
       IN  \/ UNCHANGED <<orders, trusted>>
           \/ m.kind = "Certificate" /\ orders' = Append(orders, Message("Accept", m.id)) /\ trusted' = trusted \cup {m.id}
           \/ m.kind = "Certificate" /\ orders' = Append(orders, Message("Reject", m.id)) /\ UNCHANGED trusted
    /\ UNCHANGED <<platform, proc, renderers, reason, view, engine, directory, challenges, granted, sent>>

Broker == BrokerStarts \/ BrokerOrders \/ BrokerHears
WebEngine == Starts \/ Responds \/ Commits \/ Finishes \/ Fails \/ Challenged
Window == HandlerFails \/ Connects \/ Opens \/ Attaches \/ Writes \/ Leaves \/ RemovesOwn \/ Reads \/ Polls \/ Runs \/ Answers
            \/ WindowCloses \/ WindowCrashes \/ RenderersExit

Next == Broker \/ WebEngine \/ Window
Spec == Init /\ [][Next]_vars

\* The web engine answers what it is asked, and the timer goes on.
FairSpec == Spec /\ WF_vars(Runs \/ Answers) /\ WF_vars(Polls)

----------------------------------------------------------------------------
(* Properties                                                              *)

Pages(s) == {s[k] : k \in {j \in DOMAIN s : s[j].kind = "Page"}}

\* The late reports that an adapter keeps out: Linux asks for the generation of a
\* response, Windows for the identity of a navigation that ends, macOS for neither.
KeptOut == CASE platform = "linux" -> {"response"}
             [] platform = "windows" -> {"finish"}
             [] OTHER -> {}

\* A page that leaves the window is of the expected origin, and its headers and its
\* document are of one navigation, however late the engine answers a question about
\* an earlier one (current of the three adapters); unless the engine has reported,
\* since the last navigation began, on one that was superseded or given up, in a way
\* that the adapter does not tell from a report on the last one.
PagesWhole ==
    \A p \in Pages(view.outbox) \cup Pages(wire) :
        p.uri = "vpn" /\ (p.stray \subseteq KeptOut => p.headers = 0 \/ p.document \in {0, p.headers})

\* The view accepts a certificate only if the broker has decided so for that very
\* question, however late the decision is (browser.rs run, certificate_decision of
\* the adapters).
ExceptionsApproved == granted \subseteq trusted

\* The window keeps to its side of the connection, as the client relies on it: no
\* page and no certificate before Ready, of a window that could not be attached
\* nothing but failures, nothing after the last word, and the profile is there
\* before the view is and as long as the view (auth_window.rs run,
\* write_messages).
Phase ==
    IF proc # "running" THEN proc
    ELSE IF ~view.attached THEN "broken"
    ELSE IF \A k \in DOMAIN view.outbox : view.outbox[k].kind # "Ready" THEN "ready" ELSE "running"
Kinds(s) == [k \in DOMAIN s |-> s[k].kind]
Contract == INSTANCE SignOnWindow WITH proc <- Phase, wire <- Kinds(wire), orders <- Kinds(orders)
KeepsContract == Contract!WindowSpec

\* The document of a page that has been loaded at the expected origin is captured,
\* unless the window moves on, asks about a certificate or closes: a capture that
\* was overtaken never blocks the next one (capture of the three adapters).
CapturesGoOn ==
    \A l \in 1..MaxLoads :
        (Running /\ Latest(engine) = l /\ l \in engine.committed \cap engine.over /\ Expected(engine, l))
            ~> (l \in sent \/ Latest(engine) > l \/ ~Running \/ view.closed \/ view.pending # {} \/ engine.reload)
============================================================================
