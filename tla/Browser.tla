------------------------------ MODULE Browser ------------------------------
(***************************************************************************)
(* The browser transactions of a user (crates/client/src/browser.rs with   *)
(* browser_transport.rs, browser_bootstrap.rs and globalprotect.rs), and   *)
(* what they rely on of the embedded window of one of them (SignOnWindow). *)
(*                                                                         *)
(* A task belongs to one sign-on of one of the user's interfaces.  It takes*)
(* the user's transaction lock, sends a browser to a one-shot loopback     *)
(* page, and waits for a completion: from the embedded window, from the    *)
(* callback receiver that the system starts, or pasted by the user.  A     *)
(* completion from outside is entered in a ledger that all processes share *)
(* and submitted when the user has confirmed its account.                  *)
(***************************************************************************)
EXTENDS SignOnWindow, FiniteSets

CONSTANTS
    None,
    Tasks,
    Scenarios,      \* for each platform, what the tasks may be for: mode, kind, protocol, allowed, pins; None is no task
    Cookies,        \* completions of the identity provider
    LedgerLimit,    \* 256 in the code
    OrderLimit,     \* messages for the window on the socket
    NoticeLimit,    \* prompts the interface has not read, 16 in the code
    MaxDays,        \* bound: days, after which entries of the ledger expire
    MaxCommands     \* bound for each task: commands of the user and callbacks

ASSUME BrowserAssumption ==
    /\ LedgerLimit \in Nat \ {0} /\ OrderLimit \in Nat \ {0} /\ NoticeLimit \in Nat \ {0}
    /\ MaxDays \in Nat /\ MaxCommands \in [Tasks -> Nat]

\* BrowserRequest, with what the profile says of the browser.
Requests == [mode : {"Auto", "System", "Embedded", "Manual"}, kind : {"Webview", "External"},
             protocol : STRING, allowed : BOOLEAN, pins : BOOLEAN]

Mode(r) ==
    IF r.mode # "Auto" THEN r.mode
    ELSE IF r.kind = "External" \/ (r.protocol = "gp" /\ r.allowed) THEN "System" ELSE "Embedded"

\* A completion that waits for its confirmation, an entry of the ledger, and what
\* was read of the ledger.
Completions == [cookie : Cookies, day : Nat]
Entries == [cookie : Cookies, expires : Nat]
Claims == [cookie : Cookies, day : Nat, records : SUBSET Entries]

\* The state has one window, so that one of the tasks may have it.
ASSUME ScenarioAssumption ==
    \A p \in Platforms : \A r \in Scenarios[p] :
        /\ r \in [Tasks -> Requests \cup {None}]
        /\ \A t, u \in Tasks : r[t] # None /\ r[u] # None /\ Mode(r[t]) = "Embedded" /\ Mode(r[u]) = "Embedded" => t = u

ASSUME NoneAssumption == None \notin {"Embedded"} \cup Tasks \cup Cookies \cup Completions \cup Claims /\ "Stage" \notin Cookies

VARIABLES
    request,      \* each task's request
    lock,         \* browser.lock: the task that has it
    task,         \* each task's state: see NewTask
    link,         \* the embedded window's connection: "none", "open", "closed"
    killed,       \* the window's process group has been killed
    ledger, now,  \* consumed-callbacks.json, and the day
    confirmed, submitted   \* history

taskVars    == <<request, lock, task, link, killed>>
ledgerVars  == <<ledger, now>>
historyVars == <<confirmed, submitted>>
vars == <<windowVars, taskVars, ledgerVars, historyVars>>

\* Flow, and the channels of a task.
NewTask == [step |-> "idle", mode |-> None, stop |-> FALSE, result |-> None, launch |-> FALSE,
            opened |-> FALSE, pending |-> None, done |-> FALSE, notices |-> <<>>, seen |-> None,
            commands |-> <<>>, orders |-> 0, claim |-> None, over |-> FALSE]

Init ==
    /\ WindowInit
    /\ request \in Scenarios[platform]
    /\ lock = None /\ task = [t \in Tasks |-> NewTask] /\ link = "none" /\ killed = FALSE
    /\ ledger = {} /\ now = 0 /\ confirmed = {} /\ submitted = {}

Set(t, new) == task' = [task EXCEPT ![t] = new]
Embedded(t) == task[t].mode = "Embedded"

----------------------------------------------------------------------------
(* Starting: UserListener::bind, the mode, the bootstrap, the browser      *)

LockFree == lock = None

\* A prompt the interface does not take is an error.
Prompts(s, notice) == [s EXCEPT !.notices = Append(@, notice)]
Listens(s) == Len(s.notices) < NoticeLimit

\* The loop is over, and the thread: what they held is dropped.
Over(t, step, result) ==
    [NewTask EXCEPT !.step = step, !.result = result, !.mode = task[t].mode, !.stop = task[t].stop, !.over = task[t].over]
Cleans(t, result) == Over(t, "closing", result)

\* An error nobody asked for cancels the library's flow.
Ends(t, result) ==
    [Over(t, "ended", result) EXCEPT !.stop = TRUE, !.over = @ \/ (result # "Stopped" /\ ~task[t].stop)]

Binds(t) ==
    /\ task[t].step = "idle" /\ request[t] # None
    /\ \/ LockFree /\ lock' = t /\ Set(t, [task[t] EXCEPT !.step = "binding", !.mode = Mode(request[t])])
       \/ Set(t, Ends(t, "Failed")) /\ UNCHANGED lock
    /\ UNCHANGED <<windowVars, request, link, killed, ledgerVars, historyVars>>

\* An embedded view cannot enforce pins; a system browser needs the callback
\* receiver.  The embedded window is a process of its own, the system's browser is
\* started from a task of this one, and a manual sign-on is open at once.
Prepares(t) ==
    /\ task[t].step = "binding"
    /\ \/ /\ Set(t, Ends(t, "Failed")) /\ lock' = None
          /\ \/ UNCHANGED proc
             \/ Embedded(t) /\ platform = "windows" /\ proc = "none" /\ proc' = "gone"
       \/ /\ ~(Embedded(t) /\ request[t].pins) /\ UNCHANGED lock
          /\ IF Embedded(t) THEN proc = "none" /\ proc' = "starting" ELSE UNCHANGED proc
          /\ LET s == Prompts([task[t] EXCEPT !.step = "serving", !.launch = task[t].mode = "System"], "Stage")
             IN  Set(t, IF task[t].mode = "Manual" THEN Prompts([s EXCEPT !.opened = TRUE], "Stage") ELSE s)
    /\ UNCHANGED <<platform, renderers, wire, orders, directory, request, link, killed, ledgerVars, historyVars>>

----------------------------------------------------------------------------
(* The loop                                                                *)

\* The task's next event, unless the interface has closed it.
Serving(t) == task[t].step = "serving" /\ task[t].claim = None
Waits(t) == Serving(t) /\ ~task[t].stop

Stopped(t) ==
    /\ Serving(t) /\ task[t].stop /\ Set(t, Cleans(t, "Stopped"))
    /\ UNCHANGED <<windowVars, request, lock, link, killed, ledgerVars, historyVars>>

\* Five minutes, a loopback page or a browser that cannot be served, a helper that
\* has gone without a word.
Expires(t) ==
    /\ Waits(t) /\ Set(t, Cleans(t, "Failed"))
    /\ UNCHANGED <<windowVars, request, lock, link, killed, ledgerVars, historyVars>>

\* opened: an external browser's library flow is told, and the interface.
Opened(t, s) ==
    IF (request[t].kind = "External" /\ ~s.opened /\ s.over) \/ ~Listens(s) THEN Cleans(t, "Failed")
    ELSE Prompts([s EXCEPT !.opened = TRUE], "Stage")

Launched(t) ==
    /\ Waits(t) /\ task[t].launch /\ Set(t, Opened(t, [task[t] EXCEPT !.launch = FALSE]))
    /\ UNCHANGED <<windowVars, request, lock, link, killed, ledgerVars, historyVars>>

\* Fault: a second completion replaces one that waits for its confirmation.
RefusesCallbackDone(t) ==
    \/ request[t].protocol # "gp" \/ request[t].kind # "Webview" \/ Embedded(t) \/ task[t].done

\* callback: completions from outside are for a GlobalProtect sign-on that has none.
RefusesCallback(t) ==
    \/ request[t].protocol # "gp" \/ request[t].kind # "Webview" \/ Embedded(t)
    \/ task[t].pending # None \/ task[t].done

\* Fault: an entry expires a day early.
LiveBriefly == {r \in ledger : r.expires > now + 1}

\* claim_completion: the ledger is read, and written anew with the completion's
\* digest; entries are dropped after a day.
Live == {r \in ledger : r.expires > now}

ClaimReads(t, s, cookie) ==
    IF \E r \in Live : r.cookie = cookie THEN s
    ELSE IF Cardinality(Live) >= LedgerLimit THEN s
    ELSE [s EXCEPT !.claim = [cookie |-> cookie, day |-> now, records |-> Live]]

\* What a callback's address, and a page, may turn out to be: nothing of
\* GlobalProtect's, malformed, or a completion.
Decoded(cookie) == {"malformed", cookie}
Parsed == {"nothing", "malformed"} \cup Cookies

\* callback: what is malformed or consumed changes nothing.
Callbacks(t, s, cookie) ==
    IF RefusesCallback(t) THEN {s}
    ELSE {IF c = "malformed" THEN s ELSE ClaimReads(t, s, c) : c \in Decoded(cookie)}

\* A completion that cannot be shown afterwards is used up all the same.
ClaimWrites(t) ==
    /\ task[t].claim # None
    /\ LET c == task[t].claim
           s == [task[t] EXCEPT !.claim = None]
       IN  \/ /\ ledger' = c.records \cup {[cookie |-> c.cookie, expires |-> c.day + 1]}
              /\ Set(t, IF Listens(s) THEN Prompts([s EXCEPT !.pending = [cookie |-> c.cookie, day |-> c.day]], c.cookie) ELSE s)
           \/ Set(t, s) /\ UNCHANGED ledger
    /\ UNCHANGED <<windowVars, request, lock, link, killed, now, historyVars>>

\* The user pastes a callback, or answers the prompt the interface shows.
UserCommands(t) ==
    /\ task[t].step = "serving" /\ ~task[t].stop /\ task[t].orders < MaxCommands[t]
    /\ \E c \in [kind : {"callback"}, cookie : Cookies, accept : {TRUE}] \cup
                [kind : {"confirm"}, cookie : {task[t].seen} \ {None}, accept : BOOLEAN] :
         Set(t, [task[t] EXCEPT !.commands = Append(@, c), !.orders = @ + 1])
    /\ UNCHANGED <<windowVars, request, lock, link, killed, ledgerVars, historyVars>>

UserReads(t) ==
    /\ task[t].notices # <<>>
    /\ LET n == Head(task[t].notices)
       IN  Set(t, [task[t] EXCEPT !.notices = Tail(@), !.seen = IF n \in Cookies THEN n ELSE @])
    /\ UNCHANGED <<windowVars, request, lock, link, killed, ledgerVars, historyVars>>

\* confirm: the completion is taken first; a refusal cancels the whole sign-on.
Confirms(t, s, c) ==
    /\ \/ s.pending = None /\ Set(t, s) /\ UNCHANGED <<confirmed, submitted>>
       \/ s.pending # None /\ ~c.accept /\ Set(t, [Cleans(t, "Failed") EXCEPT !.over = TRUE])
          /\ UNCHANGED <<confirmed, submitted>>
       \/ /\ s.pending # None /\ c.accept /\ confirmed' = confirmed \cup {[task |-> t, cookie |-> c.cookie]}
          /\ IF s.over THEN Set(t, [s EXCEPT !.pending = None]) /\ UNCHANGED submitted
             ELSE /\ submitted' = submitted \cup {[task |-> t, cookie |-> s.pending.cookie, day |-> s.pending.day, outside |-> ~Embedded(t)]}
                  /\ LET done == [s EXCEPT !.pending = None, !.done = TRUE]
                     IN  Set(t, IF Listens(done) THEN Prompts(done, "Stage") ELSE done)

Commanded(t) ==
    /\ Waits(t) /\ task[t].commands # <<>>
    /\ LET c == Head(task[t].commands)
           s == [task[t] EXCEPT !.commands = Tail(@)]
       IN  IF c.kind = "confirm" THEN Confirms(t, s, c)
           ELSE task' \in {[task EXCEPT ![t] = new] : new \in Callbacks(t, s, c.cookie)} /\ UNCHANGED <<confirmed, submitted>>
    /\ UNCHANGED <<windowVars, request, lock, link, killed, ledgerVars>>

\* A peer of the user, with seconds to say what it is, is the callback receiver.
PeerCalls(t) ==
    /\ Waits(t) /\ ~RefusesCallback(t) /\ task[t].orders < MaxCommands[t]
    /\ \E new \in UNION {Callbacks(t, [task[t] EXCEPT !.orders = @ + 1], c) : c \in Cookies} : Set(t, new)
    /\ UNCHANGED <<windowVars, request, lock, link, killed, ledgerVars, historyVars>>

\* The window this task has started: its own process, once.
PeerOpens(t) ==
    /\ Waits(t) /\ Embedded(t) /\ proc = "hello" /\ link = "none" /\ link' = "open" /\ Orders("Open")
    /\ UNCHANGED <<request, lock, task, killed, ledgerVars, historyVars>>

\* page: a GlobalProtect page may hold a completion, which is confirmed; other
\* pages go to the library, whose queue may be full.
PageArrives(t) ==
    LET s == task[t]
    IN  \/ (request[t].kind = "External" \/ s.pending # None \/ s.done) /\ Set(t, s)
        \/ /\ ~(request[t].kind = "External" \/ s.pending # None \/ s.done)
           /\ IF request[t].protocol # "gp" THEN Set(t, s) \/ Set(t, Cleans(t, "Failed"))
              ELSE \E found \in Parsed :
                        Set(t, IF found = "nothing" THEN s
                               ELSE IF found = "malformed" \/ ~Listens(s) THEN Cleans(t, "Failed")
                               ELSE Prompts([s EXCEPT !.pending = [cookie |-> found, day |-> now]], found))

\* What the engine may find of a certificate chain.
Verdicts == {"Accept", "Reject"}

\* The window's next message.  A certificate is accepted if the engine finds its
\* chain trusted; a refusal, and a window that does not read, ends the sign-on.
WindowSays(t) ==
    /\ Waits(t) /\ Embedded(t) /\ link = "open" /\ wire # <<>> /\ wire' = Tail(wire)
    /\ LET kind == Head(wire)
       IN  \/ kind = "Ready" /\ Set(t, Opened(t, task[t])) /\ UNCHANGED orders
           \/ kind = "Page" /\ task[t].opened /\ PageArrives(t) /\ UNCHANGED orders
           \/ /\ kind = "Certificate" /\ Len(orders) < OrderLimit
              /\ \E verdict \in Verdicts : orders' = Append(orders, verdict) /\ Set(t, IF verdict = "Accept" THEN task[t] ELSE Cleans(t, "Failed"))
           \/ kind \in {"Certificate", "Closed", "Failed"} /\ UNCHANGED orders /\ Set(t, Cleans(t, "Failed"))
    /\ UNCHANGED <<platform, proc, renderers, directory, request, lock, link, killed, ledgerVars, historyVars>>

----------------------------------------------------------------------------
(* Cleaning up                                                             *)

Step(t, step) == Set(t, [task[t] EXCEPT !.step = step])
Finish(t, result) == Set(t, Ends(t, result)) /\ lock' = IF lock = t THEN None ELSE lock

\* Close is sent and the connection dropped.  Without a helper that is all.
Closes(t) ==
    /\ task[t].step = "closing"
    /\ IF ~Embedded(t) THEN Finish(t, task[t].result) /\ UNCHANGED <<windowVars, link>>
       ELSE /\ Step(t, "waiting") /\ link' = "closed" /\ UNCHANGED lock
            /\ IF link = "open" /\ proc # "gone" /\ Len(orders) < OrderLimit THEN Orders("Close") ELSE UNCHANGED windowVars
    /\ UNCHANGED <<request, killed, ledgerVars, historyVars>>

\* Fault: the helper is waited for as long as it takes.
AwaitsChildForever(t) ==
    /\ task[t].step \in {"waiting", "killing"}
    /\ proc = "gone" /\ Step(t, "draining") /\ UNCHANGED <<lock, killed>>
    /\ UNCHANGED <<windowVars, request, link, ledgerVars, historyVars>>

\* Three seconds for the helper to go, then its group is killed, then three more;
\* on Windows what is left of its job is killed in any case, if it can be.
AwaitsChild(t) ==
    /\ task[t].step \in {"waiting", "killing"}
    /\ \/ proc = "gone" /\ Step(t, "draining") /\ killed' = (killed \/ platform = "windows") /\ UNCHANGED lock
       \/ proc # "gone" /\ task[t].step = "waiting" /\ Step(t, "killing") /\ killed' = TRUE /\ UNCHANGED lock
       \/ proc # "gone" /\ task[t].step = "killing" /\ Finish(t, "RecoveryRequired") /\ UNCHANGED killed
       \/ platform = "windows" /\ task[t].step = "waiting" /\ Finish(t, "RecoveryRequired") /\ UNCHANGED killed
    /\ UNCHANGED <<windowVars, request, link, ledgerVars, historyVars>>

\* Fault: the helper itself is enough.
TreeGoneLeader == proc = "gone"

\* No process of the helper's group, or of its job, is left.
TreeGone == proc = "gone" /\ ~renderers

AwaitsTree(t) ==
    /\ task[t].step = "draining"
    /\ \/ TreeGone /\ Step(t, "removing") /\ UNCHANGED lock
       \/ ~TreeGone /\ Finish(t, "RecoveryRequired")
    /\ UNCHANGED <<windowVars, request, link, killed, ledgerVars, historyVars>>

\* A helper that was killed has not removed its profile.  A profile that cannot be
\* removed asks for recovery, one that cannot be looked at is another error.
RemovesProfile(t) ==
    /\ task[t].step = "removing"
    /\ \/ directory' = "none" /\ Finish(t, task[t].result)
       \/ UNCHANGED directory /\ \E result \in {"RecoveryRequired", "Unreadable"} : Finish(t, result)
    /\ UNCHANGED <<platform, proc, renderers, wire, orders, request, link, killed, ledgerVars, historyVars>>

----------------------------------------------------------------------------
(* The surroundings                                                        *)

\* The session that owns the task closes it; the library's flow is over.
SessionStops(t) ==
    /\ request[t] # None /\ ~task[t].stop /\ Set(t, [task[t] EXCEPT !.stop = TRUE])
    /\ UNCHANGED <<windowVars, request, lock, link, killed, ledgerVars, historyVars>>

LibraryEnds(t) ==
    /\ task[t].step = "serving" /\ ~task[t].over /\ Set(t, [task[t] EXCEPT !.over = TRUE])
    /\ UNCHANGED <<windowVars, request, lock, link, killed, ledgerVars, historyVars>>

Dies ==
    /\ killed /\ (proc # "gone" \/ renderers) /\ Exits /\ renderers' \in {renderers, FALSE}
    /\ UNCHANGED <<platform, wire, directory, taskVars, ledgerVars, historyVars>>

DayPasses ==
    /\ now < MaxDays /\ ledger # {} /\ now' = now + 1
    /\ UNCHANGED <<windowVars, taskVars, ledger, historyVars>>

Window == WindowNext /\ UNCHANGED <<taskVars, ledgerVars, historyVars>>

Own(t) == Binds(t) \/ Prepares(t) \/ Stopped(t) \/ Expires(t) \/ ClaimWrites(t) \/ Closes(t)
            \/ AwaitsChild(t) \/ AwaitsTree(t) \/ RemovesProfile(t)
Events(t) == Launched(t) \/ Commanded(t) \/ PeerCalls(t)
            \/ PeerOpens(t) \/ WindowSays(t)
User(t) == UserCommands(t) \/ UserReads(t) \/ SessionStops(t) \/ LibraryEnds(t)

Next == Window \/ Dies \/ DayPasses \/ \E t \in Tasks : Own(t) \/ Events(t) \/ User(t)

Spec == Init /\ [][Next]_vars

\* The task's own steps, and its timers.
FairSpec ==
    Spec /\ \A t \in Tasks : WF_vars(Own(t))

----------------------------------------------------------------------------
(* Properties                                                              *)

\* What the library is given is a completion whose account the user has seen and
\* confirmed in this transaction: another one never takes its place between the
\* prompt and the answer (browser.rs callback, confirm, page).
ConfirmedOnly == \A s \in submitted : [task |-> s.task, cookie |-> s.cookie] \in confirmed

\* A completion from outside is submitted once in the life of its ledger entry, by
\* whichever of the user's processes: the read and the write of the ledger are
\* under the transaction lock (browser.rs claim_completion, browser_transport.rs
\* bind).
SubmittedOnce ==
    \A s, r \in submitted : s.outside /\ r.outside /\ s.cookie = r.cookie /\ s.day = r.day => s.task = r.task

\* A task that ends without asking for recovery leaves no process of its window,
\* and its private profile only if the directory could not be looked at; it never
\* removes the profile under a process that still uses it (browser.rs run,
\* auth_window.rs run).
NothingLeft ==
    \A t \in Tasks : Embedded(t) =>
        LET ended == task[t].step = "ended" /\ task[t].result # "RecoveryRequired"
        IN  /\ ended \/ task[t].step = "removing" => proc \in {"none", "gone"} /\ ~renderers
            /\ ended /\ task[t].result # "Unreadable" => directory = "none"

\* A task that is stopped ends, and a task that serves ends by itself: whoever
\* joins its thread, and the next transaction, wait for a bounded time
\* (browser.rs run, close).
TaskEnds == \A t \in Tasks : (task[t].stop \/ task[t].step = "serving") ~> task[t].step = "ended"
============================================================================
