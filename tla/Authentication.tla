--------------------------- MODULE Authentication ---------------------------
(***************************************************************************)
(* One authentication (crates/engine/src/auth.rs) and the session around   *)
(* it that every interface uses (crates/client/src/auth.rs).               *)
(*                                                                         *)
(* Four parties run at once: the worker thread, which is inside            *)
(* libopenconnect and comes back in callbacks that ask the user; the       *)
(* interface, which answers from other threads, saves pins and cancels;    *)
(* the owner of the session, which reads its events; and the browser task  *)
(* of an interactive sign-on, which submits pages for its transaction.     *)
(* Answers go to the worker through a bounded queue, and the prompt they   *)
(* are for is kept next to it.  The library may call back in any order,    *)
(* also after a callback has failed, or be busy without end.               *)
(***************************************************************************)
EXTENDS Naturals, Sequences, FiniteSets

CONSTANTS
    None,          \* Rust's None
    Profiles,      \* profiles: username, group, protocol, mode, mobile, interactive, remembered
    Forms,         \* forms of the server: fields, error, challenge
    QueueLimit,    \* answers in the queue, 8 in the code
    PeerLimit,     \* peers accepted in an attempt, 256 in the code
    EmptyLimit,    \* empty forms in a row, 2 in the code
    MaxCalls       \* bound: callbacks of the library

ASSUME AuthAssumption ==
    /\ QueueLimit \in Nat \ {0} /\ PeerLimit \in Nat /\ EmptyLimit \in Nat /\ MaxCalls \in Nat
    /\ \A p \in Profiles :
         /\ p.protocol \in {"gp", "other"} /\ p.mode \in {"Auto", "Embedded", "System", "Manual"}
         /\ p.remembered \in BOOLEAN
    /\ \A f \in Forms : f.fields \subseteq {"group", "user", "password", "other", "generated"}

\* Certificates the library shows: one the system trusts, one that matches its
\* pin, one that differs from it, and two that nobody knows.
Peers  == {"trusted", "pinned", "changed", "unknown", "stranger"}
Phases == {"Portal", "Gateway"}

\* What a prompt shows: a peer, or the kind of browser a sign-on needs.
Views == Peers \cup {"Webview", "External", None}

\* What a callback or an answer can fail with.
Codes == {"ProtocolViolation", "AuthenticationRequired", "AuthenticationRejected", "RuntimeFailure", "Cancelled",
          "UnsupportedAuthentication", "KeyringUnavailable", "CertificateRejected", "BrowserFailed", "Expired",
          "InvalidInput", "stale"}

ASSUME NoneAssumption == None \notin Codes \cup {"handoff", "Authenticated"} /\ None \notin [id : Nat, peer : Views]

VARIABLES
    profile,
    worker,        \* "new", "checking", "native", "asking", "closing", "announcing", "ended"
    asking,        \* the prompt the worker waits with
    failure,       \* the first error of a callback
    result,        \* what run returned
    password,      \* the saved password, until it or another has been sent
    group, empty, embedded, accepted,  \* Worker: what has been answered
    pending,       \* Shared::pending
    queue,         \* the answers on their way to the worker
    cancelled,     \* Shared::cancelled
    sending,       \* a cancellation is between its flag and its messages
    command, byte, \* the duplicated command endpoint, and a cancellation written to it
    events,        \* the worker's events on their way to the session
    calls,
    stop,          \* AuthControl::cancelled
    certificates,  \* the prompts certificate_reply knows, with the peer they show
    saving,        \* certificate_reply holds that map while it saves this one's pin
    held,          \* the event recv_timeout has taken
    browser,       \* the browser task's transaction, or None
    broken,        \* the browser task has reported its failure
    outcome,       \* the session's last event; None before
    sent, retried, approved, wanted, saved, failed  \* history

workVars    == <<worker, asking, failure, result>>
answerVars  == <<password, group, empty, embedded, accepted>>
stopVars    == <<cancelled, sending, command, byte>>
clientVars  == <<stop, certificates, saving, held, browser, broken, outcome>>
historyVars == <<sent, retried, approved, wanted, saved, failed>>
vars == <<profile, workVars, answerVars, pending, queue, stopVars, events, calls, clientVars, historyVars>>

Init ==
    /\ profile \in Profiles
    /\ worker = "new" /\ asking = None /\ failure = None /\ result = None
    /\ password = profile.remembered /\ group = None /\ empty = 0 /\ embedded = {} /\ accepted = {}
    /\ pending = None /\ queue = <<>> /\ cancelled = FALSE /\ sending = FALSE
    /\ command = "none" /\ byte = FALSE /\ events = <<>> /\ calls = 0
    /\ stop = FALSE /\ certificates = {} /\ saving = None /\ held = None
    /\ browser = None /\ broken = FALSE /\ outcome = None
    /\ sent = 0 /\ retried = [p \in Phases |-> 0] /\ approved = {} /\ wanted = {} /\ saved = {} /\ failed = FALSE

----------------------------------------------------------------------------
(* The worker thread up to the library, and from it                        *)

Leaves(r) == worker' = "closing" /\ result' = r

\* The session is allocated, and its command endpoint published.
Setup ==
    /\ worker = "new"
    /\ \/ worker' = "checking" /\ command' = "open" /\ UNCHANGED result
       \/ Leaves("EngineUnavailable") /\ UNCHANGED command
    /\ UNCHANGED <<profile, asking, failure, answerVars, pending, queue, cancelled, sending, byte,
                   events, calls, clientVars, historyVars>>

\* What configure makes of the profile's keys and certificates, of its proxy and
\* transport, and of its token; the library may refuse each of them.
KeyOptions   == {"ok", "InvalidInput", "UnsupportedAuthentication", "RuntimeFailure"}
ProxyOptions == {"ok", "InvalidInput", "RuntimeFailure"}
TokenOptions == {"ok", "AuthenticationRequired", "UnsupportedAuthentication", "KeyringUnavailable", "RuntimeFailure"}
Configure    == KeyOptions \cup ProxyOptions \cup TokenOptions

\* Fault: the flag is not read again once the endpoint is there.
CheckedNever ==
    /\ worker = "checking" /\ worker' = "native"
    /\ UNCHANGED <<profile, asking, failure, result, answerVars, pending, queue, stopVars, events, calls, clientVars, historyVars>>

\* A cancellation that came too early for the endpoint is seen here.
Checked ==
    /\ worker = "checking"
    /\ IF cancelled THEN Leaves("Cancelled")
       ELSE \E c \in Configure : IF c = "ok" THEN worker' = "native" /\ UNCHANGED result ELSE Leaves(c)
    /\ UNCHANGED <<profile, asking, failure, answerVars, pending, queue, stopVars, events, calls, clientVars, historyVars>>

\* Fault: the library's code alone decides.
ReturnsCode ==
    /\ worker = "native" /\ \E code \in {"handoff", "AuthenticationRejected"} : Leaves(IF cancelled THEN "Cancelled" ELSE code)
    /\ UNCHANGED <<profile, asking, failure, answerVars, pending, queue, stopVars, events, calls, clientVars, historyVars>>

\* obtain_cookie is over: a cancellation counts first, then the first failure of a
\* callback, then the library's own code, then what the hand-over lacks.
Returns ==
    /\ worker = "native"
    /\ \E code \in {"handoff", "AuthenticationRejected", "ProtocolViolation"} :
         Leaves(IF cancelled THEN "Cancelled" ELSE IF failure # None THEN failure ELSE code)
    /\ UNCHANGED <<profile, asking, failure, answerVars, pending, queue, stopVars, events, calls, clientVars, historyVars>>

\* A cancellation on the command endpoint ends whatever the library does.
Interrupted ==
    /\ worker = "native" /\ byte /\ Leaves("Cancelled")
    /\ UNCHANGED <<profile, asking, failure, answerVars, pending, queue, stopVars, events, calls, clientVars, historyVars>>

\* The worker is dropped: the endpoint is closed before the library's end of it.
Closes ==
    /\ worker = "closing" /\ worker' = "announcing" /\ pending' = None /\ command' = "closed"
    /\ UNCHANGED <<profile, asking, failure, result, answerVars, queue, cancelled, sending, byte,
                   events, calls, clientVars, historyVars>>

Event(kind, id, peer) == events' = Append(events, [kind |-> kind, id |-> id, peer |-> peer])

Announces ==
    /\ worker = "announcing" /\ worker' = "ended"
    /\ Event(IF cancelled \/ result = "Cancelled" THEN "Cancelled"
             ELSE IF result = "handoff" THEN "Authenticated" ELSE "Failed", None, None)
    /\ UNCHANGED <<profile, asking, failure, result, answerVars, pending, queue, stopVars, calls, clientVars, historyVars>>

----------------------------------------------------------------------------
(* Callbacks                                                               *)

Called == worker = "native" /\ calls < MaxCalls /\ calls' = calls + 1

\* The callback answers with an error; the first one is remembered.
Fail(code) ==
    /\ failure' = (IF failure = None THEN code ELSE failure) /\ failed' = TRUE
    /\ worker' = "native" /\ asking' = None

Answered == worker' = "native" /\ asking' = None /\ UNCHANGED <<failure, failed>>

\* The prompt is published next to the queue and sent to the session.
Ask(prompt) ==
    /\ worker' = "asking" /\ asking' = prompt /\ pending' = prompt
    /\ Event(prompt.kind, prompt.id, prompt.peer) /\ UNCHANGED <<failure, failed>>

Prompt(kind, peer, fields, automatic) ==
    [kind |-> kind, id |-> calls + 1, peer |-> peer, fields |-> fields, automatic |-> automatic]

\* What the profile and earlier answers fill in: the username, the selected group,
\* and the saved password in an initial form that did not come with an error.
Automatic(f) ==
    {x \in f.fields : \/ x = "user" /\ profile.username
                      \/ x = "group" /\ group # None
                      \/ x = "password" /\ password /\ ~f.error /\ ~f.challenge}

\* Fault: the saved password is kept for the next form.
SpendNever(keeps, fields, automatic) == password' = keeps /\ sent' = sent + (IF "password" \in automatic THEN 1 ELSE 0)

\* The answers are applied to the form; a password is used once, whoever gave it.
Spend(keeps, fields, automatic) ==
    /\ password' = (keeps /\ "password" \notin fields)
    /\ sent' = sent + (IF "password" \in automatic THEN 1 ELSE 0)

\* A saved password is not tried again once the server has answered with an error.
Keeps(f) == password /\ ~f.error

\* A form the code cannot read: cyclic, too large, of an unknown kind, with a name
\* twice, or without the group that was chosen.
Unreadable(f) ==
    /\ f.fields # {} /\ Fail("ProtocolViolation") /\ password' = Keeps(f)
    /\ UNCHANGED <<group, empty, sent, pending, events>>

\* The form must be answered with the group first: the library builds it anew.
FormGroup(f) ==
    /\ password' = Keeps(f) /\ UNCHANGED sent
    /\ \/ profile.group /\ group' = "saved" /\ Answered /\ UNCHANGED <<pending, events, empty>>
       \/ profile.group /\ Fail("AuthenticationRequired") /\ UNCHANGED <<group, pending, events, empty>>
       \/ ~profile.group /\ empty' = 0 /\ Ask(Prompt("form", None, {"group"}, {})) /\ UNCHANGED group

\* The answers are given to the library one by one, which may refuse one.
Apply(keeps, fields, automatic) ==
    \/ Answered /\ Spend(keeps, fields, automatic)
    \/ Fail("RuntimeFailure") /\ (Spend(keeps, fields, automatic) \/ (password' = keeps /\ UNCHANGED sent))

\* The form is answered from the profile, or the rest of it is asked for.
FormFields(f) ==
    LET missing == (f.fields \ {"generated"}) \ Automatic(f)
    IN  /\ UNCHANGED group
        /\ \/ /\ missing # {} /\ empty' = 0 /\ password' = Keeps(f) /\ UNCHANGED sent
              /\ Ask(Prompt("form", None, f.fields, Automatic(f)))
           \/ /\ missing = {} /\ f.fields # {} /\ empty' = 0
              /\ Apply(Keeps(f), f.fields, Automatic(f)) /\ UNCHANGED <<pending, events>>
           \/ /\ f.fields = {} /\ empty' = empty + 1 /\ password' = Keeps(f) /\ UNCHANGED <<sent, pending, events>>
              /\ IF empty < EmptyLimit THEN Answered ELSE Fail("AuthenticationRequired")

FormArrives ==
    /\ Called
    /\ IF failure # None \/ cancelled
         THEN Fail(IF failure # None THEN "AuthenticationRejected" ELSE "Cancelled")
              /\ UNCHANGED <<password, group, empty, sent, pending, events>>
         ELSE \E f \in Forms :
                \/ Unreadable(f)
                \/ "group" \in f.fields /\ group = None /\ FormGroup(f)
                \/ ~("group" \in f.fields /\ group = None) /\ FormFields(f)
    /\ UNCHANGED <<profile, result, embedded, accepted, queue, stopVars, clientVars, retried, approved, wanted, saved>>

\* A certificate is fine if the user accepted it in this attempt, or it matches
\* its pin, or it has no pin and the system trusts it; the library may not tell
\* the peer's name, port or fingerprint.  This callback also asks after another
\* one has failed.
CertificateArrives ==
    /\ Called
    /\ \/ cancelled /\ Fail("Cancelled") /\ UNCHANGED <<pending, events>>
       \/ /\ ~cancelled /\ UNCHANGED <<pending, events>>
          /\ \E code \in {"ProtocolViolation", "CertificateRejected", "InvalidInput"} : Fail(code)
       \/ /\ ~cancelled
          /\ \E peer \in Peers :
               IF peer \in accepted \cup {"trusted", "pinned"} THEN Answered /\ UNCHANGED <<pending, events>>
               ELSE Ask(Prompt("certificate", peer, {}, {}))
    /\ UNCHANGED <<profile, result, answerVars, queue, stopVars, clientVars, sent, retried, approved, wanted, saved>>

\* Which browser a sign-on gets: the profile's choice, and for GlobalProtect what
\* the reported system and the server allow.
Mode == IF profile.protocol = "gp" /\ profile.mobile /\ profile.mode = "Auto" THEN "Embedded" ELSE profile.mode
Unsupported(kind, allowed) ==
    /\ profile.mode = "System"
    /\ IF profile.protocol = "gp" THEN profile.mobile \/ allowed # "yes" ELSE kind = "Webview"

\* A server that refuses external browsers is asked again for an embedded one.
RetryEmbedded(phase, allowed) ==
    profile.protocol = "gp" /\ Mode = "Auto" /\ allowed = "no" /\ phase \notin embedded

\* GlobalProtect's phase is needed, and every request names the server's address
\* and a well-formed page.
Incomplete(kind, phase, allowed) ==
    \/ /\ profile.protocol = "gp" /\ ~(profile.mobile /\ profile.mode = "System")
       /\ Fail("ProtocolViolation")
    \/ /\ ~Unsupported(kind, allowed) /\ ~RetryEmbedded(phase, allowed)
       /\ \E code \in {"ProtocolViolation", "InvalidInput"} : Fail(code)

BrowserArrives ==
    /\ Called
    /\ \E kind \in {"Webview", "External"}, phase \in Phases, allowed \in {"yes", "no", "unknown"} :
         \/ /\ failure # None \/ cancelled
            /\ Fail(IF failure # None THEN "AuthenticationRejected" ELSE "Cancelled")
            /\ UNCHANGED <<embedded, retried, pending, events>>
         \/ /\ failure = None /\ ~cancelled /\ RetryEmbedded(phase, allowed)
            /\ embedded' = embedded \cup {phase} /\ retried' = [retried EXCEPT ![phase] = @ + 1]
            /\ Answered /\ UNCHANGED <<pending, events>>
         \/ /\ failure = None /\ ~cancelled /\ (Unsupported(kind, allowed) \/ RetryEmbedded(phase, allowed))
            /\ Fail("UnsupportedAuthentication") /\ UNCHANGED <<embedded, retried, pending, events>>
         \/ /\ failure = None /\ ~cancelled /\ Incomplete(kind, phase, allowed)
            /\ UNCHANGED <<embedded, retried, pending, events>>
         \/ /\ failure = None /\ ~cancelled /\ ~Unsupported(kind, allowed) /\ ~RetryEmbedded(phase, allowed)
            /\ Ask(Prompt("browser", kind, {}, {})) /\ UNCHANGED <<embedded, retried>>
    /\ UNCHANGED <<profile, result, password, group, empty, accepted, queue, stopVars, clientVars, sent, approved, wanted, saved>>

\* token_lock and token_unlock: the counter's store is not there or not writable.
TokenFails ==
    /\ Called /\ Fail("KeyringUnavailable")
    /\ UNCHANGED <<profile, result, answerVars, pending, queue, stopVars, events, clientVars,
                   sent, retried, approved, wanted, saved>>

----------------------------------------------------------------------------
(* Waiting for an answer: wait_for and what the callbacks do with it       *)

Current(r) == pending # None /\ pending.kind = "browser" /\ pending.id = r.id

\* Pages of a transaction that is over are skipped.
Leftover(r) == r.kind = "browser" /\ ~Current(r)

FormAnswered(r) ==
    /\ UNCHANGED <<accepted, pending, events, empty>>
    /\ \/ r.id # asking.id /\ Fail("stale") /\ UNCHANGED <<password, group, sent>>
       \/ r.id = asking.id /\ r.say = "dismiss" /\ Fail("Cancelled") /\ UNCHANGED <<password, group, sent>>
       \/ /\ r.id = asking.id /\ r.say = "answer" /\ Apply(password, asking.fields, asking.automatic)
          /\ group' = IF asking.fields = {"group"} THEN "chosen" ELSE group

\* Fault: any approval will do.
CertificateAnsweredAny(r) ==
    /\ UNCHANGED <<pending, events, password, group, sent, empty>>
    /\ IF r.say = "reject" THEN Fail("CertificateRejected") /\ UNCHANGED accepted
       ELSE accepted' = accepted \cup {asking.peer} /\ Answered

CertificateAnswered(r) ==
    /\ UNCHANGED <<pending, events, password, group, sent, empty>>
    /\ IF r.id # asking.id THEN Fail("stale") /\ UNCHANGED accepted
       ELSE IF r.say = "reject" \/ Cardinality(accepted) >= PeerLimit
         THEN Fail("CertificateRejected") /\ UNCHANGED accepted
         ELSE accepted' = accepted \cup {asking.peer} /\ Answered

\* A page goes to the library, which wants more, is content, or rejects it.  The
\* external browser answers the library itself once it is open.
BrowserAnswered(r) ==
    /\ UNCHANGED <<accepted, password, group, sent, empty>>
    /\ \/ r.say \in {"fail", "cancel"} /\ Fail(IF r.say = "fail" THEN "BrowserFailed" ELSE "Cancelled")
          /\ UNCHANGED <<pending, events>>
       \/ r.say = "opened" /\ pending' = None /\ Answered /\ UNCHANGED events
       \/ r.say = "page" /\ UNCHANGED <<worker, asking, failure, failed, pending, events>>
       \/ r.say = "page" /\ Fail("AuthenticationRejected") /\ UNCHANGED <<pending, events>>
       \/ r.say = "page" /\ pending' = None /\ Answered /\ Event("finished", asking.id, None)

Receives ==
    /\ worker = "asking" /\ ~cancelled /\ queue # <<>> /\ queue' = Tail(queue)
    /\ LET r == Head(queue)
       IN  \/ /\ Leftover(r)
              /\ UNCHANGED <<worker, asking, failure, failed, accepted, password, group, sent, empty, pending, events>>
           \/ /\ ~Leftover(r) /\ r.kind # asking.kind /\ Fail(IF r.kind = "cancel" THEN "Cancelled" ELSE "stale")
              /\ UNCHANGED <<accepted, password, group, sent, empty, pending, events>>
           \/ ~Leftover(r) /\ r.kind = "form" /\ asking.kind = "form" /\ FormAnswered(r)
           \/ ~Leftover(r) /\ r.kind = "certificate" /\ asking.kind = "certificate" /\ CertificateAnswered(r)
           \/ ~Leftover(r) /\ r.kind = "browser" /\ asking.kind = "browser" /\ BrowserAnswered(r)
    /\ UNCHANGED <<profile, result, embedded, stopVars, calls, clientVars, retried, approved, wanted, saved>>

\* Five minutes, or a cancellation; the prompt stays where an interface finds it.
Expires ==
    /\ worker = "asking" /\ (cancelled \/ queue = <<>>)
    /\ Fail(IF cancelled THEN "Cancelled" ELSE "Expired")
    /\ UNCHANGED <<profile, result, answerVars, pending, queue, stopVars, events, calls, clientVars,
                   sent, retried, approved, wanted, saved>>

----------------------------------------------------------------------------
(* Threads of the interface: AuthControl                                   *)

Room == Len(queue) < QueueLimit
Say(kind, id, say) == queue' = Append(queue, [kind |-> kind, id |-> id, say |-> say])

\* The interface has been shown the prompt.
Shown(id) == (\A k \in DOMAIN events : events[k].id # id) /\ (held # None => held.id # id)

\* reply: the prompt is taken with the answer, so there is one.
Replies ==
    /\ pending # None /\ pending.kind = "form" /\ Shown(pending.id) /\ ~cancelled /\ Room
    /\ \E say \in {"answer", "dismiss"} : Say("form", pending.id, say)
    /\ pending' = None
    /\ UNCHANGED <<profile, workVars, answerVars, stopVars, events, calls, clientVars, historyVars>>

\* The library's side: the prompt must be the one that is open, and is taken.
CertificateReply(id, say) ==
    /\ ~cancelled /\ Room /\ pending # None /\ pending.kind = "certificate" /\ pending.id = id
    /\ Say("certificate", id, say) /\ pending' = None

\* certificate_reply: the worker has the answer before the pin is written, and
\* the map of prompts is locked until the pin is.
CertificateReplies ==
    /\ saving = None /\ ~stop
    /\ \E c \in certificates, say \in {"reject", "accept", "pin"} :
         /\ CertificateReply(c.id, say)
         /\ approved' = IF say = "reject" THEN approved ELSE approved \cup {c.peer}
         /\ IF say = "pin" THEN saving' = c /\ wanted' = wanted \cup {c.peer} /\ UNCHANGED certificates
            ELSE certificates' = certificates \ {c} /\ UNCHANGED <<saving, wanted>>
    /\ UNCHANGED <<profile, workVars, answerVars, stopVars, events, calls, stop, held, browser, broken, outcome,
                   sent, retried, saved, failed>>

\* The flag of the library's side; the first to set it sends the messages.
Flag == cancelled' = TRUE /\ sending' = (sending \/ ~cancelled)

PinSaved ==
    /\ saving # None /\ saving' = None /\ certificates' = certificates \ {saving}
    /\ \/ saved' = saved \cup {saving.peer} /\ UNCHANGED <<stop, cancelled, sending>>
       \/ UNCHANGED saved /\ stop' = TRUE /\ Flag
    /\ UNCHANGED <<profile, workVars, answerVars, pending, queue, command, byte, events, calls,
                   held, browser, broken, outcome, sent, retried, approved, wanted, failed>>

\* cancel, and the drop of the session by whoever owns it.
Cancels ==
    /\ ~stop /\ outcome = None /\ stop' = TRUE /\ Flag
    /\ \/ UNCHANGED <<outcome, browser>>
       \/ held = None /\ outcome' = "Dropped" /\ browser' = None
    /\ UNCHANGED <<profile, workVars, answerVars, pending, queue, command, byte, events, calls,
                   certificates, saving, held, broken, historyVars>>

\* A message wakes a waiting worker; with a full queue the next answer does.  The
\* library is woken through the command endpoint, if there is one.
CancelSends ==
    /\ sending /\ sending' = FALSE /\ pending' = None
    /\ IF Room THEN Say("cancel", None, "cancel") ELSE UNCHANGED queue
    /\ byte' = (byte \/ command = "open")
    /\ certificates' = IF saving = None THEN {} ELSE certificates
    /\ UNCHANGED <<profile, workVars, answerVars, cancelled, command, events, calls,
                   stop, saving, held, browser, broken, outcome, historyVars>>

----------------------------------------------------------------------------
(* The browser task of an open transaction: browser_reply and its failure  *)

Listening == pending # None /\ pending.kind = "browser" /\ pending.id = browser /\ ~cancelled /\ Room

BrowserSays(say) ==
    /\ Listening /\ Say("browser", browser, say)
    /\ (say = "page" => pending.peer = "Webview") /\ (say = "opened" => pending.peer = "External")

BrowserReplies ==
    /\ browser # None /\ ~broken /\ \E say \in {"page", "opened", "cancel"} : BrowserSays(say)
    /\ UNCHANGED <<profile, workVars, answerVars, pending, stopVars, events, calls, clientVars, historyVars>>

BrowserBreaks ==
    /\ browser # None /\ ~broken /\ broken' = TRUE /\ Flag
    /\ IF Listening THEN BrowserSays("fail") ELSE UNCHANGED queue
    /\ UNCHANGED <<profile, workVars, answerVars, pending, command, byte, events, calls,
                   stop, certificates, saving, held, browser, outcome, historyVars>>

----------------------------------------------------------------------------
(* The owner of the session: recv_timeout                                  *)

\* close_browser waits for the task; processes that stay are an error.
Finish(how) == browser' = None /\ (outcome' = how \/ (browser # None /\ outcome' = "Failed"))

ReceivesCancelled ==
    /\ outcome = None /\ held = None /\ stop /\ Finish("Cancelled")
    /\ UNCHANGED <<profile, workVars, answerVars, pending, queue, stopVars, events, calls,
                   stop, certificates, saving, held, broken, historyVars>>

ReceivesNotice ==
    /\ outcome = None /\ held = None /\ ~stop /\ broken
    /\ stop' = TRUE /\ Flag /\ Finish("Failed")
    /\ UNCHANGED <<profile, workVars, answerVars, pending, queue, command, byte, events, calls,
                   certificates, saving, held, broken, historyVars>>

ReceivesEvent ==
    /\ outcome = None /\ held = None /\ ~stop /\ ~broken /\ events # <<>>
    /\ held' = Head(events) /\ events' = Tail(events)
    /\ UNCHANGED <<profile, workVars, answerVars, pending, queue, stopVars, calls,
                   stop, certificates, saving, browser, broken, outcome, historyVars>>

Ending == {"Authenticated", "Failed", "Cancelled"}

\* Fault: nobody waits for a pin that is being written.
UncommittedNever == FALSE

\* A hand-over waits for the lock that certificate_reply holds.
Uncommitted == held.kind \in {"Authenticated", "certificate"} /\ saving # None

Delivers ==
    /\ held # None /\ ~Uncommitted /\ held' = None
    /\ IF stop THEN Finish("Cancelled") /\ UNCHANGED <<stop, cancelled, sending, certificates, broken>>
       ELSE IF held.kind \in Ending
         THEN Finish(IF broken THEN "Failed" ELSE held.kind) /\ UNCHANGED <<stop, cancelled, sending, certificates, broken>>
       ELSE IF held.kind # "finished" /\ ~profile.interactive
         THEN stop' = TRUE /\ Flag /\ outcome' = "Failed" /\ UNCHANGED <<browser, certificates, broken>>
       ELSE \/ /\ held.kind = "browser" /\ browser' = held.id /\ broken' = FALSE
               /\ UNCHANGED <<outcome, stop, cancelled, sending, certificates>>
            \/ /\ held.kind = "browser" /\ stop' = TRUE /\ Flag /\ Finish("Failed") /\ UNCHANGED <<certificates, broken>>
            \/ /\ held.kind = "finished" /\ browser # None
               /\ stop' = TRUE /\ Flag /\ browser' = None /\ outcome' = "Failed" /\ UNCHANGED <<certificates, broken>>
            \/ /\ held.kind = "finished" /\ browser' = None
               /\ UNCHANGED <<outcome, stop, cancelled, sending, certificates, broken>>
            \/ /\ held.kind = "certificate" /\ certificates' = certificates \cup {[id |-> held.id, peer |-> held.peer]}
               /\ UNCHANGED <<outcome, stop, cancelled, sending, browser, broken>>
            \/ held.kind = "form" /\ UNCHANGED <<outcome, stop, cancelled, sending, browser, certificates, broken>>
    /\ UNCHANGED <<profile, workVars, answerVars, pending, queue, command, byte, events, calls, saving, historyVars>>

----------------------------------------------------------------------------
Works    == Setup \/ Checked \/ Interrupted \/ Closes \/ Announces \/ Receives \/ Expires
Library  == Returns \/ FormArrives \/ CertificateArrives \/ BrowserArrives \/ TokenFails
Answers  == Replies \/ CertificateReplies \/ Cancels \/ BrowserReplies \/ BrowserBreaks
Owner    == ReceivesCancelled \/ ReceivesNotice \/ ReceivesEvent \/ Delivers

Next == Works \/ Library \/ Answers \/ Owner \/ PinSaved \/ CancelSends

Spec == Init /\ [][Next]_vars

\* The worker's own steps, the owner's loop and a call under way go on; the
\* library, the user and the browser may do nothing for ever.
FairSpec == Spec /\ WF_vars(Works) /\ WF_vars(Owner) /\ WF_vars(PinSaved) /\ WF_vars(CancelSends)

----------------------------------------------------------------------------
(* Properties                                                              *)

\* The saved password goes to the server at most once in an attempt, and never
\* again after the server has answered with an error or the user has typed one:
\* no form, group change or retry can lock the account.  A GlobalProtect phase is
\* asked for an embedded browser at most once (auth.rs form, browser).
AnswersOnce == sent <= 1 /\ \A p \in Phases : retried[p] <= 1

\* The worker only accepts peers whose own prompt the user has approved, also when
\* an approval is given after its prompt has expired and the next one waits
\* (auth.rs certificate, certificate_reply).
PeersApproved == accepted \subseteq approved

\* A session is handed over only when every pin the user asked for is in the
\* store; the hand-over waits for the thread that writes it (client auth.rs
\* certificate_reply, recv_timeout).
PinCommitted == outcome = "Authenticated" => wanted \subseteq saved

\* No session is handed over after a callback has failed, whatever the library
\* made of it, and the browser is closed when the session is over (auth.rs run,
\* client auth.rs recv_timeout).
HandoffClean == (outcome = "Authenticated" => ~failed) /\ (outcome # None => browser = None)

\* An answer never reaches the wrong prompt: no attempt fails because an earlier
\* transaction's pages, or an answer to an expired prompt, are still in the queue
\* (auth.rs wait_for).
NeverStale == failure # "stale"

\* Every answer is used where it belongs, and once: the queue of replies outlives
\* prompts, transactions and retries of the form (auth.rs form, wait_for).
AnswersFit == AnswersOnce /\ NeverStale

\* A cancellation ends the worker and the session wherever they are: before the
\* command endpoint exists, in the library, in a prompt with a full queue, and
\* while a pin is written (auth.rs cancel, wait_for, run).
CancelEnds == (stop ~> worker = "ended") /\ (cancelled ~> outcome # None)

============================================================================
