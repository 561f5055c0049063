---------------------------- MODULE AttemptProofs -----------------------------
(***************************************************************************)
(* Proofs about an attempt to connect: its sign-on in the engine, module   *)
(* Authentication (below), and its way through the client, module          *)
(* ClientConnect (in the second part).                                     *)
(*                                                                         *)
(* One authentication and its session, for any profiles and forms, any     *)
(* length of the queue of answers and any number of callbacks.             *)
(*                                                                         *)
(* The prompts are what everything hangs on: a prompt is known to four     *)
(* parties at once, and outlives its callback.  AuthInv therefore relates  *)
(* what the worker waits with, what is published, what is under way to     *)
(* the session, what the session still knows and what is in the queue.     *)
(***************************************************************************)
EXTENDS Authentication, AttemptPromise, TLAPS

FieldNames == {"group", "user", "password", "other", "generated"}
PromptKinds == {"form", "certificate", "browser"}
Prompts  == [kind : PromptKinds, id : Nat, peer : Views, fields : SUBSET FieldNames, automatic : SUBSET FieldNames]
Notices  == [kind : PromptKinds \cup {"finished"} \cup Ending, id : Nat \cup {None}, peer : Views]
Messages == [kind : PromptKinds \cup {"cancel"}, id : Nat \cup {None},
             say : {"answer", "dismiss", "reject", "accept", "pin", "page", "opened", "fail", "cancel"}]

Types ==
    /\ profile \in Profiles
    /\ worker \in {"new", "checking", "native", "asking", "closing", "announcing", "ended"}
    /\ asking \in Prompts \cup {None} /\ pending \in Prompts \cup {None}
    /\ queue \in Seq(Messages) /\ events \in Seq(Notices) /\ held \in Notices \cup {None}
    /\ certificates \subseteq [id : Nat, peer : Views] /\ saving \in [id : Nat, peer : Views] \cup {None}
    /\ calls \in Nat /\ sent \in Nat /\ failure \in Codes \cup {None}
    /\ password \in BOOLEAN /\ cancelled \in BOOLEAN /\ stop \in BOOLEAN /\ failed \in BOOLEAN
    /\ retried \in [Phases -> Nat] /\ embedded \subseteq Phases

\* Prompts are numbered by the callbacks that show them.
Numbered ==
    /\ pending # None => pending.id <= calls
    /\ \A k \in 1..Len(queue) : queue[k].kind \in {"form", "certificate"} => queue[k].id \in Nat /\ queue[k].id <= calls
    /\ \A k \in 1..Len(events) : events[k].kind = "certificate" => events[k].id \in Nat /\ events[k].id <= calls
    /\ held # None /\ held.kind = "certificate" => held.id \in Nat /\ held.id <= calls
    /\ \A c \in certificates : c.id <= calls

\* A prompt that waits is the newest, and the one that is published, if one is;
\* the saved password it is going to use is still there.
Waiting ==
    worker = "asking" =>
        /\ asking \in Prompts /\ asking.id = calls
        /\ pending # None => pending = asking
        /\ "password" \in asking.automatic => password /\ "password" \in asking.fields

\* Whoever knows the published prompt by its number knows the peer it shows.
Shows(id, peer) == pending # None /\ pending.kind = "certificate" /\ pending.id = id => pending.peer = peer
Agreed ==
    /\ \A k \in 1..Len(events) : events[k].kind = "certificate" => Shows(events[k].id, events[k].peer)
    /\ held # None /\ held.kind = "certificate" => Shows(held.id, held.peer)
    /\ \A c \in certificates : Shows(c.id, c.peer)

\* An approval in the queue for the prompt that waits is one of its peer.
Approvals ==
    worker = "asking" /\ asking.kind = "certificate" =>
        \A k \in 1..Len(queue) :
            queue[k].kind = "certificate" /\ queue[k].say # "reject" /\ queue[k].id = asking.id => asking.peer \in approved

\* Until something fails or is cancelled, the queue holds at most one answer that
\* is not of a browser, for the prompt that waits, and that prompt was taken.
Ordered ==
    /\ sending => cancelled
    /\ failure = None /\ ~cancelled =>
        /\ pending # None => worker = "asking"
        /\ \A k \in 1..Len(queue) : queue[k].kind # "browser" =>
             /\ worker = "asking" /\ pending = None
             /\ queue[k].kind = asking.kind /\ queue[k].id = asking.id
             /\ \A j \in 1..Len(queue) : queue[j].kind # "browser" => j = k

\* The saved password is there or was sent, and a phase is retried once it is embedded.
Spent ==
    /\ password => sent = 0
    /\ sent <= 1
    /\ \A p \in Phases : retried[p] = IF p \in embedded THEN 1 ELSE 0

\* A worker that hands over has not failed, and has nothing published.
Clean ==
    /\ failed => failure # None
    /\ result = "handoff" => worker \in {"closing", "announcing", "ended"} /\ ~failed
    /\ worker \in {"announcing", "ended"} => pending = None
    /\ \A k \in 1..Len(events) : events[k].kind = "Authenticated" => worker = "ended" /\ result = "handoff"
    /\ held # None /\ held.kind = "Authenticated" => worker = "ended" /\ result = "handoff"
    /\ outcome = "Authenticated" => worker = "ended" /\ result = "handoff"

\* The session ends once, without a browser, and knows of every pin it owes.
Owed ==
    /\ outcome # None => held = None /\ browser = None
    /\ ~profile.interactive => browser = None
    /\ ~stop => wanted \subseteq saved \cup (IF saving = None THEN {} ELSE {saving.peer})

AuthInv ==
    /\ Types /\ Numbered /\ Waiting /\ Agreed /\ Approvals /\ Ordered /\ Spent /\ Clean /\ Owed
    /\ PeersApproved /\ NeverStale /\ PinCommitted

----------------------------------------------------------------------------
(* Sequences, and the steps that callbacks have in common                  *)

\* What is in a queue after one more, and after one less.
LEMMA Appended ==
  ASSUME NEW S, NEW s \in Seq(S), NEW x \in S
  PROVE  /\ Append(s, x) \in Seq(S)
         /\ \A k \in 1..Len(Append(s, x)) : \/ k \in 1..Len(s) /\ Append(s, x)[k] = s[k]
                                            \/ k = Len(s) + 1 /\ Append(s, x)[k] = x
OBVIOUS

\* Taking the head of a queue leaves the other elements one place further on.
LEMMA Dropped ==
  ASSUME NEW S, NEW s \in Seq(S), s # <<>>
  PROVE  /\ Head(s) \in S /\ Head(s) = s[1] /\ 1 \in 1..Len(s) /\ Tail(s) \in Seq(S)
         /\ \A k \in 1..Len(Tail(s)) : k + 1 \in 1..Len(s) /\ Tail(s)[k] = s[k + 1]
OBVIOUS

\* A prompt of the latest callback is nobody's but the worker's so far.
LEMMA AskKeeps ==
  ASSUME AuthInv, worker = "native", calls' = calls + 1, NEW prompt \in Prompts, Ask(prompt), prompt.id = calls + 1,
         "password" \in prompt.automatic => password' /\ "password" \in prompt.fields,
         UNCHANGED <<queue, held, certificates, approved, cancelled, sending, result, outcome>>
  PROVE  events' \in Seq(Notices) /\ (Numbered /\ Waiting /\ Agreed /\ Approvals /\ Ordered /\ Clean /\ NeverStale)'
<1> USE DEF AuthInv, Ask
<1>0. LET e == [kind |-> prompt.kind, id |-> prompt.id, peer |-> prompt.peer]
      IN  /\ events' \in Seq(Notices)
          /\ \A k \in 1..Len(events') : \/ k \in 1..Len(events) /\ events'[k] = events[k]
                                        \/ events'[k] = e
  <2> DEFINE e == [kind |-> prompt.kind, id |-> prompt.id, peer |-> prompt.peer]
  <2>1. e \in Notices /\ events' = Append(events, e) /\ events \in Seq(Notices)
    BY DEF Prompts, Notices, Event, Types, PromptKinds
  <2> HIDE DEF e
  <2>2. events' \in Seq(Notices)
        /\ \A k \in 1..Len(events') : (k \in 1..Len(events) /\ events'[k] = events[k]) \/ events'[k] = e
    BY <2>1, Appended
  <2> QED BY <2>2 DEF e
<1>1. Numbered'
  <2>1. \A k \in 1..Len(events') : events'[k].kind = "certificate" => events'[k].id \in Nat /\ events'[k].id <= calls'
    <3> SUFFICES ASSUME NEW k \in 1..Len(events'), events'[k].kind = "certificate"
                 PROVE  events'[k].id \in Nat /\ events'[k].id <= calls'
      OBVIOUS
    <3>1. calls \in Nat /\ calls' = calls + 1 /\ prompt.id \in Nat /\ prompt.id = calls + 1
      BY DEF Types
    <3>2. CASE k \in 1..Len(events) /\ events'[k] = events[k]
      <4>1. events[k].id \in Nat /\ events[k].id <= calls BY <3>2 DEF Numbered
      <4> QED BY <3>1, <3>2, <4>1
    <3>3. CASE events'[k] = [kind |-> prompt.kind, id |-> prompt.id, peer |-> prompt.peer]
      BY <3>1, <3>3
    <3> QED BY <1>0, <3>2, <3>3
  <2>2. pending' # None => pending'.id <= calls'
    BY DEF Types, Prompts
  <2>3. \A k \in 1..Len(queue) : queue[k].kind \in {"form", "certificate"} => queue[k].id \in Nat /\ queue[k].id <= calls'
    BY DEF Numbered, Types
  <2>4. held # None /\ held.kind = "certificate" => held.id \in Nat /\ held.id <= calls'
    BY DEF Numbered, Types
  <2>5. \A c \in certificates : c.id <= calls'
    BY DEF Numbered, Types
  <2> QED BY <2>1, <2>2, <2>3, <2>4, <2>5 DEF Numbered
<1>2. Waiting'
  BY DEF Waiting
<1>3. Agreed'
  <2>1. \A i \in Nat : i <= calls => i # prompt.id
    BY DEF Types
  <2>2. \A k \in 1..Len(events') : events'[k].kind = "certificate" =>
            (prompt.kind = "certificate" /\ prompt.id = events'[k].id => prompt.peer = events'[k].peer)
    BY <1>0, <2>1 DEF Numbered
  <2>3. \A c \in certificates : prompt.id # c.id
    BY <2>1 DEF Numbered, Types
  <2>4. held # None /\ held.kind = "certificate" => prompt.id # held.id
    BY <2>1 DEF Numbered
  <2>5. pending' = prompt /\ held' = held /\ certificates' = certificates
    OBVIOUS
  <2> QED BY <2>2, <2>3, <2>4, <2>5 DEF Agreed, Shows
<1>4. Approvals'
  BY DEF Approvals, Numbered, Types
<1>5. Ordered'
  BY DEF Ordered
<1>6. Clean'
  BY <1>0 DEF Clean, Prompts, PromptKinds
<1>7. NeverStale'
  BY DEF NeverStale
<1> QED BY <1>0, <1>1, <1>2, <1>3, <1>4, <1>5, <1>6, <1>7

\* A callback without a prompt only counts.
LEMMA NumberedGrows ==
  ASSUME AuthInv, calls' = calls + 1, UNCHANGED <<pending, queue, events, held, certificates>>
  PROVE  Numbered'
<1>1. \A i \in Nat : i <= calls => i <= calls'
  BY DEF AuthInv, Types
<1>2. pending # None => pending.id \in Nat
  BY DEF AuthInv, Types, Prompts
<1>3. \A c \in certificates : c.id \in Nat
  BY DEF AuthInv, Types
<1> QED BY <1>1, <1>2, <1>3 DEF AuthInv, Numbered

\* A callback that fails, and one that is content, leave the library at work.
LEMMA FailKeeps ==
  ASSUME AuthInv, worker \in {"native", "asking"}, NEW code \in Codes, Fail(code),
         code = "stale" => failure # None,
         UNCHANGED <<pending, events, held, cancelled, sending, result, outcome>>
  PROVE  failure' \in Codes /\ (Waiting /\ Approvals /\ Ordered /\ Clean /\ NeverStale)'
<1>1. failure' \in Codes /\ failure' # None /\ failure' # "stale"
  BY NoneAssumption DEF Fail, AuthInv, Types, NeverStale
<1> QED BY <1>1 DEF Fail, AuthInv, Waiting, Approvals, Ordered, Clean, NeverStale

\* An answered prompt leaves those conjuncts that nobody else reads as they were.
LEMMA AnsweredKeeps ==
  ASSUME AuthInv, worker \in {"native", "asking"}, Answered,
         failure = None /\ ~cancelled =>
             /\ pending' = None \/ (pending' = pending /\ worker = "native")
             /\ \A k \in 1..Len(queue') : queue'[k].kind = "browser",
         \A k \in 1..Len(events') : events'[k].kind # "finished" => k \in 1..Len(events) /\ events'[k] = events[k],
         UNCHANGED <<held, cancelled, sending, result, outcome>>
  PROVE  (Waiting /\ Approvals /\ Ordered /\ Clean /\ NeverStale)'
BY DEF Answered, AuthInv, Waiting, Approvals, Ordered, Clean, NeverStale


----------------------------------------------------------------------------
(* The worker                                                              *)

\* The worker up to the library, and from it.
LEMMA SetupKeeps == AuthInv /\ (Setup \/ Checked \/ Returns \/ Interrupted) => AuthInv'
<1> SUFFICES ASSUME AuthInv, Setup \/ Checked \/ Returns \/ Interrupted PROVE AuthInv'
  OBVIOUS
<1> USE DEF AuthInv, Setup, Checked, Returns, Interrupted, Leaves, Configure, KeyOptions, ProxyOptions, TokenOptions, workVars, answerVars, stopVars, clientVars, historyVars
<1>1. (Numbered /\ Agreed /\ Spent /\ Owed /\ PeersApproved /\ NeverStale /\ PinCommitted)'
  BY DEF Numbered, Agreed, Shows, Spent, Owed, PeersApproved, NeverStale, PinCommitted
<1>2. Types'
  BY DEF Types
<1>3. Waiting'
  BY DEF Waiting, Types
<1>4. Approvals'
  BY DEF Approvals, Waiting, Numbered
<1>5. Ordered'
  BY DEF Ordered, Waiting, Types
<1>6. Clean'
  BY NoneAssumption DEF Clean, Types, Codes
<1> QED BY <1>1, <1>2, <1>3, <1>4, <1>5, <1>6

\* Nothing is published once the worker has been dropped.
LEMMA ClosesKeeps == AuthInv /\ Closes => AuthInv'
<1> SUFFICES ASSUME AuthInv, Closes PROVE AuthInv'
  OBVIOUS
<1> USE DEF AuthInv, Closes, workVars, answerVars, stopVars, clientVars, historyVars
<1>1. (Spent /\ Owed /\ PeersApproved /\ NeverStale /\ PinCommitted)'
  BY DEF Spent, Owed, PeersApproved, NeverStale, PinCommitted
<1>2. Types'
  BY DEF Types
<1>3. Numbered'
  BY DEF Numbered, Types
<1>4. Waiting'
  BY DEF Waiting, Types
<1>5. Agreed'
  BY DEF Agreed, Shows, Numbered
<1>6. Approvals'
  BY DEF Approvals, Waiting, Numbered
<1>7. Ordered'
  BY DEF Ordered, Waiting, Types
<1>8. Clean'
  BY DEF Clean, Types
<1> QED BY <1>1, <1>2, <1>3, <1>4, <1>5, <1>6, <1>7, <1>8

\* The last event says how the worker left the library.
LEMMA AnnouncesKeeps == AuthInv /\ Announces => AuthInv'
<1> SUFFICES ASSUME AuthInv, Announces PROVE AuthInv'
  OBVIOUS
<1> USE DEF AuthInv, Announces, Event, workVars, answerVars, stopVars, clientVars, historyVars
<1>0. /\ events' \in Seq(Notices)
      /\ \A k \in 1..Len(events') : \/ k \in 1..Len(events) /\ events'[k] = events[k]
                                    \/ /\ events'[k].kind # "certificate"
                                       /\ events'[k].kind = "Authenticated" => result = "handoff"
  <2> DEFINE e == [kind |-> IF cancelled \/ result = "Cancelled" THEN "Cancelled"
                            ELSE IF result = "handoff" THEN "Authenticated" ELSE "Failed", id |-> None, peer |-> None]
  <2>1. e.kind # "certificate" /\ (e.kind = "Authenticated" => result = "handoff")
    OBVIOUS
  <2>2. e \in Notices /\ events' = Append(events, e) /\ events \in Seq(Notices)
    BY DEF Notices, Types, Ending, Views
  <2> HIDE DEF e
  <2> QED BY <2>1, <2>2, Appended
<1>1. (Spent /\ Owed /\ PeersApproved /\ NeverStale /\ PinCommitted)'
  BY DEF Spent, Owed, PeersApproved, NeverStale, PinCommitted
<1>2. Types'
  BY <1>0 DEF Types
<1>3. Numbered'
  BY <1>0 DEF Numbered
<1>4. Waiting'
  BY DEF Waiting, Types
<1>5. Agreed'
  BY <1>0 DEF Agreed, Shows
<1>6. Approvals'
  BY DEF Approvals, Waiting, Numbered
<1>7. Ordered'
  BY DEF Ordered, Waiting, Types
<1>8. Clean'
  BY <1>0 DEF Clean
<1> QED BY <1>1, <1>2, <1>3, <1>4, <1>5, <1>6, <1>7, <1>8

\* A callback that fails.
LEMMA TokenFailsKeeps == AuthInv /\ TokenFails => AuthInv'
<1> SUFFICES ASSUME AuthInv, TokenFails PROVE AuthInv'
  OBVIOUS
<1> USE DEF AuthInv, TokenFails, Called, workVars, answerVars, stopVars, clientVars, historyVars
<1>0. "KeyringUnavailable" \in Codes /\ "KeyringUnavailable" # "stale"
  BY DEF Codes
<1>1. (Agreed /\ Spent /\ Owed /\ PeersApproved /\ PinCommitted)'
  BY DEF Agreed, Shows, Spent, Owed, PeersApproved, PinCommitted
<1>2. Types'
  BY <1>0, FailKeeps DEF Types, Fail
<1>3. Numbered'
  BY NumberedGrows
<1>4. Waiting'
  BY <1>0, FailKeeps
<1>5. Approvals'
  BY <1>0, FailKeeps
<1>6. Ordered'
  BY <1>0, FailKeeps
<1>7. Clean'
  BY <1>0, FailKeeps
<1>8. NeverStale'
  BY <1>0, FailKeeps
<1> QED BY <1>1, <1>2, <1>3, <1>4, <1>5, <1>6, <1>7, <1>8


\* A certificate that is not yet known to be fine is shown.
LEMMA CertificateArrivesKeeps == AuthInv /\ CertificateArrives => AuthInv'
<1> SUFFICES ASSUME AuthInv, Called,
                    \/ \E code \in Codes \ {"stale"} : Fail(code) /\ UNCHANGED <<pending, events>>
                    \/ Answered /\ UNCHANGED <<pending, events>>
                    \/ \E peer \in Peers : Ask(Prompt("certificate", peer, {}, {})),
                    UNCHANGED <<profile, result, answerVars, queue, stopVars, clientVars, sent, retried, approved, wanted, saved>>
             PROVE  AuthInv'
  <2> SUFFICES ASSUME AuthInv, CertificateArrives PROVE AuthInv'
    OBVIOUS
  <2>1. {"Cancelled", "ProtocolViolation", "CertificateRejected", "InvalidInput"} \subseteq Codes \ {"stale"}
    BY DEF Codes
  <2> QED BY <2>1 DEF CertificateArrives
<1> USE DEF answerVars, stopVars, clientVars
<1>1. (Spent /\ Owed /\ PeersApproved /\ PinCommitted)'
  BY DEF AuthInv, Spent, Owed, PeersApproved, PinCommitted
<1>2. worker = "native" /\ calls' = calls + 1
  BY DEF Called
<1>3. CASE \E code \in Codes \ {"stale"} : Fail(code) /\ UNCHANGED <<pending, events>>
  <2> PICK code \in Codes \ {"stale"} : Fail(code) /\ UNCHANGED <<pending, events>>
    BY <1>3
  <2>1. failure' \in Codes /\ (Waiting /\ Approvals /\ Ordered /\ Clean /\ NeverStale)'
    BY <1>2, FailKeeps
  <2>2. Types'
    BY <1>2, <2>1 DEF AuthInv, Types, Fail
  <2>3. (Numbered /\ Agreed)'
    BY <1>2, NumberedGrows DEF AuthInv, Agreed, Shows
  <2> QED BY <1>1, <2>1, <2>2, <2>3 DEF AuthInv
<1>4. CASE Answered /\ UNCHANGED <<pending, events>>
  <2>1. (Waiting /\ Approvals /\ Ordered /\ Clean /\ NeverStale)'
    BY <1>2, <1>4, AnsweredKeeps DEF AuthInv, Ordered
  <2>2. Types'
    BY <1>2, <1>4 DEF AuthInv, Types, Answered
  <2>3. (Numbered /\ Agreed)'
    BY <1>2, <1>4, NumberedGrows DEF AuthInv, Agreed, Shows
  <2> QED BY <1>1, <2>1, <2>2, <2>3 DEF AuthInv
<1>5. CASE \E peer \in Peers : Ask(Prompt("certificate", peer, {}, {}))
  <2> PICK peer \in Peers : Ask(Prompt("certificate", peer, {}, {}))
    BY <1>5
  <2>1. Prompt("certificate", peer, {}, {}) \in Prompts /\ Prompt("certificate", peer, {}, {}).id = calls + 1
        /\ "password" \notin Prompt("certificate", peer, {}, {}).automatic
    BY DEF Prompt, Prompts, PromptKinds, Views, AuthInv, Types
  <2>2. events' \in Seq(Notices) /\ (Numbered /\ Waiting /\ Agreed /\ Approvals /\ Ordered /\ Clean /\ NeverStale)'
    BY <1>2, <2>1, AskKeeps
  <2>3. Types'
    BY <1>2, <2>1, <2>2 DEF AuthInv, Types, Ask
  <2> QED BY <1>1, <2>2, <2>3 DEF AuthInv
<1> QED BY <1>3, <1>4, <1>5


\* A form that is left to the library again, whatever was made of it.
LEMMA FormSettles ==
  ASSUME AuthInv, Called, Answered \/ (\E code \in Codes \ {"stale"} : Fail(code)),
         password' \in BOOLEAN, sent' \in Nat, sent' <= 1, password' => sent' = 0,
         UNCHANGED <<pending, events, profile, result, embedded, accepted, queue, stopVars, clientVars,
                     retried, approved, wanted, saved>>
  PROVE  AuthInv'
<1> USE DEF stopVars, clientVars
<1>1. worker = "native" /\ calls' = calls + 1
  BY DEF Called
<1>2. failure' \in Codes \cup {None} /\ (Waiting /\ Approvals /\ Ordered /\ Clean /\ NeverStale)'
  <2>1. CASE Answered
    BY <1>1, <2>1, AnsweredKeeps DEF AuthInv, Ordered, Types, Answered
  <2>2. ASSUME NEW code \in Codes \ {"stale"}, Fail(code)
        PROVE  failure' \in Codes \cup {None} /\ (Waiting /\ Approvals /\ Ordered /\ Clean /\ NeverStale)'
    BY <1>1, <2>2, FailKeeps
  <2> QED BY <2>1, <2>2
<1>3. worker' = "native" /\ asking' = None /\ failed' \in BOOLEAN
  BY DEF Answered, Fail, AuthInv, Types
<1>4. Types'
  BY <1>1, <1>2, <1>3 DEF AuthInv, Types
<1>5. (Numbered /\ Agreed /\ Spent /\ Owed /\ PeersApproved /\ PinCommitted)'
  BY <1>1, NumberedGrows DEF AuthInv, Agreed, Shows, Spent, Owed, PeersApproved, PinCommitted
<1> QED BY <1>2, <1>4, <1>5 DEF AuthInv

\* A form that the user is asked to fill in: the saved password may wait for it.
LEMMA FormAsks ==
  ASSUME AuthInv, Called, NEW fields \in SUBSET FieldNames, NEW automatic \in SUBSET fields,
         Ask(Prompt("form", None, fields, automatic)),
         password' \in BOOLEAN, password' => password, "password" \in automatic => password',
         UNCHANGED <<profile, result, embedded, accepted, queue, stopVars, clientVars,
                     sent, retried, approved, wanted, saved>>
  PROVE  AuthInv'
<1> USE DEF stopVars, clientVars
<1>1. worker = "native" /\ calls' = calls + 1
  BY DEF Called
<1> DEFINE prompt == Prompt("form", None, fields, automatic)
<1>2. prompt \in Prompts /\ prompt.id = calls + 1 /\ prompt.fields = fields /\ prompt.automatic = automatic
  BY DEF Prompt, Prompts, PromptKinds, Views, AuthInv, Types
<1>3. Ask(prompt)
  OBVIOUS
<1> HIDE DEF prompt
<1>4. events' \in Seq(Notices) /\ (Numbered /\ Waiting /\ Agreed /\ Approvals /\ Ordered /\ Clean /\ NeverStale)'
  BY <1>1, <1>2, <1>3, AskKeeps
<1>5. Types'
  BY <1>1, <1>2, <1>3, <1>4 DEF AuthInv, Types, Ask
<1>6. (Spent /\ Owed /\ PeersApproved /\ PinCommitted)'
  BY DEF AuthInv, Spent, Owed, PeersApproved, PinCommitted
<1> QED BY <1>4, <1>5, <1>6 DEF AuthInv

\* Whatever is applied to a form, the saved password is gone once it was sent.
LEMMA SpendKeeps ==
  ASSUME AuthInv, NEW keeps \in BOOLEAN, keeps => password, NEW fields, NEW automatic,
         "password" \in automatic => password /\ "password" \in fields,
         Spend(keeps, fields, automatic) \/ (password' = keeps /\ UNCHANGED sent)
  PROVE  password' \in BOOLEAN /\ sent' \in Nat /\ sent' <= 1 /\ (password' => sent' = 0)
<1>1. sent \in Nat /\ sent <= 1 /\ (password => sent = 0)
  BY DEF AuthInv, Types, Spent
<1>2. CASE Spend(keeps, fields, automatic)
  <2>1. CASE "password" \in automatic
    <3>1. password' = FALSE
      BY <1>2, <2>1 DEF Spend
    <3>2. sent' = sent + 1 /\ sent = 0
      BY <1>1, <1>2, <2>1 DEF Spend
    <3>3. password' \in BOOLEAN /\ ~password'
      BY <3>1
    <3> QED BY <3>2, <3>3
  <2>2. CASE "password" \notin automatic
    BY <1>1, <1>2, <2>2 DEF Spend
  <2> QED BY <2>1, <2>2
<1>3. CASE password' = keeps /\ UNCHANGED sent
  BY <1>1, <1>3
<1> QED BY <1>2, <1>3

\* A form of the server is shown, answered from memory, or refused.
LEMMA FormArrivesKeeps == AuthInv /\ FormArrives => AuthInv'
<1> SUFFICES ASSUME AuthInv, FormArrives PROVE AuthInv'
  OBVIOUS
<1>1. Called /\ UNCHANGED <<profile, result, embedded, accepted, queue, stopVars, clientVars, retried, approved, wanted, saved>>
  BY DEF FormArrives
<1>2. sent \in Nat /\ sent <= 1 /\ (password => sent = 0) /\ password \in BOOLEAN
  BY DEF AuthInv, Types, Spent
<1>3. CASE failure # None \/ cancelled
  <2>1. Fail(IF failure # None THEN "AuthenticationRejected" ELSE "Cancelled") /\ UNCHANGED <<password, sent, pending, events>>
    BY <1>3 DEF FormArrives
  <2>2. \E code \in Codes \ {"stale"} : Fail(code)
    BY <2>1 DEF Codes
  <2> QED BY <1>1, <1>2, <2>1, <2>2, FormSettles
<1>4. ASSUME NEW f \in Forms, Unreadable(f) PROVE AuthInv'
  <2>1. \E code \in Codes \ {"stale"} : Fail(code)
    BY <1>4 DEF Codes, Unreadable
  <2>2. password' \in BOOLEAN /\ (password' => password) /\ UNCHANGED <<sent, pending, events>>
    BY <1>2, <1>4 DEF Unreadable, Keeps
  <2> QED BY <1>1, <1>2, <2>1, <2>2, FormSettles
<1>5. ASSUME NEW f \in Forms, FormGroup(f) PROVE AuthInv'
  <2>1. password' \in BOOLEAN /\ (password' => password) /\ UNCHANGED sent
    BY <1>2, <1>5 DEF FormGroup, Keeps
  <2>2. CASE profile.group
    <3>1. (Answered \/ Fail("AuthenticationRequired")) /\ UNCHANGED <<pending, events>>
      BY <1>5, <2>2 DEF FormGroup
    <3>2. Answered \/ (\E code \in Codes \ {"stale"} : Fail(code))
      BY <3>1 DEF Codes
    <3> QED BY <1>1, <1>2, <2>1, <3>1, <3>2, FormSettles
  <2>3. CASE ~profile.group
    <3>1. Ask(Prompt("form", None, {"group"}, {}))
      BY <1>5, <2>3 DEF FormGroup
    <3>2. {"group"} \in SUBSET FieldNames
      BY DEF FieldNames
    <3> QED BY <1>1, <2>1, <3>1, <3>2, FormAsks
  <2> QED BY <2>2, <2>3
<1>6. ASSUME NEW f \in Forms, FormFields(f) PROVE AuthInv'
  <2>1. /\ f.fields \in SUBSET FieldNames /\ Automatic(f) \in SUBSET f.fields
        /\ "password" \in Automatic(f) => password /\ "password" \in f.fields /\ Keeps(f)
        /\ Keeps(f) \in BOOLEAN /\ (Keeps(f) => password)
    BY <1>2, AuthAssumption DEF FieldNames, Automatic, Keeps
  <2>2. CASE Ask(Prompt("form", None, f.fields, Automatic(f))) /\ password' = Keeps(f) /\ UNCHANGED sent
    BY <1>1, <2>1, <2>2, FormAsks
  <2>3. CASE Apply(Keeps(f), f.fields, Automatic(f)) /\ UNCHANGED <<pending, events>>
    <3>1. password' \in BOOLEAN /\ sent' \in Nat /\ sent' <= 1 /\ (password' => sent' = 0)
      BY <2>1, <2>3, SpendKeeps DEF Apply
    <3>2. Answered \/ (\E code \in Codes \ {"stale"} : Fail(code))
      BY <2>3 DEF Apply, Codes
    <3> QED BY <1>1, <2>3, <3>1, <3>2, FormSettles
  <2>4. CASE /\ password' = Keeps(f) /\ UNCHANGED <<sent, pending, events>>
             /\ Answered \/ Fail("AuthenticationRequired")
    <3>1. Answered \/ (\E code \in Codes \ {"stale"} : Fail(code))
      BY <2>4 DEF Codes
    <3> QED BY <1>1, <1>2, <2>1, <2>4, <3>1, FormSettles
  <2> QED BY <1>6, <2>2, <2>3, <2>4 DEF FormFields
<1> QED BY <1>3, <1>4, <1>5, <1>6 DEF FormArrives

\* A sign-on is asked for, or the phase is tried again for an embedded browser.
LEMMA BrowserArrivesKeeps == AuthInv /\ BrowserArrives => AuthInv'
<1> SUFFICES ASSUME AuthInv, NEW kind \in {"Webview", "External"}, NEW phase \in Phases, Called,
                    \/ \E code \in Codes \ {"stale"} : Fail(code) /\ UNCHANGED <<embedded, retried, pending, events>>
                    \/ /\ phase \notin embedded /\ Answered /\ UNCHANGED <<pending, events>>
                       /\ embedded' = embedded \cup {phase} /\ retried' = [retried EXCEPT ![phase] = @ + 1]
                    \/ Ask(Prompt("browser", kind, {}, {})) /\ UNCHANGED <<embedded, retried>>,
                    UNCHANGED <<profile, result, password, group, empty, accepted, queue, stopVars, clientVars,
                                sent, approved, wanted, saved>>
             PROVE  AuthInv'
  BY DEF BrowserArrives, Incomplete, Codes, RetryEmbedded
<1> USE DEF stopVars, clientVars
<1>0. sent \in Nat /\ sent <= 1 /\ (password => sent = 0) /\ password \in BOOLEAN
  BY DEF AuthInv, Types, Spent
<1>1. worker = "native" /\ calls' = calls + 1
  BY DEF Called
<1>2. CASE \E code \in Codes \ {"stale"} : Fail(code) /\ UNCHANGED <<embedded, retried, pending, events>>
  BY <1>0, <1>2, FormSettles
<1>3. CASE /\ phase \notin embedded /\ Answered /\ UNCHANGED <<pending, events>>
           /\ embedded' = embedded \cup {phase} /\ retried' = [retried EXCEPT ![phase] = @ + 1]
  <2>1. (Waiting /\ Approvals /\ Ordered /\ Clean /\ NeverStale)'
    BY <1>1, <1>3, AnsweredKeeps DEF AuthInv, Ordered
  <2>2. (Numbered /\ Agreed /\ Owed /\ PeersApproved /\ PinCommitted)'
    BY <1>1, <1>3, NumberedGrows DEF AuthInv, Agreed, Shows, Owed, PeersApproved, PinCommitted
  <2>3. Types'
    BY <1>1, <1>3 DEF AuthInv, Types, Answered
  <2>4. Spent'
    BY <1>3 DEF AuthInv, Types, Spent
  <2> QED BY <2>1, <2>2, <2>3, <2>4 DEF AuthInv
<1>4. CASE Ask(Prompt("browser", kind, {}, {})) /\ UNCHANGED <<embedded, retried>>
  <2> DEFINE prompt == Prompt("browser", kind, {}, {})
  <2>1. prompt \in Prompts /\ prompt.id = calls + 1 /\ "password" \notin prompt.automatic
    BY DEF Prompt, Prompts, PromptKinds, Views, AuthInv, Types
  <2>2. Ask(prompt)
    BY <1>4
  <2> HIDE DEF prompt
  <2>3. events' \in Seq(Notices) /\ (Numbered /\ Waiting /\ Agreed /\ Approvals /\ Ordered /\ Clean /\ NeverStale)'
    BY <1>1, <2>1, <2>2, AskKeeps
  <2>4. Types'
    BY <1>1, <1>4, <2>1, <2>2, <2>3 DEF AuthInv, Types, Ask
  <2>5. (Spent /\ Owed /\ PeersApproved /\ PinCommitted)'
    BY <1>4 DEF AuthInv, Spent, Owed, PeersApproved, PinCommitted
  <2> QED BY <2>3, <2>4, <2>5 DEF AuthInv
<1> QED BY <1>2, <1>3, <1>4


----------------------------------------------------------------------------
(* An answer is received, or none is                                       *)

\* What the worker takes from the queue is for the prompt it waits with, unless
\* it is a leftover of a browser or something has failed.
LEMMA HeadFits ==
  ASSUME AuthInv, worker = "asking", ~cancelled, queue # <<>>
  PROVE  /\ Head(queue) \in Messages /\ Tail(queue) \in Seq(Messages)
         /\ failure = None /\ ~Leftover(Head(queue)) => Head(queue).kind = asking.kind
         /\ failure = None /\ Head(queue).kind # "browser" =>
              /\ Head(queue).id = asking.id /\ pending = None
              /\ \A k \in 1..Len(Tail(queue)) : Tail(queue)[k].kind = "browser"
         /\ \A k \in 1..Len(Tail(queue)) : k + 1 \in 1..Len(queue) /\ Tail(queue)[k] = queue[k + 1]
<1>1. /\ Head(queue) \in Messages /\ Head(queue) = queue[1] /\ 1 \in 1..Len(queue) /\ Tail(queue) \in Seq(Messages)
      /\ \A k \in 1..Len(Tail(queue)) : k + 1 \in 1..Len(queue) /\ Tail(queue)[k] = queue[k + 1]
  BY Dropped DEF AuthInv, Types
<1>2. ASSUME failure = None, Head(queue).kind # "browser"
      PROVE  /\ Head(queue).kind = asking.kind /\ Head(queue).id = asking.id /\ pending = None
             /\ \A k \in 1..Len(Tail(queue)) : Tail(queue)[k].kind = "browser"
  <2>1. /\ Head(queue).kind = asking.kind /\ Head(queue).id = asking.id /\ pending = None
        /\ \A j \in 1..Len(queue) : queue[j].kind # "browser" => j = 1
    BY <1>1, <1>2 DEF AuthInv, Ordered
  <2>2. ASSUME NEW k \in 1..Len(Tail(queue)) PROVE Tail(queue)[k].kind = "browser"
    BY <1>1, <2>1
  <2> QED BY <2>1, <2>2
<1>3. ASSUME failure = None, ~Leftover(Head(queue)), Head(queue).kind = "browser" PROVE Head(queue).kind = asking.kind
  BY <1>3 DEF Leftover, Current, AuthInv, Waiting
<1> QED BY <1>1, <1>2, <1>3

\* With one message less, and the prompt still open or taken.
LEMMA TailKeeps ==
  ASSUME AuthInv, queue # <<>>, queue' = Tail(queue), UNCHANGED <<held, certificates, calls>>,
         \A k \in 1..Len(events') : events'[k].kind # "finished" => k \in 1..Len(events) /\ events'[k] = events[k],
         pending' \in {pending, None}
  PROVE  queue' \in Seq(Messages) /\ (Numbered /\ Agreed)'
<1>1. /\ queue' \in Seq(Messages)
      /\ \A k \in 1..Len(queue') : k + 1 \in 1..Len(queue) /\ queue'[k] = queue[k + 1]
  BY Dropped DEF AuthInv, Types
<1> QED BY <1>1 DEF AuthInv, Numbered, Agreed, Shows

\* The worker is done with its prompt: the answer fails, or the library goes on.
LEMMA DoneAsking ==
  ASSUME AuthInv, worker = "asking", ~cancelled, queue # <<>>, queue' = Tail(queue),
         \/ /\ \E code \in Codes : Fail(code) /\ (code = "stale" => failure # None) /\ UNCHANGED pending
            /\ UNCHANGED events
         \/ Answered /\ (failure = None => pending' = None /\ \A k \in 1..Len(queue') : queue'[k].kind = "browser"),
         events' \in Seq(Notices),
         \A k \in 1..Len(events') : events'[k].kind # "finished" => k \in 1..Len(events) /\ events'[k] = events[k],
         pending' \in {pending, None},
         password' \in BOOLEAN, sent' \in Nat, sent' <= 1, password' => sent' = 0, accepted' \subseteq approved,
         UNCHANGED <<calls, profile, result, embedded, cancelled, sending, clientVars, retried, approved, wanted, saved>>
  PROVE  AuthInv'
<1> USE DEF clientVars
<1>1. queue' \in Seq(Messages) /\ (Numbered /\ Agreed)'
  BY TailKeeps
<1>2. failure' \in Codes \cup {None} /\ (Waiting /\ Approvals /\ Ordered /\ Clean /\ NeverStale)'
  <2>1. ASSUME NEW code \in Codes, Fail(code), code = "stale" => failure # None, UNCHANGED <<pending, events>>
        PROVE  failure' \in Codes \cup {None} /\ (Waiting /\ Approvals /\ Ordered /\ Clean /\ NeverStale)'
    BY <2>1, FailKeeps
  <2>2. CASE Answered /\ (failure = None => pending' = None /\ \A k \in 1..Len(queue') : queue'[k].kind = "browser")
    BY <2>2, AnsweredKeeps DEF AuthInv, Types, Answered
  <2> QED BY <2>1, <2>2
<1>3. worker' = "native" /\ asking' = None /\ failed' \in BOOLEAN
  BY DEF Answered, Fail, AuthInv, Types
<1>4. Types'
  BY <1>1, <1>2, <1>3 DEF AuthInv, Types
<1>5. (Spent /\ Owed /\ PeersApproved /\ PinCommitted)'
  BY DEF AuthInv, Spent, Owed, PeersApproved, PinCommitted
<1> QED BY <1>1, <1>2, <1>4, <1>5 DEF AuthInv

\* The worker takes the answer to its prompt.
LEMMA ReceivesKeeps == AuthInv /\ Receives => AuthInv'
<1> SUFFICES ASSUME AuthInv, Receives PROVE AuthInv'
  OBVIOUS
<1> DEFINE r == Head(queue)
<1>1. /\ worker = "asking" /\ ~cancelled /\ queue # <<>> /\ queue' = Tail(queue)
      /\ UNCHANGED <<profile, result, embedded, cancelled, sending, calls, clientVars, retried, approved, wanted, saved>>
  BY DEF Receives, stopVars
<1>2. sent \in Nat /\ sent <= 1 /\ (password => sent = 0) /\ password \in BOOLEAN /\ accepted \subseteq approved
      /\ asking \in Prompts /\ ("password" \in asking.automatic => password /\ "password" \in asking.fields)
  BY <1>1 DEF AuthInv, Types, Spent, PeersApproved, Waiting
<1>3. /\ r \in Messages /\ Tail(queue) \in Seq(Messages)
      /\ failure = None /\ ~Leftover(r) => r.kind = asking.kind
      /\ failure = None /\ r.kind # "browser" =>
           r.id = asking.id /\ pending = None /\ \A k \in 1..Len(queue') : queue'[k].kind = "browser"
      /\ \A k \in 1..Len(queue') : k + 1 \in 1..Len(queue) /\ queue'[k] = queue[k + 1]
  BY <1>1, HeadFits
<1>0. events \in Seq(Notices)
  BY DEF AuthInv, Types
<1>4. ASSUME UNCHANGED <<worker, asking, failure, failed, accepted, password, group, sent, empty, pending, events>>
      PROVE  AuthInv'
  <2>1. queue' \in Seq(Messages) /\ (Numbered /\ Agreed)'
    BY <1>1, <1>4, TailKeeps DEF clientVars
  <2>2. Types'
    BY <1>1, <1>4, <2>1 DEF AuthInv, Types, clientVars
  <2>3. Approvals'
    BY <1>1, <1>3, <1>4 DEF AuthInv, Approvals
  <2>4. Ordered'
    <3> SUFFICES ASSUME failure = None, NEW k \in 1..Len(queue'), queue'[k].kind # "browser"
                 PROVE  /\ pending = None /\ queue'[k].kind = asking.kind /\ queue'[k].id = asking.id
                        /\ \A j \in 1..Len(queue') : queue'[j].kind # "browser" => j = k
      BY <1>1, <1>4 DEF AuthInv, Ordered
    <3>1. k + 1 \in 1..Len(queue) /\ queue'[k] = queue[k + 1]
      BY <1>3
    <3>2. /\ pending = None /\ queue'[k].kind = asking.kind /\ queue'[k].id = asking.id
          /\ \A i \in 1..Len(queue) : queue[i].kind # "browser" => i = k + 1
      BY <1>1, <3>1 DEF AuthInv, Ordered
    <3>3. ASSUME NEW j \in 1..Len(queue'), queue'[j].kind # "browser" PROVE j = k
      BY <1>3, <3>2, <3>3
    <3> QED BY <3>2, <3>3
  <2>5. (Waiting /\ Clean /\ NeverStale /\ Spent /\ Owed /\ PeersApproved /\ PinCommitted)'
    BY <1>1, <1>4 DEF clientVars, AuthInv, Waiting, Clean, NeverStale, Spent, Owed, PeersApproved, PinCommitted
  <2> QED BY <2>1, <2>2, <2>3, <2>4, <2>5 DEF AuthInv
<1>5. ASSUME ~Leftover(r), r.kind # asking.kind, Fail(IF r.kind = "cancel" THEN "Cancelled" ELSE "stale"),
             UNCHANGED <<accepted, password, group, sent, empty, pending, events>>
      PROVE  AuthInv'
  <2>1. \E code \in Codes : Fail(code) /\ (code = "stale" => failure # None) /\ UNCHANGED pending
    BY <1>3, <1>5 DEF Codes
  <2> QED BY <1>0, <1>1, <1>2, <1>5, <2>1, DoneAsking
<1>6. ASSUME r.kind = "form", FormAnswered(r) PROVE AuthInv'
  <2>1. CASE r.id # asking.id /\ Fail("stale") /\ UNCHANGED <<password, group, sent>>
    <3>1. \E code \in Codes : Fail(code) /\ (code = "stale" => failure # None) /\ UNCHANGED pending
      BY <1>3, <1>6, <2>1 DEF Codes, FormAnswered
    <3> QED BY <1>0, <1>1, <1>2, <1>6, <2>1, <3>1, DoneAsking DEF FormAnswered
  <2>2. CASE Fail("Cancelled") /\ UNCHANGED <<password, group, sent>>
    <3>1. \E code \in Codes : Fail(code) /\ (code = "stale" => failure # None) /\ UNCHANGED pending
      BY <1>6, <2>2 DEF Codes, FormAnswered
    <3> QED BY <1>0, <1>1, <1>2, <1>6, <2>2, <3>1, DoneAsking DEF FormAnswered
  <2>3. CASE Apply(password, asking.fields, asking.automatic)
    <3>1. password' \in BOOLEAN /\ sent' \in Nat /\ sent' <= 1 /\ (password' => sent' = 0)
      BY <1>2, <2>3, SpendKeeps DEF Apply
    <3>2. \/ \E code \in Codes : Fail(code) /\ (code = "stale" => failure # None) /\ UNCHANGED pending
          \/ Answered /\ (failure = None => pending' = None /\ \A k \in 1..Len(queue') : queue'[k].kind = "browser")
      BY <1>3, <1>6, <2>3 DEF Apply, Codes, FormAnswered
    <3> QED BY <1>0, <1>1, <1>2, <1>6, <3>1, <3>2, DoneAsking DEF FormAnswered
  <2> QED BY <1>6, <2>1, <2>2, <2>3 DEF FormAnswered
<1>7. ASSUME r.kind = "certificate", asking.kind = "certificate", CertificateAnswered(r) PROVE AuthInv'
  <2>1. CASE UNCHANGED accepted /\ \E code \in {"stale", "CertificateRejected"} :
                                     Fail(code) /\ (code = "stale" => r.id # asking.id)
    <3>1. \E code \in Codes : Fail(code) /\ (code = "stale" => failure # None) /\ UNCHANGED pending
      BY <1>3, <1>7, <2>1 DEF Codes, CertificateAnswered
    <3> QED BY <1>0, <1>1, <1>2, <1>7, <2>1, <3>1, DoneAsking DEF CertificateAnswered
  <2>2. CASE r.id = asking.id /\ r.say # "reject" /\ accepted' = accepted \cup {asking.peer} /\ Answered
    <3>1. asking.peer \in approved
      <4>1. r = queue[1] /\ 1 \in 1..Len(queue)
        BY <1>1, Dropped DEF AuthInv, Types
      <4> QED BY <1>1, <1>7, <2>2, <4>1 DEF AuthInv, Approvals
    <3>2. Answered /\ (failure = None => pending' = None /\ \A k \in 1..Len(queue') : queue'[k].kind = "browser")
      BY <1>3, <1>7, <2>2 DEF CertificateAnswered
    <3> QED BY <1>0, <1>1, <1>2, <1>7, <2>2, <3>1, <3>2, DoneAsking DEF CertificateAnswered
  <2> QED BY <1>7, <2>1, <2>2 DEF CertificateAnswered
<1>8. ASSUME ~Leftover(r), r.kind = "browser", asking.kind = "browser", BrowserAnswered(r) PROVE AuthInv'
  <2>1. pending # None
    BY <1>8 DEF Leftover, Current
  <2>2. failure = None => \A k \in 1..Len(queue') : queue'[k].kind = "browser"
    BY <1>1, <1>3, <2>1 DEF AuthInv, Ordered
  <2>3. UNCHANGED <<accepted, password, group, sent, empty>>
    BY <1>8 DEF BrowserAnswered
  <2>4. CASE UNCHANGED <<pending, events>> /\ \E code \in {"BrowserFailed", "Cancelled", "AuthenticationRejected"} : Fail(code)
    <3>1. \E code \in Codes : Fail(code) /\ (code = "stale" => failure # None) /\ UNCHANGED pending
      BY <2>4 DEF Codes
    <3> QED BY <1>0, <1>1, <1>2, <2>3, <2>4, <3>1, DoneAsking
  <2>5. CASE pending' = None /\ Answered /\ UNCHANGED events
    BY <1>0, <1>1, <1>2, <2>2, <2>3, <2>5, DoneAsking
  <2>6. CASE UNCHANGED <<worker, asking, failure, failed, pending, events>>
    BY <1>4, <2>3, <2>6
  <2>7. CASE pending' = None /\ Answered /\ Event("finished", asking.id, None)
    <3> DEFINE e == [kind |-> "finished", id |-> asking.id, peer |-> None]
    <3>1. e \in Notices /\ e.kind = "finished" /\ events' = Append(events, e)
      BY <1>2, <2>7 DEF Event, Notices, Prompts, Views
    <3> HIDE DEF e
    <3>2. /\ events' \in Seq(Notices)
          /\ \A k \in 1..Len(events') : events'[k].kind # "finished" => k \in 1..Len(events) /\ events'[k] = events[k]
      BY <1>0, <3>1, Appended
    <3> QED BY <1>1, <1>2, <2>2, <2>3, <2>7, <3>2, DoneAsking
  <2> QED BY <1>8, <2>4, <2>5, <2>6, <2>7 DEF BrowserAnswered
<1> QED BY <1>4, <1>5, <1>6, <1>7, <1>8 DEF Receives


\* A prompt that nobody answers in time is over.
LEMMA ExpiresKeeps == AuthInv /\ Expires => AuthInv'
<1> SUFFICES ASSUME AuthInv, Expires PROVE AuthInv'
  OBVIOUS
<1> USE DEF Expires, answerVars, stopVars, clientVars
<1>1. failure' \in Codes /\ (Waiting /\ Approvals /\ Ordered /\ Clean /\ NeverStale)'
  <2>1. "Cancelled" \in Codes /\ "Expired" \in Codes
    BY DEF Codes
  <2> QED BY <2>1, FailKeeps
<1>2. Types'
  BY <1>1 DEF AuthInv, Types, Fail
<1>3. (Numbered /\ Agreed /\ Spent /\ Owed /\ PeersApproved /\ PinCommitted)'
  BY DEF AuthInv, Numbered, Agreed, Shows, Spent, Owed, PeersApproved, PinCommitted
<1> QED BY <1>1, <1>2, <1>3 DEF AuthInv

----------------------------------------------------------------------------
(* The interface and the browser task                                      *)

\* An answer that is put into the queue.
LEMMA Said ==
  ASSUME AuthInv, NEW kind \in PromptKinds \cup {"cancel"}, NEW id \in Nat \cup {None},
         NEW say \in {"answer", "dismiss", "reject", "accept", "pin", "page", "opened", "fail", "cancel"}, Say(kind, id, say)
  PROVE  /\ queue' \in Seq(Messages)
         /\ \A k \in 1..Len(queue') : \/ k \in 1..Len(queue) /\ queue'[k] = queue[k]
                                      \/ /\ k = Len(queue) + 1 /\ queue'[k].kind = kind /\ queue'[k].id = id
                                         /\ queue'[k].say = say
<1> DEFINE m == [kind |-> kind, id |-> id, say |-> say]
<1>1. m \in Messages /\ m.kind = kind /\ m.id = id /\ m.say = say /\ queue' = Append(queue, m) /\ queue \in Seq(Messages)
  BY DEF Say, Messages, AuthInv, Types
<1> HIDE DEF m
<1> QED BY <1>1, Appended

\* An answer takes its prompt with it, so there is no other.
LEMMA TakenKeeps ==
  ASSUME AuthInv, pending # None, pending' = None, UNCHANGED <<worker, asking, failure, cancelled, sending, calls, events, held>>,
         certificates' \subseteq certificates,
         queue' \in Seq(Messages),
         \A k \in 1..Len(queue') : \/ k \in 1..Len(queue) /\ queue'[k] = queue[k]
                                   \/ k = Len(queue) + 1 /\ queue'[k].kind = pending.kind /\ queue'[k].id = pending.id
  PROVE  (Numbered /\ Agreed /\ Ordered)'
<1>1. pending \in Prompts /\ pending.id \in Nat /\ pending.id <= calls
  BY DEF AuthInv, Types, Numbered, Prompts
<1>2. Numbered'
  BY <1>1 DEF AuthInv, Numbered
<1>3. Agreed'
  BY DEF Agreed, Shows
<1>4. Ordered'
  <2> SUFFICES ASSUME failure = None, ~cancelled, NEW k \in 1..Len(queue'), queue'[k].kind # "browser"
               PROVE  /\ worker = "asking" /\ queue'[k].kind = asking.kind /\ queue'[k].id = asking.id
                      /\ \A j \in 1..Len(queue') : queue'[j].kind # "browser" => j = k
    BY DEF AuthInv, Ordered
  <2>1. worker = "asking" /\ pending = asking /\ \A j \in 1..Len(queue) : queue[j].kind = "browser"
    BY DEF AuthInv, Ordered, Waiting
  <2> QED BY <2>1
<1> QED BY <1>2, <1>3, <1>4

\* reply: what the user typed is for the prompt it takes.
LEMMA RepliesKeeps == AuthInv /\ Replies => AuthInv'
<1> SUFFICES ASSUME AuthInv, NEW say \in {"answer", "dismiss"}, Replies, Say("form", pending.id, say) PROVE AuthInv'
  BY DEF Replies
<1> USE DEF Replies, workVars, answerVars, stopVars, clientVars, historyVars
<1>0. pending \in Prompts /\ pending.id \in Nat
  BY DEF AuthInv, Types, Prompts
<1>1. /\ queue' \in Seq(Messages)
      /\ \A k \in 1..Len(queue') : \/ k \in 1..Len(queue) /\ queue'[k] = queue[k]
                                   \/ k = Len(queue) + 1 /\ queue'[k].kind = "form" /\ queue'[k].id = pending.id
  BY <1>0, Said DEF PromptKinds
<1>2. (Numbered /\ Agreed /\ Ordered)'
  BY <1>1, TakenKeeps
<1>3. Types'
  BY <1>1 DEF AuthInv, Types
<1>4. Approvals'
  BY <1>1 DEF AuthInv, Approvals
<1>5. (Waiting /\ Spent /\ Clean /\ Owed /\ PeersApproved /\ NeverStale /\ PinCommitted)'
  BY DEF AuthInv, Waiting, Spent, Clean, Owed, PeersApproved, NeverStale, PinCommitted
<1> QED BY <1>2, <1>3, <1>4, <1>5 DEF AuthInv

\* certificate_reply: the peer the user has seen is the one the prompt shows.
LEMMA CertificateRepliesKeeps == AuthInv /\ CertificateReplies => AuthInv'
<1> SUFFICES ASSUME AuthInv, NEW c \in certificates, NEW say \in {"reject", "accept", "pin"}, saving = None, ~stop,
                    CertificateReply(c.id, say),
                    approved' = IF say = "reject" THEN approved ELSE approved \cup {c.peer},
                    IF say = "pin" THEN saving' = c /\ wanted' = wanted \cup {c.peer} /\ UNCHANGED certificates
                      ELSE certificates' = certificates \ {c} /\ UNCHANGED <<saving, wanted>>,
                    UNCHANGED <<profile, workVars, answerVars, stopVars, events, calls, stop, held, browser, broken,
                                outcome, sent, retried, saved, failed>>
             PROVE  AuthInv'
  BY DEF CertificateReplies
<1> USE DEF CertificateReply, workVars, answerVars, stopVars
<1>0. /\ pending \in Prompts /\ pending.id \in Nat /\ pending.kind = "certificate" /\ pending.id = c.id
      /\ c \in [id : Nat, peer : Views] /\ c # None /\ pending.peer = c.peer
  BY NoneAssumption DEF AuthInv, Types, Prompts, Agreed, Shows
<1>1. /\ queue' \in Seq(Messages)
      /\ \A k \in 1..Len(queue') : \/ k \in 1..Len(queue) /\ queue'[k] = queue[k]
                                   \/ /\ k = Len(queue) + 1 /\ queue'[k].kind = "certificate" /\ queue'[k].id = c.id
                                      /\ queue'[k].say = say
  BY <1>0, Said DEF PromptKinds
<1>2. certificates' \subseteq certificates /\ saving' \in [id : Nat, peer : Views] \cup {None}
  BY <1>0
<1>3. (Numbered /\ Agreed /\ Ordered)'
  BY <1>0, <1>1, <1>2, TakenKeeps
<1>4. Types'
  BY <1>1, <1>2 DEF AuthInv, Types
<1>5. Approvals'
  BY <1>0, <1>1 DEF AuthInv, Approvals, Waiting
<1>6. Owed' /\ PinCommitted'
  <2>1. outcome # "Authenticated"
    BY DEF AuthInv, Clean
  <2>2. wanted' \subseteq saved' \cup (IF saving' = None THEN {} ELSE {saving'.peer})
    BY <1>0 DEF AuthInv, Owed
  <2> QED BY <2>1, <2>2 DEF AuthInv, Owed, PinCommitted
<1>7. (Waiting /\ Spent /\ Clean /\ PeersApproved /\ NeverStale)'
  BY DEF AuthInv, Waiting, Spent, Clean, PeersApproved, NeverStale
<1> QED BY <1>3, <1>4, <1>5, <1>6, <1>7 DEF AuthInv

\* A pin is in the store before the session can be handed over, or it is cancelled.
LEMMA PinSavedKeeps == AuthInv /\ PinSaved => AuthInv'
<1> SUFFICES ASSUME AuthInv, PinSaved PROVE AuthInv'
  OBVIOUS
<1> USE DEF PinSaved, Flag, workVars, answerVars
<1>1. Types'
  BY DEF AuthInv, Types
<1>2. Ordered'
  BY DEF AuthInv, Types, Ordered
<1>3. Owed'
  BY DEF AuthInv, Owed
<1>4. (Numbered /\ Waiting /\ Agreed /\ Approvals)'
  BY DEF AuthInv, Numbered, Waiting, Agreed, Shows, Approvals
<1>5. (Spent /\ Clean /\ PeersApproved /\ NeverStale /\ PinCommitted)'
  BY DEF AuthInv, Spent, Clean, PeersApproved, NeverStale, PinCommitted
<1> QED BY <1>1, <1>2, <1>3, <1>4, <1>5 DEF AuthInv

\* A cancellation, and its messages.
LEMMA CancelsKeeps == AuthInv /\ Cancels => AuthInv'
<1> SUFFICES ASSUME AuthInv, Cancels PROVE AuthInv'
  OBVIOUS
<1> USE DEF Cancels, Flag, workVars, answerVars, historyVars
<1>1. Types'
  BY DEF AuthInv, Types
<1>2. Ordered'
  BY DEF AuthInv, Ordered
<1>3. Owed' /\ PinCommitted' /\ Clean'
  BY DEF AuthInv, Owed, PinCommitted, Clean
<1>4. (Numbered /\ Waiting /\ Agreed /\ Approvals /\ Spent /\ PeersApproved /\ NeverStale)'
  BY DEF AuthInv, Numbered, Waiting, Agreed, Shows, Approvals, Spent, PeersApproved, NeverStale
<1> QED BY <1>1, <1>2, <1>3, <1>4 DEF AuthInv


\* The client's cancellation reaches the worker.
LEMMA CancelSendsKeeps == AuthInv /\ CancelSends => AuthInv'
<1> SUFFICES ASSUME AuthInv, CancelSends PROVE AuthInv'
  OBVIOUS
<1> USE DEF CancelSends, workVars, answerVars, historyVars
<1>1. /\ queue' \in Seq(Messages)
      /\ \A k \in 1..Len(queue') : \/ k \in 1..Len(queue) /\ queue'[k] = queue[k]
                                   \/ k = Len(queue) + 1 /\ queue'[k].kind = "cancel"
  <2>1. CASE Say("cancel", None, "cancel")
    <3> DEFINE m == [kind |-> "cancel", id |-> None, say |-> "cancel"]
    <3>1. m \in Messages /\ m.kind = "cancel" /\ queue' = Append(queue, m) /\ queue \in Seq(Messages)
      BY <2>1 DEF Say, Messages, AuthInv, Types
    <3> HIDE DEF m
    <3> QED BY <3>1, Appended
  <2>2. CASE UNCHANGED queue
    BY <2>2 DEF AuthInv, Types
  <2> QED BY <2>1, <2>2
<1>2. Types'
  BY <1>1 DEF AuthInv, Types
<1>3. Numbered' /\ Approvals'
  BY <1>1 DEF AuthInv, Numbered, Approvals
<1>4. Ordered'
  BY DEF AuthInv, Ordered
<1>5. (Waiting /\ Agreed /\ Spent /\ Clean /\ Owed /\ PeersApproved /\ NeverStale /\ PinCommitted)'
  BY DEF AuthInv, Waiting, Agreed, Shows, Spent, Clean, Owed, PeersApproved, NeverStale, PinCommitted
<1> QED BY <1>1, <1>2, <1>3, <1>4, <1>5 DEF AuthInv

\* The browser task speaks for the transaction that is open, and fails for all.
LEMMA BrowserSpeaksKeeps == AuthInv /\ (BrowserReplies \/ BrowserBreaks) => AuthInv'
<1> SUFFICES ASSUME AuthInv, BrowserReplies \/ BrowserBreaks PROVE AuthInv'
  OBVIOUS
<1>0. /\ UNCHANGED <<profile, workVars, answerVars, pending, events, calls, certificates, saving, held, browser, outcome,
                     historyVars>>
      /\ UNCHANGED <<cancelled, sending, stop>> \/ (Flag /\ UNCHANGED stop)
  BY DEF BrowserReplies, BrowserBreaks, stopVars, clientVars
<1> USE <1>0 DEF workVars, answerVars, historyVars
<1>1. /\ queue' \in Seq(Messages)
      /\ \A k \in 1..Len(queue') : \/ k \in 1..Len(queue) /\ queue'[k] = queue[k]
                                   \/ k = Len(queue) + 1 /\ queue'[k].kind = "browser"
  <2>1. ASSUME NEW say \in {"page", "opened", "fail", "cancel"}, BrowserSays(say) PROVE <1>1!2 /\ <1>1!1
    <3>1. browser \in Nat /\ Say("browser", browser, say)
      BY <2>1 DEF BrowserSays, Listening, AuthInv, Types, Prompts
    <3> QED BY <3>1, Said DEF PromptKinds
  <2>2. CASE UNCHANGED queue
    BY <2>2 DEF AuthInv, Types
  <2> QED BY <2>1, <2>2 DEF BrowserReplies, BrowserBreaks
<1>2. Types'
  <2>1. cancelled' \in BOOLEAN /\ stop' \in BOOLEAN
    BY DEF AuthInv, Types, Flag
  <2> QED BY <1>1, <2>1 DEF AuthInv, Types
<1>3. (Numbered /\ Approvals)'
  BY <1>1 DEF AuthInv, Numbered, Approvals
<1>4. Ordered'
  BY <1>1 DEF AuthInv, Ordered, Flag
<1>5. (Waiting /\ Agreed /\ Spent /\ Clean /\ Owed /\ PeersApproved /\ NeverStale /\ PinCommitted)'
  BY DEF AuthInv, Waiting, Agreed, Shows, Spent, Clean, Owed, PeersApproved, NeverStale, PinCommitted
<1> QED BY <1>2, <1>3, <1>4, <1>5 DEF AuthInv

----------------------------------------------------------------------------
(* The owner of the session                                                *)

\* What the owner does without an event, or with a certificate it has shown.
LEMMA OwnerKeeps ==
  ASSUME AuthInv, UNCHANGED <<profile, workVars, answerVars, pending, queue, events, calls, saving, historyVars>>,
         UNCHANGED <<stop, cancelled, sending>> \/ (stop' = TRUE /\ Flag),
         held' = None, outcome = None,
         outcome' # None => browser' = None,
         ~profile.interactive => browser' = None,
         outcome' = "Authenticated" => ~stop /\ saving = None /\ held # None /\ held.kind = "Authenticated",
         \A c \in certificates' : c \in certificates \/ (held \in Notices /\ held # None /\ held.kind = "certificate" /\ c = [id |-> held.id, peer |-> held.peer])
  PROVE  AuthInv'
<1> USE DEF workVars, answerVars, historyVars
<1>1. \A c \in certificates' : c \in [id : Nat, peer : Views] /\ c.id <= calls /\ Shows(c.id, c.peer)
  <2> TAKE c \in certificates'
  <2>1. CASE c \in certificates
    BY <2>1 DEF AuthInv, Types, Numbered, Agreed
  <2>2. CASE held \in Notices /\ held # None /\ held.kind = "certificate" /\ c = [id |-> held.id, peer |-> held.peer]
    <3>1. held.id \in Nat /\ held.id <= calls /\ Shows(held.id, held.peer) /\ held.peer \in Views
      BY <2>2 DEF AuthInv, Numbered, Agreed, Notices
    <3> QED BY <2>2, <3>1
  <2> QED BY <2>1, <2>2
<1>2. Types'
  BY <1>1 DEF AuthInv, Types, Flag
<1>3. (Numbered /\ Agreed)'
  BY <1>1 DEF AuthInv, Numbered, Agreed, Shows
<1>4. (Ordered /\ Approvals)'
  BY DEF AuthInv, Ordered, Approvals, Flag
<1>5. (Clean /\ Owed /\ PinCommitted)'
  BY DEF AuthInv, Clean, Owed, PinCommitted
<1>6. (Waiting /\ Spent /\ PeersApproved /\ NeverStale)'
  BY DEF AuthInv, Waiting, Spent, PeersApproved, NeverStale
<1> QED BY <1>2, <1>3, <1>4, <1>5, <1>6 DEF AuthInv

\* The client that has nothing to receive changes no prompt.
LEMMA ReceivesNothingKeeps == AuthInv /\ (ReceivesCancelled \/ ReceivesNotice) => AuthInv'
<1> SUFFICES ASSUME AuthInv, ReceivesCancelled \/ ReceivesNotice PROVE AuthInv'
  OBVIOUS
<1> QED BY OwnerKeeps DEF ReceivesCancelled, ReceivesNotice, Finish, stopVars, historyVars

\* The client takes the next event of the session.
LEMMA ReceivesEventKeeps == AuthInv /\ ReceivesEvent => AuthInv'
<1> SUFFICES ASSUME AuthInv, ReceivesEvent PROVE AuthInv'
  OBVIOUS
<1> USE DEF ReceivesEvent, workVars, answerVars, stopVars, historyVars
<1>1. /\ held' \in Notices /\ held' = events[1] /\ 1 \in 1..Len(events) /\ events' \in Seq(Notices)
      /\ \A k \in 1..Len(events') : k + 1 \in 1..Len(events) /\ events'[k] = events[k + 1]
  BY Dropped DEF AuthInv, Types
<1>2. Types'
  BY <1>1 DEF AuthInv, Types
<1>3. (Numbered /\ Agreed /\ Clean)'
  BY <1>1 DEF AuthInv, Numbered, Agreed, Shows, Clean
<1>4. (Owed /\ PinCommitted)'
  BY DEF AuthInv, Owed, PinCommitted
<1>5. (Waiting /\ Approvals /\ Ordered /\ Spent /\ PeersApproved /\ NeverStale)'
  BY DEF AuthInv, Waiting, Approvals, Ordered, Spent, PeersApproved, NeverStale
<1> QED BY <1>2, <1>3, <1>4, <1>5 DEF AuthInv

\* The session is handed over, or its failure reported.
LEMMA DeliversKeeps == AuthInv /\ Delivers => AuthInv'
<1> SUFFICES ASSUME AuthInv, Delivers PROVE AuthInv'
  OBVIOUS
<1>1. /\ outcome = None /\ held \in Notices /\ held # None /\ held' = None
      /\ ~profile.interactive => browser = None
      /\ held.kind = "Authenticated" => saving = None
  BY DEF Delivers, Uncommitted, AuthInv, Owed, Types
<1>2. UNCHANGED <<profile, workVars, answerVars, pending, queue, events, calls, saving, historyVars>>
  BY DEF Delivers, workVars, answerVars, historyVars
<1>3. UNCHANGED <<stop, cancelled, sending>> \/ (stop' = TRUE /\ Flag)
  BY DEF Delivers
<1>4. /\ outcome' # None => browser' = None
      /\ ~profile.interactive => browser' = None
  BY <1>1 DEF Delivers, Finish, Ending
<1>5. outcome' = "Authenticated" => ~stop /\ saving = None /\ held.kind = "Authenticated"
  BY <1>1, NoneAssumption DEF Delivers, Finish, Ending
<1>6. \A c \in certificates' : c \in certificates \/ (held.kind = "certificate" /\ c = [id |-> held.id, peer |-> held.peer])
  BY <1>1 DEF Delivers
<1> QED BY <1>1, <1>2, <1>3, <1>4, <1>5, <1>6, OwnerKeeps

----------------------------------------------------------------------------
(* The theorems                                                            *)

\* The invariant holds before the worker starts.
LEMMA AuthInvInit == Init => AuthInv
<1> SUFFICES ASSUME Init PROVE AuthInv
  OBVIOUS
<1>1. Types
  <2>1. password \in BOOLEAN
    BY AuthAssumption DEF Init
  <2>2. queue \in Seq(Messages) /\ events \in Seq(Notices) /\ retried \in [Phases -> Nat]
    BY DEF Init
  <2> QED BY <2>1, <2>2 DEF Init, Types
<1>2. Numbered /\ Waiting /\ Agreed /\ Approvals /\ Ordered
  BY DEF Init, Numbered, Waiting, Agreed, Shows, Approvals, Ordered
<1>3. Spent /\ Clean /\ Owed
  BY NoneAssumption DEF Init, Spent, Clean, Owed
<1>4. PeersApproved /\ NeverStale /\ PinCommitted
  BY NoneAssumption DEF Init, PeersApproved, NeverStale, PinCommitted, Codes
<1> QED BY <1>1, <1>2, <1>3, <1>4 DEF AuthInv

\* What relates prompts, answers, pins and the hand-over holds at every moment.
THEOREM AuthenticationInvariant == Spec => []AuthInv
<1>1. AuthInv /\ Next => AuthInv'
  BY SetupKeeps, ClosesKeeps, AnnouncesKeeps, TokenFailsKeeps, CertificateArrivesKeeps, FormArrivesKeeps,
     BrowserArrivesKeeps, ReceivesKeeps, ExpiresKeeps, RepliesKeeps, CertificateRepliesKeeps, PinSavedKeeps, CancelsKeeps,
     CancelSendsKeeps, BrowserSpeaksKeeps, ReceivesNothingKeeps, ReceivesEventKeeps, DeliversKeeps
  DEF Next, Works, Library, Answers, Owner
<1>2. AuthInv /\ UNCHANGED vars => AuthInv'
  <2> SUFFICES ASSUME AuthInv, UNCHANGED vars PROVE AuthInv'
    OBVIOUS
  <2> USE DEF vars, workVars, answerVars, stopVars, clientVars, historyVars
  <2>1. (Types /\ Numbered /\ Waiting /\ Agreed /\ Approvals /\ Ordered)'
    BY DEF AuthInv, Types, Numbered, Waiting, Agreed, Shows, Approvals, Ordered
  <2>2. (Spent /\ Clean /\ Owed /\ PeersApproved /\ NeverStale /\ PinCommitted)'
    BY DEF AuthInv, Spent, Clean, Owed, PeersApproved, NeverStale, PinCommitted
  <2> QED BY <2>1, <2>2 DEF AuthInv
<1> QED BY AuthInvInit, <1>1, <1>2, PTL DEF Spec

\* The worker accepts only peers whose own prompt the user has approved, however
\* late an approval comes and whichever prompt waits then (auth.rs certificate,
\* certificate_reply; client auth.rs certificate_reply).
THEOREM AuthenticationPeersApproved == Spec => []PeersApproved
<1>1. AuthInv => PeersApproved
  BY DEF AuthInv
<1> QED BY AuthenticationInvariant, <1>1, PTL

\* No session is handed over before the pins the user asked for are stored
\* (client auth.rs certificate_reply, recv_timeout).
THEOREM AuthenticationPinCommitted == Spec => []PinCommitted
<1>1. AuthInv => PinCommitted
  BY DEF AuthInv
<1> QED BY AuthenticationInvariant, <1>1, PTL

\* No session is handed over after a callback has failed, and none ends with a
\* browser open (auth.rs run, client auth.rs recv_timeout).
THEOREM AuthenticationHandoffClean == Spec => []HandoffClean
<1>1. AuthInv => HandoffClean
  BY DEF AuthInv, HandoffClean, Clean, Owed
<1> QED BY AuthenticationInvariant, <1>1, PTL

\* The saved password is sent at most once, a phase is retried at most once, and
\* no answer meets a prompt that is not its own (auth.rs form, browser, wait_for).
THEOREM AuthenticationAnswersFit == Spec => []AnswersFit
<1>1. AuthInv => AnswersFit
  <2>1. ASSUME AuthInv, NEW p \in Phases PROVE retried[p] <= 1
    BY <2>1 DEF AuthInv, Spent
  <2> QED BY <2>1 DEF AuthInv, AnswersFit, AnswersOnce, Spent
<1> QED BY AuthenticationInvariant, <1>1, PTL

----------------------------------------------------------------------------
(***************************************************************************)
(* The attempt of a client, for any attempts and any capacity of its feed. *)
(* What it reports is true because its one Reserve is answered once        *)
(* (Single), a slot that is taken shows whose it is (ShowsOwner), and      *)
(* nobody hears of its tunnel before it is there (Heard).                  *)
(***************************************************************************)
CONSTANTS NoOne, FeedLimit
VARIABLES snap, line, request, reply, late, feed, feeding, pc, back, stopping, auth, dropped, read

Connect == INSTANCE ClientConnect

Up == [state |-> "Connected", attempt |-> "mine"]

\* The one Reserve of an attempt has been answered when the attempt knows its id.
Single ==
    /\ request = "Reserve" => reply = NoOne /\ ~known /\ pc \in {"reserving", "ended"}
    /\ pc = "opening" => line = "none" /\ request = NoOne /\ reply = NoOne
    /\ pc \in {"opening", "reserving"} => ~known

\* A slot that is taken shows whose it is, and that it works.
ShowsOwner == slot # NoOne => snap.attempt = slot /\ snap.state \in Connect!Working

\* Nobody has heard of the tunnel of this attempt before it was there.
Heard ==
    /\ snap = Up => met
    /\ \A i \in 1..Len(feed) : feed[i] = Up => met

ConnectInv == Connect!TypeOK /\ Single /\ ShowsOwner /\ Heard /\ ResultTrue


USE DEF Connect!Attempts, Connect!Working, Connect!Resting, Connect!Requests, Connect!Replies, Connect!Ends,
        Connect!Waits

\* Publishing.
LEMMA ConnectPublish ==
    ASSUME Connect!FeedAssumption, ConnectInv, NEW s \in Connect!Snaps, Connect!Publish(s)
    PROVE  /\ snap' = s /\ met' \in BOOLEAN /\ (met => met')
           /\ feed' \in Seq(Connect!Snaps) /\ Len(feed') <= FeedLimit
           /\ Heard'
<1>1. feed \in Seq(Connect!Snaps) /\ Len(feed) \in Nat /\ Len(feed) <= FeedLimit /\ FeedLimit \in Nat \ {0} /\ met \in BOOLEAN
    BY DEF ConnectInv, Connect!TypeOK, Connect!FeedAssumption
<1>2. snap' = s /\ met' = (met \/ s = Up) BY DEF Connect!Publish, Up
<1>3. feed' = feed \/ (feed # <<>> /\ feed' = Append(Tail(feed), s)) \/ (Len(feed) < FeedLimit /\ feed' = Append(feed, s))
    BY <1>1 DEF Connect!Publish
<1>4. feed' \in Seq(Connect!Snaps) /\ Len(feed') <= FeedLimit
    BY <1>1, <1>3
<1>5. \A i \in 1..Len(feed') : feed'[i] = s \/ \E j \in 1..Len(feed) : feed'[i] = feed[j]
    BY <1>1, <1>3
<1>6. Heard' BY <1>2, <1>5 DEF Heard, ConnectInv, Up
<1> QED BY <1>1, <1>2, <1>4, <1>6

\* The service publishes, and this attempt gets no slot by it.
ConnectQuiet ==
    /\ slot' \in Connect!Attempts \cup {NoOne} /\ snap' \in Connect!Snaps /\ met' \in BOOLEAN /\ (met => met')
    /\ feed' \in Seq(Connect!Snaps) /\ Len(feed') <= FeedLimit
    /\ ShowsOwner' /\ Heard' /\ (slot' = "mine" => slot = "mine")

\* The slot's session goes on in another working state.
LEMMA ConnectGoesOn ==
    ASSUME Connect!FeedAssumption, ConnectInv, slot # NoOne, slot' = slot,
           NEW state \in Connect!Working, Connect!Publish([snap EXCEPT !.state = state])
    PROVE  ConnectQuiet
<1>1. [snap EXCEPT !.state = state] \in Connect!Snaps
    BY DEF ConnectInv, Connect!TypeOK, Connect!Snaps
<1>2. ShowsOwner' BY <1>1, ConnectPublish DEF ConnectInv, Connect!TypeOK, Connect!Snaps, ShowsOwner
<1> QED BY <1>1, <1>2, ConnectPublish DEF ConnectQuiet, ConnectInv, Connect!TypeOK

\* The slot is freed.
LEMMA ConnectFreed ==
    ASSUME Connect!FeedAssumption, Connect!NoOneAssumption, ConnectInv, NEW state \in Connect!Resting, Connect!SlotFreed(state)
    PROVE  ConnectQuiet
<1>1. [snap EXCEPT !.state = state] \in Connect!Snaps
    BY DEF ConnectInv, Connect!TypeOK, Connect!Snaps
<1> QED BY <1>1, ConnectPublish DEF Connect!SlotFreed, ConnectQuiet, ConnectInv, Connect!TypeOK, ShowsOwner,
       Connect!NoOneAssumption

\* Session::cancel, whatever the slot holds.
LEMMA ConnectCancel ==
    ASSUME Connect!FeedAssumption, Connect!NoOneAssumption, ConnectInv, Connect!CancelSlot
    PROVE  ConnectQuiet
<1>1. CASE slot = NoOne
    BY <1>1 DEF Connect!CancelSlot, Connect!serviceVars, ConnectQuiet, ConnectInv, Connect!TypeOK, ShowsOwner, Heard
<1>2. CASE slot # NoOne /\ snap.state = "Authenticating"
    BY <1>2, ConnectFreed DEF Connect!CancelSlot
<1>3. CASE slot # NoOne /\ snap.state # "Authenticating"
    BY <1>3, ConnectGoesOn DEF Connect!CancelSlot
<1> QED BY <1>1, <1>2, <1>3

\* A slot is taken.
LEMMA ConnectTaken ==
    ASSUME Connect!FeedAssumption, ConnectInv, NEW a \in Connect!Attempts, Connect!SlotTaken(a)
    PROVE  /\ slot' = a /\ snap' \in Connect!Snaps /\ met' \in BOOLEAN /\ (met => met')
           /\ feed' \in Seq(Connect!Snaps) /\ Len(feed') <= FeedLimit /\ ShowsOwner' /\ Heard'
<1>1. [state |-> "Authenticating", attempt |-> a] \in Connect!Snaps BY DEF Connect!Snaps
<1> QED BY <1>1, ConnectPublish DEF Connect!SlotTaken, ShowsOwner

\* A service that publishes nothing is quiet.
LEMMA ConnectStill ==
    ASSUME ConnectInv, UNCHANGED <<Connect!serviceVars, feed>>
    PROVE  ConnectQuiet
BY DEF Connect!serviceVars, ConnectQuiet, ConnectInv, Connect!TypeOK, ShowsOwner, Heard

\* The service handles a request of the attempt's connection.
LEMMA ConnectHandle ==
    ASSUME Connect!FeedAssumption, Connect!NoOneAssumption, ConnectInv, Connect!Handle
    PROVE  ConnectInv'
<1>1. /\ request # NoOne /\ request' = NoOne /\ line \in {"open", "dropped"}
      /\ UNCHANGED <<line, late, feeding, pc, back, auth, reported, known, stopping, dropped, read>>
    BY DEF Connect!Handle, Connect!taskVars, Connect!userVars
<1>2. reply' \in Connect!Replies
    BY DEF Connect!Handle, Connect!Refuse, Connect!Answer
<1>3. \/ ConnectQuiet
      \/ request = "Reserve" /\ Connect!SlotTaken("mine")
    <2>1. \/ UNCHANGED <<Connect!serviceVars, feed>>
          \/ request = "Reserve" /\ Connect!SlotTaken("mine")
          \/ slot = "mine" /\ UNCHANGED slot /\ Connect!Publish([snap EXCEPT !.state = "Connecting"])
          \/ Connect!CancelSlot
        BY DEF Connect!Handle, Connect!Refuse
    <2>2. slot = "mine" => slot # NoOne BY DEF Connect!NoOneAssumption
    <2> QED BY <2>1, <2>2, ConnectStill, ConnectGoesOn, ConnectCancel
<1>4. slot' = "mine" => slot = "mine" \/ request = "Reserve" BY <1>3 DEF ConnectQuiet
<1>5. Connect!TypeOK'
    BY <1>1, <1>2, <1>3, ConnectTaken DEF ConnectQuiet, ConnectInv, Connect!TypeOK
<1>6. Single' BY <1>1, <1>2 DEF ConnectInv, Single, Connect!NoOneAssumption
<1>7. ShowsOwner' /\ Heard' BY <1>3, ConnectTaken DEF ConnectQuiet
<1>8. ResultTrue'
    BY <1>1, <1>3, <1>4, ConnectTaken
    DEF ConnectInv, Single, ResultTrue, NoLeftover, OwnTunnel, ConnectQuiet
<1> QED BY <1>5, <1>6, <1>7, <1>8 DEF ConnectInv

\* What else happens at the service: connections close, tunnels come and go.
LEMMA ConnectService ==
    ASSUME Connect!FeedAssumption, Connect!NoOneAssumption, ConnectInv,
           \/ Connect!LineCloses \/ Connect!HandleLate \/ Connect!TunnelConnects \/ Connect!TunnelEnds
           \/ Connect!LeaseExpires \/ Connect!Restarts
           \/ Connect!OthersReserve \/ Connect!OthersStart \/ Connect!OthersDisconnect
    PROVE  ConnectInv'
<1> USE DEF Connect!serviceVars, Connect!lineVars, Connect!taskVars, Connect!userVars
<1>1. /\ request' \in {request, NoOne} /\ reply' \in {reply, NoOne}
      /\ line' \in {line, "closed"} /\ (line = "none" => line' = line)
      /\ late' \in BOOLEAN /\ feeding' \in BOOLEAN
      /\ UNCHANGED <<pc, back, auth, reported, known, stopping, dropped, read>>
    BY DEF Connect!LineCloses, Connect!HandleLate, Connect!TunnelConnects, Connect!TunnelEnds, Connect!LeaseExpires,
           Connect!Restarts, Connect!OthersReserve, Connect!OthersStart, Connect!OthersDisconnect,
           ConnectInv, Connect!TypeOK
<1>2. /\ slot' \in Connect!Attempts \cup {NoOne} /\ snap' \in Connect!Snaps /\ met' \in BOOLEAN /\ (met => met')
      /\ feed' \in Seq(Connect!Snaps) /\ Len(feed') <= FeedLimit
      /\ ShowsOwner' /\ Heard' /\ (slot' = "mine" => slot = "mine")
    <2>1. CASE Connect!LineCloses BY <2>1, ConnectCancel, ConnectStill DEF Connect!LineCloses, ConnectQuiet
    <2>2. CASE Connect!HandleLate BY <2>2, ConnectCancel, ConnectStill DEF Connect!HandleLate, ConnectQuiet
    <2>3. CASE Connect!TunnelConnects
        <3>1. slot' = slot /\ Connect!Publish([snap EXCEPT !.state = "Connected"]) BY <2>3 DEF Connect!TunnelConnects
        <3>2. CASE slot = NoOne
            <4>1. [snap EXCEPT !.state = "Connected"] \in Connect!Snaps
                BY DEF ConnectInv, Connect!TypeOK, Connect!Snaps
            <4> QED BY <3>1, <3>2, <4>1, ConnectPublish DEF ConnectInv, Connect!TypeOK, ShowsOwner
        <3> QED BY <3>1, <3>2, ConnectGoesOn DEF ConnectQuiet
    <2>4. CASE Connect!TunnelEnds BY <2>4, ConnectFreed DEF Connect!TunnelEnds, ConnectQuiet
    <2>5. CASE Connect!LeaseExpires BY <2>5, ConnectFreed DEF Connect!LeaseExpires, ConnectQuiet
    <2>6. CASE Connect!Restarts
        BY <2>6 DEF Connect!Restarts, ConnectInv, Connect!TypeOK, Connect!Snaps, ShowsOwner, Heard, Up, Connect!NoOneAssumption
    <2>7. CASE Connect!OthersReserve BY <2>7, ConnectTaken DEF Connect!OthersReserve
    <2>8. CASE Connect!OthersStart
        BY <2>8, ConnectGoesOn DEF Connect!OthersStart, ConnectQuiet, Connect!NoOneAssumption
    <2>9. CASE Connect!OthersDisconnect BY <2>9, ConnectCancel DEF Connect!OthersDisconnect, ConnectQuiet
    <2> QED BY <2>1, <2>2, <2>3, <2>4, <2>5, <2>6, <2>7, <2>8, <2>9
<1>3. Connect!TypeOK' BY <1>1, <1>2 DEF ConnectInv, Connect!TypeOK
<1>4. Single' BY <1>1 DEF ConnectInv, Single, Connect!NoOneAssumption
<1>5. ResultTrue'
    BY <1>1, <1>2 DEF ConnectInv, ResultTrue, NoLeftover, OwnTunnel
<1> QED BY <1>2, <1>3, <1>4, <1>5 DEF ConnectInv


\* What a step of the interface or of the task may do to the rest.
ConnectLocal ==
    /\ UNCHANGED Connect!serviceVars
    /\ late' \in BOOLEAN /\ feeding' \in BOOLEAN /\ stopping' \in BOOLEAN
    /\ dropped' \in BOOLEAN /\ read' \in BOOLEAN
    /\ feed' \in {feed, <<>>} \/ (feed # <<>> /\ feed' = Tail(feed)) \/ feed' = <<snap>>

\* Such a step leaves what is known of the service as it was.
LEMMA ConnectLocalKeeps ==
    ASSUME Connect!FeedAssumption, ConnectInv, ConnectLocal
    PROVE  /\ slot' \in Connect!Attempts \cup {NoOne} /\ snap' \in Connect!Snaps /\ met' \in BOOLEAN
           /\ feed' \in Seq(Connect!Snaps) /\ Len(feed') <= FeedLimit
           /\ ShowsOwner' /\ Heard'
<1>1. /\ feed \in Seq(Connect!Snaps) /\ Len(feed) \in Nat /\ Len(feed) <= FeedLimit /\ FeedLimit \in Nat \ {0}
      /\ snap \in Connect!Snaps
    BY DEF ConnectInv, Connect!TypeOK, Connect!FeedAssumption
<1>2. feed' \in Seq(Connect!Snaps) /\ Len(feed') <= FeedLimit
    <2>1. CASE feed # <<>> /\ feed' = Tail(feed) BY <1>1, <2>1
    <2>2. CASE feed' = <<snap>> BY <1>1, <2>2
    <2>3. CASE feed' = feed BY <1>1, <2>3
    <2>4. CASE feed' = <<>> BY <1>1, <2>4
    <2> QED BY <2>1, <2>2, <2>3, <2>4 DEF ConnectLocal
<1>3. \A i \in 1..Len(feed') : feed'[i] = snap \/ \E j \in 1..Len(feed) : feed'[i] = feed[j]
    BY <1>1 DEF ConnectLocal
<1> QED
    BY <1>2, <1>3 DEF ConnectLocal, Connect!serviceVars, ConnectInv, Connect!TypeOK, ShowsOwner, Heard

\* The interface cancels, drops the attempt or reads its result.
LEMMA ConnectInterface ==
    ASSUME Connect!FeedAssumption, ConnectInv, Connect!Interface
    PROVE  ConnectInv'
<1>1. /\ ConnectLocal
      /\ UNCHANGED <<slot, met, line, request, reply, pc, back, auth, reported, known>>
    BY DEF Connect!Interface, Connect!Cancels, Connect!Drops, Connect!ReadsResult, ConnectLocal, ConnectInv,
           Connect!TypeOK, Connect!serviceVars, Connect!lineVars, Connect!feedVars, Connect!taskVars, Connect!userVars
<1>2. Connect!TypeOK' BY <1>1, ConnectLocalKeeps DEF ConnectLocal, ConnectInv, Connect!TypeOK
<1> QED BY <1>1, <1>2, ConnectLocalKeeps
        DEF ConnectInv, Single, ResultTrue, NoLeftover, OwnTunnel

\* The task ends.
LEMMA ConnectEnd ==
    ASSUME Connect!FeedAssumption, Connect!NoOneAssumption, ConnectInv, NEW r \in Connect!Ends, Connect!End(r),
           UNCHANGED <<Connect!serviceVars, request, Connect!userVars>>, late' \in BOOLEAN,
           r = "Connected" => met,
           known /\ r \in {"Cancelled", "Failed"} => slot # "mine"
    PROVE  ConnectInv'
<1>1. ConnectLocal
    BY DEF Connect!End, ConnectLocal, Connect!userVars, ConnectInv, Connect!TypeOK
<1>2. Connect!TypeOK'
    BY <1>1, ConnectLocalKeeps DEF ConnectInv, Connect!TypeOK, Connect!End, Connect!userVars, Connect!NoOneAssumption
<1>3. Single' BY DEF ConnectInv, Single, Connect!End
<1>4. ResultTrue'
    BY DEF ResultTrue, NoLeftover, OwnTunnel, Connect!End, Connect!serviceVars
<1> QED BY <1>1, <1>2, <1>3, <1>4, ConnectLocalKeeps DEF ConnectInv

\* Every way the task ends: what it reports is true when it says so.
LEMMA ConnectEnding ==
    ASSUME Connect!FeedAssumption, Connect!NoOneAssumption, ConnectInv,
           \/ Connect!OpenFails \/ Connect!NotReserved \/ Connect!ReserveTimesOut \/ Connect!Connects
           \/ Connect!ConfirmFails \/ Connect!Cleaned \/ Connect!CleanupFails \/ Connect!Dies
    PROVE  ConnectInv'
<1> SUFFICES \E r \in Connect!Ends :
        /\ Connect!End(r) /\ UNCHANGED <<Connect!serviceVars, request, Connect!userVars>> /\ late' \in BOOLEAN
        /\ r = "Connected" => met
        /\ known /\ r \in {"Cancelled", "Failed"} => slot # "mine"
    BY ConnectEnd
<1>1. late \in BOOLEAN BY DEF ConnectInv, Connect!TypeOK
<1>2. pc \in {"opening", "reserving"} => ~known BY DEF ConnectInv, Single
<1>3. CASE Connect!OpenFails BY <1>1, <1>2, <1>3 DEF Connect!OpenFails
<1>4. CASE Connect!NotReserved BY <1>1, <1>2, <1>4 DEF Connect!NotReserved
<1>5. CASE Connect!ReserveTimesOut BY <1>1, <1>2, <1>5 DEF Connect!ReserveTimesOut
<1>6. CASE Connect!Connects
    <2>1. feed # <<>> /\ Head(feed) = feed[1] /\ Head(feed) \in Connect!Snaps /\ 1 \in 1..Len(feed)
        BY <1>6 DEF Connect!Connects, ConnectInv, Connect!TypeOK
    <2>2. Head(feed) = Up BY <2>1, <1>6 DEF Connect!Connects, Connect!Good, Connect!Snaps, Up
    <2>3. met BY <2>1, <2>2 DEF ConnectInv, Heard
    <2> QED BY <1>1, <1>6, <2>3 DEF Connect!Connects
<1>7. CASE Connect!ConfirmFails BY <1>7 DEF Connect!ConfirmFails
<1>8. CASE Connect!Cleaned
    <2>1. slot # "mine" \/ \E r \in {"RecoveryRequired"} : Connect!End(r)
        BY <1>8 DEF Connect!Cleaned, Connect!Authorized, Connect!Gone, ConnectInv, ShowsOwner, Connect!NoOneAssumption
    <2> QED BY <1>1, <1>8, <2>1 DEF Connect!Cleaned
<1>9. CASE Connect!CleanupFails BY <1>1, <1>9 DEF Connect!CleanupFails
<1>10. CASE Connect!Dies BY <1>1, <1>10 DEF Connect!Dies
<1> QED BY <1>3, <1>4, <1>5, <1>6, <1>7, <1>8, <1>9, <1>10

\* A step of a task that goes on: it sends no second Reserve and stays silent
\* about its result.
LEMMA ConnectStep ==
    ASSUME Connect!FeedAssumption, Connect!NoOneAssumption, ConnectInv,
           pc # "ended", pc' \in Connect!Waits \ {"opening", "reserving", "ended"}, back' \in {"authenticating", "connecting"},
           line' \in {"none", "open", "dropped", "closed"},
           request' \in {request, "AuthProgress", "Start", "Cancel"}, request' # "Reserve",
           reply' \in {reply, NoOne}, auth' \in {"none", "running", "done", "over"},
           known' \in BOOLEAN, UNCHANGED reported,
           ConnectLocal \/ (ConnectQuiet /\ UNCHANGED <<late, feeding, stopping, dropped, read>>)
    PROVE  ConnectInv'
<1>1. /\ slot' \in Connect!Attempts \cup {NoOne} /\ snap' \in Connect!Snaps /\ met' \in BOOLEAN
      /\ feed' \in Seq(Connect!Snaps) /\ Len(feed') <= FeedLimit
      /\ ShowsOwner' /\ Heard'
    BY ConnectLocalKeeps DEF ConnectQuiet
<1>2. /\ late' \in BOOLEAN /\ feeding' \in BOOLEAN /\ stopping' \in BOOLEAN
      /\ dropped' \in BOOLEAN /\ read' \in BOOLEAN
    BY DEF ConnectLocal, ConnectInv, Connect!TypeOK
<1>3. reported = NoOne BY DEF ConnectInv, Connect!TypeOK
<1>4. Connect!TypeOK' BY <1>1, <1>2, <1>3 DEF ConnectInv, Connect!TypeOK
<1>5. Single' BY DEF Single
<1>6. ResultTrue'
    BY <1>3 DEF ResultTrue, NoLeftover, OwnTunnel, Connect!NoOneAssumption
<1> QED BY <1>1, <1>4, <1>5, <1>6 DEF ConnectInv


\* The task opens its connection and asks for a reservation.
LEMMA ConnectOpens ==
    ASSUME Connect!FeedAssumption, Connect!NoOneAssumption, ConnectInv, Connect!Opens
    PROVE  ConnectInv'
<1>1. /\ ConnectLocal
      /\ pc = "opening" /\ pc' = "reserving" /\ line' = "open" /\ request' = "Reserve" /\ reported = NoOne
      /\ UNCHANGED <<slot, met, reply, back, auth, known, reported>>
    BY DEF Connect!Opens, Connect!To, ConnectLocal, ConnectInv, Connect!TypeOK, Connect!serviceVars, Connect!feedVars,
           Connect!userVars
<1>2. Connect!TypeOK' BY <1>1, ConnectLocalKeeps DEF ConnectLocal, ConnectInv, Connect!TypeOK
<1>3. Single' BY <1>1 DEF ConnectInv, Single
<1>4. ResultTrue'
    BY <1>1 DEF ResultTrue, NoLeftover, OwnTunnel, Connect!NoOneAssumption
<1> QED BY <1>1, <1>2, <1>3, <1>4, ConnectLocalKeeps DEF ConnectInv

\* The steps of a task between its reservation and its end.
LEMMA ConnectTask ==
    ASSUME Connect!FeedAssumption, Connect!NoOneAssumption, ConnectInv,
           \/ Connect!Reserved \/ Connect!Monitors \/ Connect!NotMonitored \/ Connect!Emits \/ Connect!Sees
           \/ Connect!Prompts \/ Connect!Progress \/ Connect!Progressed \/ Connect!Starts \/ Connect!Started
           \/ Connect!Fails \/ Connect!CallRefused \/ Connect!CallTimesOut
           \/ Connect!CancelAnswered \/ Connect!CancelTimesOut \/ Connect!Confirms
    PROVE  ConnectInv'
<1> USE DEF Connect!serviceVars, Connect!lineVars, Connect!feedVars, Connect!userVars, Connect!To, Connect!Ask,
            Connect!Emit, Connect!GiveUp, Connect!Abandon, Connect!LineLost, ConnectLocal
<1>1. /\ Connect!TypeOK /\ (request = "Reserve" => reply = NoOne /\ pc \in {"reserving", "ended"})
    BY DEF ConnectInv, Single
<1>2. CASE Connect!Reserved
    BY <1>1, <1>2, ConnectStep DEF Connect!Reserved, Connect!TypeOK, Connect!NoOneAssumption
<1>3. CASE Connect!Monitors BY <1>1, <1>3, ConnectStep DEF Connect!Monitors, Connect!TypeOK
<1>4. CASE Connect!NotMonitored BY <1>1, <1>4, ConnectStep DEF Connect!NotMonitored, Connect!TypeOK
<1>5. CASE Connect!Emits BY <1>1, <1>5, ConnectStep DEF Connect!Emits, Connect!TypeOK
<1>6. CASE Connect!Sees BY <1>1, <1>6, ConnectStep DEF Connect!Sees, Connect!TypeOK
<1>7. CASE Connect!Prompts BY <1>1, <1>7, ConnectStep DEF Connect!Prompts, Connect!TypeOK
<1>8. CASE Connect!Progress BY <1>1, <1>8, ConnectStep DEF Connect!Progress, Connect!TypeOK
<1>9. CASE Connect!Progressed BY <1>1, <1>9, ConnectStep DEF Connect!Progressed, Connect!TypeOK
<1>10. CASE Connect!Starts BY <1>1, <1>10, ConnectStep DEF Connect!Starts, Connect!TypeOK
<1>11. CASE Connect!Started BY <1>1, <1>11, ConnectStep DEF Connect!Started, Connect!TypeOK
<1>12. CASE Connect!Fails BY <1>1, <1>12, ConnectStep DEF Connect!Fails, Connect!TypeOK
<1>13. CASE Connect!CallRefused BY <1>1, <1>13, ConnectStep DEF Connect!CallRefused, Connect!TypeOK
<1>14. CASE Connect!CallTimesOut BY <1>1, <1>14, ConnectStep DEF Connect!CallTimesOut, Connect!TypeOK
<1>15. CASE Connect!CancelAnswered BY <1>1, <1>15, ConnectStep DEF Connect!CancelAnswered, Connect!TypeOK
<1>16. CASE Connect!CancelTimesOut BY <1>1, <1>16, ConnectStep DEF Connect!CancelTimesOut, Connect!TypeOK
<1>17. CASE Connect!Confirms
    <2>1. ConnectQuiet BY <1>17, ConnectCancel, ConnectStill DEF Connect!Confirms
    <2> QED BY <1>1, <1>17, <2>1, ConnectStep DEF Connect!Confirms, Connect!TypeOK
<1> QED BY <1>2, <1>3, <1>4, <1>5, <1>6, <1>7, <1>8, <1>9, <1>10, <1>11, <1>12, <1>13, <1>14, <1>15, <1>16, <1>17

\* An attempt begins with an idle service.
LEMMA ConnectInit ==
    ASSUME Connect!FeedAssumption, Connect!NoOneAssumption, Connect!Init
    PROVE  ConnectInv
<1> USE DEF Connect!Init
<1>1. feed \in Seq(Connect!Snaps) /\ Len(feed) = 0 /\ Len(feed) <= FeedLimit BY DEF Connect!FeedAssumption
<1>2. Connect!TypeOK BY <1>1 DEF Connect!TypeOK, Connect!Snaps
<1>3. Single BY DEF Single, Connect!NoOneAssumption
<1>4. ShowsOwner /\ Heard BY <1>1 DEF ShowsOwner, Heard, Up
<1>5. ResultTrue
    BY DEF ResultTrue, NoLeftover, OwnTunnel, Connect!NoOneAssumption
<1> QED BY <1>2, <1>3, <1>4, <1>5 DEF ConnectInv

\* Every step keeps the invariant.
LEMMA ConnectNext ==
    ASSUME Connect!FeedAssumption, Connect!NoOneAssumption, ConnectInv, [Connect!Next]_Connect!vars
    PROVE  ConnectInv'
<1>1. CASE Connect!Service \/ Connect!Others
    BY <1>1, ConnectHandle, ConnectService DEF Connect!Service, Connect!Others
<1>2. CASE Connect!Interface BY <1>2, ConnectInterface
<1>3. CASE Connect!Task BY <1>3, ConnectOpens, ConnectTask, ConnectEnding DEF Connect!Task
<1>4. CASE UNCHANGED Connect!vars
    BY <1>4 DEF Connect!vars, Connect!serviceVars, Connect!lineVars, Connect!feedVars, Connect!taskVars,
                Connect!userVars, ConnectInv, Connect!TypeOK, Single, ShowsOwner, Heard, ResultTrue,
                NoLeftover, OwnTunnel
<1> QED BY <1>1, <1>2, <1>3, <1>4 DEF Connect!Next

\* The invariant of one connection attempt: a call on its way, the slot, and
\* what the attempt has been told agree.
THEOREM ConnectInvariant ==
    ASSUME Connect!FeedAssumption, Connect!NoOneAssumption
    PROVE  Connect!Spec => []ConnectInv
<1>1. Connect!Init => ConnectInv BY ConnectInit
<1>2. ConnectInv /\ [Connect!Next]_Connect!vars => ConnectInv' BY ConnectNext
<1> QED BY <1>1, <1>2, PTL DEF Connect!Spec

\* An attempt that reports a failure or a cancellation has left nothing in the
\* service, and one that reports Connected has had its own tunnel.
THEOREM ConnectResultTrue ==
    ASSUME Connect!FeedAssumption, Connect!NoOneAssumption
    PROVE  Connect!Spec => []ResultTrue
<1>1. ConnectInv => ResultTrue BY DEF ConnectInv
<1> QED BY <1>1, ConnectInvariant, PTL
=============================================================================
