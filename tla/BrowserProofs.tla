--------------------------- MODULE BrowserProofs ---------------------------
(***************************************************************************)
(* Proofs about the browser transactions, for any number of tasks and      *)
(* completions, any limits, and every window that keeps its contract.      *)
(*                                                                         *)
(* None of the three properties is inductive.  BInv adds what a task holds *)
(* at its position and who has the transaction lock (Flows), that an       *)
(* account somebody can confirm is that of the completion that waits       *)
(* (Fits), that what was read of the ledger is still what it holds         *)
(* (Ledgers), and when the window of a task exists (Windows).              *)
(***************************************************************************)
EXTENDS Browser, TLAPS

Commands == [kind : {"callback", "confirm"}, cookie : Cookies, accept : BOOLEAN]

Steps == {"idle", "binding", "serving", "closing", "waiting", "killing", "draining", "removing", "ended"}
Children == {"waiting", "killing", "draining", "removing"}

States ==
    [step : Steps, mode : {None, "Embedded", "System", "Manual"}, stop : BOOLEAN,
     result : {None, "Failed", "Stopped", "RecoveryRequired", "Unreadable"}, launch : BOOLEAN, opened : BOOLEAN,
     pending : {None} \cup Completions, done : BOOLEAN, notices : Seq(Cookies \cup {"Stage"}), seen : Cookies \cup {None},
     commands : Seq(Commands), orders : Nat, claim : {None} \cup Claims, over : BOOLEAN]

Types ==
    /\ request \in [Tasks -> Requests \cup {None}]
    /\ \A t, u \in Tasks : request[t] # None /\ request[u] # None
            /\ Mode(request[t]) = "Embedded" /\ Mode(request[u]) = "Embedded" => t = u
    /\ task \in [Tasks -> States] /\ now \in Nat /\ ledger \subseteq Entries
    /\ renderers \in BOOLEAN /\ killed \in BOOLEAN

\* The user sees c, has a prompt about it, or has answered one.
Shows(s, c) ==
    \/ s.seen = c
    \/ \E i \in 1..Len(s.notices) : s.notices[i] = c
    \/ \E i \in 1..Len(s.commands) : s.commands[i].kind = "confirm" /\ s.commands[i].cookie = c

\* Nothing waits for the user outside the loop; a completion waits for its claim,
\* then for its confirmation, and is the only one that can be confirmed.
Fits(t, s) ==
    /\ s.mode = None \/ (request[t] # None /\ s.mode = Mode(request[t]))
    /\ s.step # "serving" => /\ s.pending = None /\ s.claim = None /\ s.seen = None /\ ~s.done
                             /\ s.notices = <<>> /\ s.commands = <<>>
    /\ s.step = "idle" => s.mode = None
    /\ s.step \in Children => s.mode = "Embedded"
    /\ s.pending # None => ~s.done /\ s.claim = None
    /\ s.claim # None => s.mode # "Embedded" /\ ~s.done
    /\ s.step = "serving" /\ ~s.over /\ ~s.done =>
          \A c \in Cookies : Shows(s, c) => s.pending # None /\ s.pending.cookie = c

\* bind: one transaction at a time.
Locked == \A t \in Tasks : task[t].step \notin {"idle", "ended"} => lock = t

Flows == Types /\ Locked /\ \A t \in Tasks : Fits(t, task[t])

\* Task t has claimed k on day d for a completion from outside.
Uses(t, k, d) ==
    \/ task[t].mode # "Embedded" /\ task[t].pending = [cookie |-> k, day |-> d]
    \/ [task |-> t, cookie |-> k, day |-> d, outside |-> TRUE] \in submitted

Submissions == [task : Tasks, cookie : Cookies, day : Nat, outside : BOOLEAN]

\* What is in use was entered in the ledger, by one task; a claim under way has
\* read all that the ledger still holds.
Ledgers ==
    /\ submitted \subseteq Submissions
    /\ \A t \in Tasks, k \in Cookies, d \in Nat :
          Uses(t, k, d) => /\ d <= now /\ (d = now => [cookie |-> k, expires |-> d + 1] \in ledger)
                           /\ \A u \in Tasks : Uses(u, k, d) => u = t
    /\ \A t \in Tasks : task[t].claim # None =>
          /\ task[t].claim.day <= now /\ {r \in ledger : r.expires > task[t].claim.day} \subseteq task[t].claim.records
          /\ \A u \in Tasks : ~Uses(u, task[t].claim.cookie, task[t].claim.day)

\* The window is there from the moment its task has prepared it.
Windows ==
    /\ proc = "none" => ~renderers /\ directory = "none" /\ ~killed
    /\ proc # "none" => \E u \in Tasks : Embedded(u) /\ task[u].step \notin {"idle", "binding"}
    /\ \A t \in Tasks : Embedded(t) => /\ task[t].step = "binding" => proc = "none"
                                       /\ task[t].step \notin {"idle", "binding", "ended"} => proc # "none"
    /\ NothingLeft

BInv == Flows /\ Ledgers /\ Windows /\ ConfirmedOnly

----------------------------------------------------------------------------
(* What the parts of the invariant ask of one task's step                  *)

\* A task that moves keeps Flows if its new state fits and the lock is its own.
LEMMA Moves ==
  ASSUME Flows, NEW t \in Tasks, NEW new \in States, Set(t, new), Fits(t, new), UNCHANGED request,
         now' \in Nat, ledger' \subseteq Entries, renderers' \in BOOLEAN, killed' \in BOOLEAN,
         new.step \notin {"idle", "ended"} => lock' = t, lock' = lock \/ lock \in {None, t}
  PROVE  Flows' /\ task'[t] = new /\ \A u \in Tasks \ {t} : task'[u] = task[u]
<1>1. task'[t] = new /\ (\A u \in Tasks \ {t} : task'[u] = task[u]) /\ task' \in [Tasks -> States]
  BY DEF Flows, Types, Set
<1>2. Types'
  BY <1>1 DEF Flows, Types
<1>3. Locked'
  <2> SUFFICES ASSUME NEW u \in Tasks, task'[u].step \notin {"idle", "ended"} PROVE lock' = u
    BY DEF Locked
  <2>1. CASE u = t
    BY <1>1, <2>1
  <2>2. CASE u # t
    <3>1. task'[u] = task[u]
      BY <1>1, <2>2
    <3>2. lock = u
      BY <3>1 DEF Flows, Locked
    <3> QED BY <3>2, <2>2, NoneAssumption
  <2> QED BY <2>1, <2>2
<1>4. ASSUME NEW u \in Tasks PROVE Fits(u, task[u])'
  BY <1>1 DEF Flows, Fits
<1> QED BY <1>1, <1>2, <1>3, <1>4 DEF Flows

\* A step that puts nothing new to use and leaves the ledger alone keeps Ledgers,
\* with claims that are as they were or gone.
LEMMA UsedAlready ==
  ASSUME Flows, Ledgers, submitted' \subseteq Submissions, UNCHANGED ledgerVars,
         \A u \in Tasks : task'[u].claim \in {None, task[u].claim},
         \A u \in Tasks, k \in Cookies, d \in Nat : Uses(u, k, d)' => Uses(u, k, d)
  PROVE  Ledgers'
<1>1. ASSUME NEW u \in Tasks, task'[u].claim # None PROVE task'[u].claim = task[u].claim /\ task[u].claim \in Claims
  BY <1>1 DEF Flows, Types, States
<1>2. ledger' = ledger /\ now' = now
  BY DEF ledgerVars
<1>3. ASSUME NEW u \in Tasks, task'[u].claim # None,
             NEW k, NEW d, k = task[u].claim.cookie, d = task[u].claim.day
      PROVE  /\ task'[u].claim = task[u].claim /\ d <= now /\ {r \in ledger : r.expires > d} \subseteq task[u].claim.records
             /\ \A v \in Tasks : ~Uses(v, k, d)'
  <2>1. task'[u].claim = task[u].claim /\ task[u].claim # None
    BY <1>1, <1>3
  <2>2. k \in Cookies /\ d \in Nat
    BY <1>1, <1>3 DEF Claims
  <2>3. d <= now /\ {r \in ledger : r.expires > d} \subseteq task[u].claim.records /\ \A v \in Tasks : ~Uses(v, k, d)
    BY <1>3, <2>1 DEF Ledgers
  <2> QED BY <2>1, <2>2, <2>3
<1>4. ASSUME NEW u \in Tasks, task'[u].claim # None
      PROVE  /\ task'[u].claim.day <= now' /\ {r \in ledger' : r.expires > task'[u].claim.day} \subseteq task'[u].claim.records
             /\ \A v \in Tasks : ~(Uses(v, task[u].claim.cookie, task[u].claim.day))'
  BY <1>2, <1>3, <1>4 DEF Uses
<1>5. ASSUME NEW u \in Tasks, NEW k \in Cookies, NEW d \in Nat, Uses(u, k, d)'
      PROVE  /\ d <= now' /\ (d = now' => [cookie |-> k, expires |-> d + 1] \in ledger')
             /\ \A v \in Tasks : Uses(v, k, d)' => v = u
  <2>1. Uses(u, k, d)
    BY <1>5
  <2>2. /\ d <= now /\ (d = now => [cookie |-> k, expires |-> d + 1] \in ledger)
        /\ \A v \in Tasks : Uses(v, k, d) => v = u
    BY <2>1 DEF Ledgers
  <2> QED BY <1>2, <2>2
<1> QED BY <1>4, <1>5 DEF Ledgers

\* So does a step of one task whose completion is as it was, or gone, or comes
\* from the embedded window.
LEMMA LedgerStays ==
  ASSUME Flows, Ledgers, NEW t \in Tasks, NEW new, task'[t] = new, \A u \in Tasks \ {t} : task'[u] = task[u],
         \/ new.mode = task[t].mode /\ (new.pending \in {None, task[t].pending} \/ new.mode = "Embedded")
         \/ new.pending = None,
         new.claim \in {None, task[t].claim}, UNCHANGED <<ledgerVars, submitted>>
  PROVE  Ledgers'
<1>1. ASSUME NEW u \in Tasks, NEW k \in Cookies, NEW d \in Nat, Uses(u, k, d)' PROVE Uses(u, k, d)
  <2>1. None # [cookie |-> k, day |-> d]
    BY NoneAssumption DEF Completions
  <2>2. CASE u = t
    BY <1>1, <2>1, <2>2 DEF Uses
  <2>3. CASE u # t
    BY <1>1, <2>3 DEF Uses
  <2> QED BY <2>2, <2>3
<1>2. submitted' \subseteq Submissions
  BY DEF Ledgers
<1>3. \A u \in Tasks : task'[u].claim \in {None, task[u].claim}
  OBVIOUS
<1> QED BY <1>1, <1>2, <1>3, UsedAlready

\* A step inside the loop or the cleanup that leaves the window alone keeps
\* Windows, and so does the end of a task that asks for recovery.
LEMMA WindowStays ==
  ASSUME Flows, Windows, NEW t \in Tasks, NEW new, task'[t] = new, \A u \in Tasks \ {t} : task'[u] = task[u],
         new.mode = task[t].mode, UNCHANGED <<proc, renderers, directory>>,
         killed' = killed \/ (Embedded(t) /\ task[t].step \in Children),
         \/ new.step = task[t].step /\ new.result = task[t].result
         \/ task[t].step \notin {"idle", "binding", "ended"} /\ new.step \notin {"idle", "binding", "removing", "ended"}
         \/ task[t].step \notin {"idle", "binding", "ended"} /\ new.step = "ended" /\ new.result = "RecoveryRequired"
         \/ ~Embedded(t)
  PROVE  Windows'
<1>1. \A u \in Tasks : Embedded(u)' <=> Embedded(u)
  BY DEF Embedded
<1>2. ASSUME proc' = "none" PROVE ~renderers' /\ directory' = "none" /\ ~killed'
  BY <1>2 DEF Windows, Children
<1>3. ASSUME proc' # "none" PROVE \E u \in Tasks : Embedded(u)' /\ task'[u].step \notin {"idle", "binding"}
  <2>1. PICK u \in Tasks : Embedded(u) /\ task[u].step \notin {"idle", "binding"}
    BY <1>3 DEF Windows
  <2>2. CASE u = t
    BY <1>1, <2>1, <2>2
  <2>3. CASE u # t
    BY <1>1, <2>1, <2>3
  <2> QED BY <2>2, <2>3
<1>4. ASSUME NEW u \in Tasks, Embedded(u)'
      PROVE  /\ task'[u].step = "binding" => proc' = "none"
             /\ task'[u].step \notin {"idle", "binding", "ended"} => proc' # "none"
  <2>1. /\ task[u].step = "binding" => proc = "none"
        /\ task[u].step \notin {"idle", "binding", "ended"} => proc # "none"
    BY <1>1, <1>4 DEF Windows
  <2>2. CASE u = t
    <3>1. CASE new.step = task[t].step
      BY <2>1, <2>2, <3>1
    <3>2. CASE task[t].step \notin {"idle", "binding", "ended"} /\ new.step \notin {"idle", "binding", "removing", "ended"}
      BY <1>1, <1>4, <2>1, <2>2, <3>2
    <3> QED BY <1>1, <1>4, <2>1, <2>2, <3>1, <3>2
  <2>3. CASE u # t
    BY <2>1, <2>3
  <2> QED BY <2>2, <2>3
<1>5. NothingLeft'
  <2> SUFFICES ASSUME NEW u \in Tasks, Embedded(u)'
               PROVE  LET ended == task'[u].step = "ended" /\ task'[u].result # "RecoveryRequired"
                      IN  /\ ended \/ task'[u].step = "removing" => proc' \in {"none", "gone"} /\ ~renderers'
                          /\ ended /\ task'[u].result # "Unreadable" => directory' = "none"
    BY DEF NothingLeft
  <2>1. Embedded(u)
    BY <1>1
  <2>2. LET ended == task[u].step = "ended" /\ task[u].result # "RecoveryRequired"
        IN  /\ ended \/ task[u].step = "removing" => proc \in {"none", "gone"} /\ ~renderers
            /\ ended /\ task[u].result # "Unreadable" => directory = "none"
    BY <2>1 DEF Windows, NothingLeft
  <2>3. CASE u = t
    BY <2>1, <2>2, <2>3
  <2>4. CASE u # t
    BY <2>2, <2>4
  <2> QED BY <2>3, <2>4
<1> QED BY <1>2, <1>3, <1>4, <1>5 DEF Windows

----------------------------------------------------------------------------
(* States of a task that fit                                               *)

Results == {None, "Failed", "Stopped", "RecoveryRequired", "Unreadable"}

\* What a task held goes with its loop.
LEMMA OverHolds ==
  ASSUME NEW t \in Tasks, NEW step \in Steps, NEW result \in Results
  PROVE  LET n == Over(t, step, result)
         IN  /\ n.step = step /\ n.mode = task[t].mode /\ n.result = result /\ n.pending = None /\ ~n.done
             /\ n.notices = <<>> /\ n.seen = None /\ n.commands = <<>> /\ n.claim = None
BY DEF Over, NewTask

\* The state after a loop fits.
LEMMA OverFits ==
  ASSUME Flows, NEW t \in Tasks, NEW step \in Steps, step \notin {"idle", "serving"} \cup Children, NEW result \in Results
  PROVE  Over(t, step, result) \in States /\ Fits(t, Over(t, step, result))
<1> DEFINE n == Over(t, step, result)
<1>1. task[t] \in States /\ Fits(t, task[t])
  BY DEF Flows, Types
<1>2. /\ n.step = step /\ n.mode = task[t].mode /\ n.result = result /\ n.pending = None /\ ~n.done
      /\ n.notices = <<>> /\ n.seen = None /\ n.commands = <<>> /\ n.claim = None
  BY OverHolds
<1>3. n \in States
  <2>1. NewTask \in States
    BY DEF NewTask, States, Steps
  <2>2. task[t].mode \in {None, "Embedded", "System", "Manual"} /\ task[t].stop \in BOOLEAN /\ task[t].over \in BOOLEAN
    BY <1>1 DEF States
  <2> QED BY <2>1, <2>2 DEF Over, States, Steps, Results
<1>4. Fits(t, n)
  BY <1>1, <1>2 DEF Fits, Children
<1> QED BY <1>3, <1>4

\* The end of a task, of its own accord or not.
LEMMA EndsFits ==
  ASSUME Flows, NEW t \in Tasks, NEW result \in Results
  PROVE  LET n == Ends(t, result)
         IN  /\ n \in States /\ Fits(t, n) /\ n.step = "ended" /\ n.result = result /\ n.mode = task[t].mode
             /\ n.pending = None /\ n.claim = None
<1> DEFINE n == Ends(t, result)
           o == Over(t, "ended", result)
<1>1. task[t] \in States /\ Fits(t, task[t])
  BY DEF Flows, Types
<1>2. /\ o.step = "ended" /\ o.result = result /\ o.mode = task[t].mode
      /\ o.pending = None /\ o.claim = None /\ ~o.done /\ o.seen = None /\ o.notices = <<>> /\ o.commands = <<>>
  BY OverHolds DEF Steps
<1>3. o \in States
  BY OverFits DEF Steps, Children
<1>4. n = [o EXCEPT !.stop = TRUE, !.over = o.over \/ (result # "Stopped" /\ ~task[t].stop)]
  BY DEF Ends
<1> HIDE DEF n, o
<1>5. n \in States
  BY <1>3, <1>4 DEF States
<1>6. /\ n.step = "ended" /\ n.result = result /\ n.mode = task[t].mode
      /\ n.pending = None /\ n.claim = None /\ ~n.done /\ n.seen = None /\ n.notices = <<>> /\ n.commands = <<>>
  BY <1>2, <1>3, <1>4 DEF States
<1>7. Fits(t, n)
  BY <1>1, <1>6 DEF Fits, Children
<1> QED BY <1>5, <1>6, <1>7 DEF n

\* A state that shows no more, of a completion that waits as before, still fits.
LEMMA LessFits ==
  ASSUME NEW t, NEW s \in States, NEW n \in States, Fits(t, s),
         n.step = s.step, n.mode = s.mode, n.pending = s.pending, n.claim \in {None, s.claim}, n.done = s.done, s.over => n.over,
         \A c \in Cookies : Shows(n, c) => Shows(s, c),
         s.step # "serving" => n.seen = None /\ n.notices = <<>> /\ n.commands = <<>>
  PROVE  Fits(t, n)
BY DEF Fits

\* One more prompt.
LEMMA Prompted ==
  ASSUME NEW s \in States, NEW notice \in Cookies \cup {"Stage"}
  PROVE  /\ Prompts(s, notice) \in States /\ Prompts(s, notice) = [s EXCEPT !.notices = Append(s.notices, notice)]
         /\ \A c \in Cookies : Shows(Prompts(s, notice), c) => Shows(s, c) \/ c = notice
<1> DEFINE n == Prompts(s, notice)
<1>1. n = [s EXCEPT !.notices = Append(s.notices, notice)]
  BY DEF Prompts
<1>2. s.notices \in Seq(Cookies \cup {"Stage"})
  BY DEF States
<1>3. Append(s.notices, notice) \in Seq(Cookies \cup {"Stage"})
  BY <1>2
<1>4. n \in States
  BY <1>1, <1>3 DEF States
<1>5. n.notices = Append(s.notices, notice) /\ n.seen = s.seen /\ n.commands = s.commands
  BY <1>1 DEF States
<1>6. ASSUME NEW c \in Cookies, Shows(n, c) PROVE Shows(s, c) \/ c = notice
  BY <1>2, <1>5, <1>6 DEF Shows
<1> QED BY <1>1, <1>4, <1>6

\* A prompt of no completion changes nothing that can be confirmed.
LEMMA StageFits ==
  ASSUME NEW t, NEW s \in States, Fits(t, s), s.step = "serving"
  PROVE  /\ Prompts(s, "Stage") \in States /\ Fits(t, Prompts(s, "Stage"))
         /\ LET n == Prompts(s, "Stage")
            IN  n.step = s.step /\ n.mode = s.mode /\ n.pending = s.pending /\ n.claim = s.claim /\ n.done = s.done
                /\ n.result = s.result /\ n.over = s.over
<1> DEFINE n == Prompts(s, "Stage")
<1>1. n \in States /\ (\A c \in Cookies : Shows(n, c) => Shows(s, c))
  BY Prompted, NoneAssumption
<1>2. n.step = s.step /\ n.mode = s.mode /\ n.pending = s.pending /\ n.claim = s.claim /\ n.done = s.done
      /\ n.result = s.result /\ n.over = s.over
  BY Prompted DEF States
<1>3. Fits(t, n)
  BY <1>1, <1>2, LessFits
<1> QED BY <1>1, <1>2, <1>3

\* The first completion is shown when it waits; those that are shown are no others.
LEMMA WaitsFits ==
  ASSUME NEW t, NEW s \in States, Fits(t, s), s.step = "serving", s.pending = None, ~s.done, s.claim = None,
         NEW c \in Cookies, NEW d \in Nat
  PROVE  LET n == Prompts([s EXCEPT !.pending = [cookie |-> c, day |-> d]], c)
         IN  /\ n \in States /\ Fits(t, n)
             /\ n.step = s.step /\ n.mode = s.mode /\ n.pending = [cookie |-> c, day |-> d] /\ n.claim = None
             /\ n.result = s.result
<1> DEFINE p == [cookie |-> c, day |-> d]
           m == [s EXCEPT !.pending = p]
           n == Prompts(m, c)
<1>1. p \in Completions /\ p # None /\ p.cookie = c
  BY NoneAssumption DEF Completions
<1> HIDE DEF p
<1>2. m \in States
  BY <1>1 DEF States
<1>3. m.step = s.step /\ m.mode = s.mode /\ m.pending = p /\ m.claim = None /\ m.result = s.result /\ m.done = s.done
      /\ m.over = s.over /\ m.seen = s.seen /\ m.notices = s.notices /\ m.commands = s.commands
  BY DEF States
<1>4. n \in States /\ n = [m EXCEPT !.notices = Append(m.notices, c)] /\ \A k \in Cookies : Shows(n, k) => Shows(m, k) \/ k = c
  BY <1>2, Prompted
<1>5. n.step = s.step /\ n.mode = s.mode /\ n.pending = p /\ n.claim = None /\ n.result = s.result /\ n.done = s.done
      /\ n.over = s.over
  BY <1>2, <1>3, <1>4 DEF States
<1>6. \A k \in Cookies : Shows(m, k) => Shows(s, k)
  BY <1>3 DEF Shows
<1>7. Fits(t, n)
  BY <1>1, <1>4, <1>5, <1>6 DEF Fits, Children
<1> QED BY <1>4, <1>5, <1>7 DEF p

----------------------------------------------------------------------------
(* Steps that change one task and nothing it shares                        *)

Still == <<proc, renderers, directory, request, lock, killed, ledgerVars, historyVars>>

\* A task that stays where it is, or in its loop, or leaves the loop for its cleanup.
LEMMA OwnKeeps ==
  ASSUME BInv, NEW t \in Tasks, NEW new \in States, Set(t, new), Fits(t, new),
         UNCHANGED <<proc, renderers, directory, request, lock, killed, now>>, ledger' \subseteq Entries,
         new.mode = task[t].mode,
         \/ new.step = task[t].step /\ new.result = task[t].result
         \/ task[t].step = "serving" /\ new.step \in {"serving", "closing"}
  PROVE  Flows' /\ Windows' /\ task'[t] = new /\ \A u \in Tasks \ {t} : task'[u] = task[u]
<1>1. new.step \notin {"idle", "ended"} => lock' = t
  BY DEF BInv, Flows, Locked
<1>2. now' \in Nat /\ renderers' \in BOOLEAN /\ killed' \in BOOLEAN
  BY DEF BInv, Flows, Types
<1>3. Flows' /\ task'[t] = new /\ \A u \in Tasks \ {t} : task'[u] = task[u]
  BY <1>1, <1>2, Moves DEF BInv
<1>4. Windows'
  BY <1>3, WindowStays DEF BInv
<1> QED BY <1>3, <1>4

\* The same with the ledger and the history left alone.
LEMMA OrdinaryKeeps ==
  ASSUME BInv, NEW t \in Tasks, NEW new \in States, Set(t, new), Fits(t, new), UNCHANGED Still,
         new.mode = task[t].mode, new.pending \in {None, task[t].pending} \/ new.mode = "Embedded",
         new.claim \in {None, task[t].claim},
         \/ new.step = task[t].step /\ new.result = task[t].result
         \/ task[t].step = "serving" /\ new.step \in {"serving", "closing"}
  PROVE  BInv'
<1>1. /\ UNCHANGED <<proc, renderers, directory, request, lock, killed, now>>
      /\ UNCHANGED <<ledgerVars, submitted>> /\ confirmed' = confirmed /\ ledger' = ledger
  BY DEF Still, ledgerVars, historyVars
<1>2. ledger' \subseteq Entries
  BY <1>1 DEF BInv, Flows, Types
<1>3. Flows' /\ Windows' /\ task'[t] = new /\ \A u \in Tasks \ {t} : task'[u] = task[u]
  BY <1>1, <1>2, OwnKeeps
<1>4. Ledgers'
  BY <1>1, <1>3, LedgerStays DEF BInv
<1>5. ConfirmedOnly'
  BY <1>1 DEF BInv, ConfirmedOnly
<1> QED BY <1>3, <1>4, <1>5 DEF BInv

\* The loop ends.
LEMMA CleansKeeps ==
  ASSUME BInv, NEW t \in Tasks, task[t].step = "serving", NEW result \in {"Failed", "Stopped"},
         Set(t, Cleans(t, result)), UNCHANGED Still
  PROVE  BInv'
<1> DEFINE n == Cleans(t, result)
<1>1. n = Over(t, "closing", result)
  BY DEF Cleans
<1>2. n.step = "closing" /\ n.mode = task[t].mode /\ n.pending = None /\ n.claim = None
  BY <1>1, OverHolds DEF Steps, Results
<1>3. Over(t, "closing", result) \in States /\ Fits(t, Over(t, "closing", result))
  BY OverFits DEF BInv, Results, Steps, Children
<1> HIDE DEF n
<1>4. Set(t, n)
  BY DEF n
<1> QED BY <1>1, <1>2, <1>3, <1>4, OrdinaryKeeps

\* The session's stop and the library's end may fall at any point.
LEMMA FlagsKeep ==
  ASSUME BInv, NEW t \in Tasks, SessionStops(t) \/ LibraryEnds(t)
  PROVE  BInv'
<1>1. task[t] \in States /\ Fits(t, task[t])
  BY DEF BInv, Flows, Types
<1>2. UNCHANGED Still
  BY DEF SessionStops, LibraryEnds, Still, windowVars
<1>3. CASE SessionStops(t)
  <2> DEFINE n == [task[t] EXCEPT !.stop = TRUE]
  <2>1. Set(t, n)
    BY <1>3 DEF SessionStops
  <2>2. n \in States
    BY <1>1 DEF States
  <2>3. /\ n.step = task[t].step /\ n.mode = task[t].mode /\ n.pending = task[t].pending /\ n.claim = task[t].claim
        /\ n.done = task[t].done /\ n.over = task[t].over /\ n.seen = task[t].seen /\ n.notices = task[t].notices
        /\ n.commands = task[t].commands /\ n.result = task[t].result
    BY <1>1 DEF States
  <2> HIDE DEF n
  <2>4. Fits(t, n)
    BY <1>1, <2>3 DEF Fits, Shows, Children
  <2> QED BY <1>2, <2>1, <2>2, <2>3, <2>4, OrdinaryKeeps
<1>4. CASE LibraryEnds(t)
  <2> DEFINE n == [task[t] EXCEPT !.over = TRUE]
  <2>1. Set(t, n)
    BY <1>4 DEF LibraryEnds
  <2>2. n \in States
    BY <1>1 DEF States
  <2>3. /\ n.step = task[t].step /\ n.mode = task[t].mode /\ n.pending = task[t].pending /\ n.claim = task[t].claim
        /\ n.done = task[t].done /\ n.over = TRUE /\ n.seen = task[t].seen /\ n.notices = task[t].notices
        /\ n.commands = task[t].commands /\ n.result = task[t].result
    BY <1>1 DEF States
  <2> HIDE DEF n
  <2>4. Fits(t, n)
    BY <1>1, <2>3 DEF Fits, Shows, Children
  <2> QED BY <1>2, <2>1, <2>2, <2>3, <2>4, OrdinaryKeeps
<1> QED BY <1>3, <1>4

\* What the user answers is what was seen.
LEMMA UserCommandsKeeps ==
  ASSUME BInv, NEW t \in Tasks, UserCommands(t)
  PROVE  BInv'
<1> DEFINE s == task[t]
<1>1. s \in States /\ Fits(t, s) /\ s.step = "serving"
  BY DEF BInv, Flows, Types, UserCommands
<1>2. UNCHANGED Still
  BY DEF UserCommands, Still, windowVars
<1>3. PICK c \in [kind : {"callback"}, cookie : Cookies, accept : {TRUE}] \cup
                 [kind : {"confirm"}, cookie : {s.seen} \ {None}, accept : BOOLEAN] :
         Set(t, [s EXCEPT !.commands = Append(@, c), !.orders = @ + 1])
  BY DEF UserCommands
<1>4. c \in Commands /\ (c.kind = "confirm" => c.cookie = s.seen)
  BY <1>1, <1>3 DEF Commands, States
<1> DEFINE n == [s EXCEPT !.commands = Append(s.commands, c), !.orders = s.orders + 1]
<1>5. Set(t, n)
  BY <1>3
<1>6. s.commands \in Seq(Commands) /\ s.orders \in Nat
  BY <1>1 DEF States
<1>7. Append(s.commands, c) \in Seq(Commands) /\ s.orders + 1 \in Nat
  BY <1>4, <1>6
<1>8. n \in States
  BY <1>1, <1>7 DEF States
<1>9. /\ n.step = s.step /\ n.mode = s.mode /\ n.pending = s.pending /\ n.claim = s.claim
      /\ n.done = s.done /\ n.over = s.over /\ n.seen = s.seen /\ n.notices = s.notices
      /\ n.commands = Append(s.commands, c) /\ n.result = s.result
  BY <1>1 DEF States
<1> HIDE DEF n, s
<1>10. ASSUME NEW k \in Cookies, Shows(n, k) PROVE Shows(s, k)
  <2>1. ASSUME NEW i \in 1..Len(n.commands), n.commands[i].kind = "confirm", n.commands[i].cookie = k PROVE Shows(s, k)
    <3>1. CASE i = Len(s.commands) + 1
      <4>1. n.commands[i] = c
        BY <1>6, <1>9, <3>1
      <4> QED BY <1>4, <2>1, <4>1 DEF Shows
    <3>2. CASE i # Len(s.commands) + 1
      <4>1. i \in 1..Len(s.commands) /\ n.commands[i] = s.commands[i]
        BY <1>6, <1>9, <3>2
      <4> QED BY <2>1, <4>1 DEF Shows
    <3> QED BY <3>1, <3>2
  <2> QED BY <1>9, <1>10, <2>1 DEF Shows
<1>11. Fits(t, n)
  BY <1>1, <1>8, <1>9, <1>10, LessFits
<1> QED BY <1>2, <1>5, <1>8, <1>9, <1>11, OrdinaryKeeps DEF s

\* What the user sees is what was prompted.
LEMMA UserReadsKeeps ==
  ASSUME BInv, NEW t \in Tasks, UserReads(t)
  PROVE  BInv'
<1> DEFINE s == task[t]
           h == Head(s.notices)
           n == [s EXCEPT !.notices = Tail(s.notices), !.seen = IF h \in Cookies THEN h ELSE s.seen]
<1>1. s \in States /\ Fits(t, s) /\ s.notices # <<>>
  BY DEF BInv, Flows, Types, UserReads
<1>2. UNCHANGED Still
  BY DEF UserReads, Still, windowVars
<1>3. Set(t, n)
  BY DEF UserReads
<1>4. s.notices \in Seq(Cookies \cup {"Stage"}) /\ s.seen \in Cookies \cup {None}
  BY <1>1 DEF States
<1>5. /\ Tail(s.notices) \in Seq(Cookies \cup {"Stage"}) /\ h = s.notices[1] /\ 1 \in 1..Len(s.notices)
      /\ \A i \in 1..Len(Tail(s.notices)) : i + 1 \in 1..Len(s.notices) /\ Tail(s.notices)[i] = s.notices[i + 1]
  BY <1>1, <1>4
<1> HIDE DEF h
<1>6. n \in States
  BY <1>1, <1>4, <1>5 DEF States
<1>7. /\ n.step = s.step /\ n.mode = s.mode /\ n.pending = s.pending /\ n.claim = s.claim
      /\ n.done = s.done /\ n.over = s.over /\ n.seen \in {h, s.seen} /\ n.notices = Tail(s.notices)
      /\ n.commands = s.commands /\ n.result = s.result
  BY <1>1 DEF States
<1> HIDE DEF n, s
<1>8. s.step = "serving"
  BY <1>1 DEF Fits
<1>9. ASSUME NEW k \in Cookies, Shows(n, k) PROVE Shows(s, k)
  BY <1>5, <1>7, <1>9 DEF Shows
<1>10. Fits(t, n)
  BY <1>1, <1>6, <1>7, <1>8, <1>9, LessFits
<1> QED BY <1>2, <1>3, <1>6, <1>7, <1>10, OrdinaryKeeps DEF s

\* The loop is stopped, or its time is over.
LEMMA LoopEnds == ASSUME BInv, NEW t \in Tasks, Stopped(t) \/ Expires(t) PROVE BInv'
<1>1. task[t].step = "serving" /\ UNCHANGED Still
  BY DEF Stopped, Expires, Waits, Serving, Still, windowVars
<1>2. CASE Stopped(t)
  BY <1>1, <1>2, CleansKeeps DEF Stopped
<1>3. CASE Expires(t)
  BY <1>1, <1>3, CleansKeeps DEF Expires
<1> QED BY <1>2, <1>3

\* opened ends the loop, or prompts of no completion.
LEMMA OpenedKeeps ==
  ASSUME BInv, NEW t \in Tasks, NEW s \in States, Fits(t, s), task[t].step = "serving", UNCHANGED Still,
         s.step = "serving", s.mode = task[t].mode, s.pending = task[t].pending, s.claim = task[t].claim,
         Set(t, Opened(t, s))
  PROVE  BInv'
<1>1. CASE Set(t, Cleans(t, "Failed"))
  BY <1>1, CleansKeeps
<1>2. CASE Set(t, Prompts([s EXCEPT !.opened = TRUE], "Stage"))
  <2> DEFINE o == [s EXCEPT !.opened = TRUE]
             n == Prompts(o, "Stage")
  <2>1. o \in States
    BY DEF States
  <2>2. /\ o.step = s.step /\ o.mode = s.mode /\ o.pending = s.pending /\ o.claim = s.claim /\ o.done = s.done
        /\ o.over = s.over /\ o.seen = s.seen /\ o.notices = s.notices /\ o.commands = s.commands
    BY DEF States
  <2> HIDE DEF o
  <2>3. Fits(t, o)
    BY <2>2 DEF Fits, Shows, Children
  <2>4. n \in States /\ Fits(t, n) /\ n.step = s.step /\ n.mode = s.mode /\ n.pending = s.pending /\ n.claim = s.claim
    BY <2>1, <2>2, <2>3, StageFits
  <2>5. Set(t, n)
    BY <1>2 DEF o
  <2> HIDE DEF n
  <2> QED BY <2>4, <2>5, OrdinaryKeeps
<1> QED BY <1>1, <1>2 DEF Opened

\* An external browser has been started.
LEMMA LaunchedKeeps == ASSUME BInv, NEW t \in Tasks, Launched(t) PROVE BInv'
<1> DEFINE s == [task[t] EXCEPT !.launch = FALSE]
<1>1. task[t] \in States /\ Fits(t, task[t]) /\ task[t].step = "serving" /\ UNCHANGED Still
  BY DEF BInv, Flows, Types, Launched, Waits, Serving, Still, windowVars
<1>2. s \in States
  BY <1>1 DEF States
<1>3. /\ s.step = task[t].step /\ s.mode = task[t].mode /\ s.pending = task[t].pending /\ s.claim = task[t].claim
      /\ s.done = task[t].done /\ s.over = task[t].over /\ s.seen = task[t].seen /\ s.notices = task[t].notices
      /\ s.commands = task[t].commands
  BY <1>1 DEF States
<1>4. Set(t, Opened(t, s))
  BY DEF Launched
<1> HIDE DEF s
<1>5. Fits(t, s)
  BY <1>1, <1>3 DEF Fits, Shows, Children
<1> QED BY <1>1, <1>2, <1>3, <1>4, <1>5, OpenedKeeps

----------------------------------------------------------------------------
(* The ledger                                                              *)

\* A claim has read the ledger, in which its completion is not, so that nobody
\* has it in use; a completion that is there, or a full ledger, changes nothing.
LEMMA ClaimReadsKeeps ==
  ASSUME BInv, NEW t \in Tasks, NEW s \in States, Fits(t, s), task[t].step = "serving", task[t].claim = None, UNCHANGED Still,
         s.step = "serving", s.mode = task[t].mode, s.pending = task[t].pending, s.claim = None, s.result = task[t].result,
         s.mode # "Embedded", ~s.done, s.pending = None,
         NEW k \in Cookies, Set(t, ClaimReads(t, s, k))
  PROVE  BInv'
<1>1. CASE Set(t, s)
  BY <1>1, OrdinaryKeeps
<1>2. CASE /\ ~\E r \in Live : r.cookie = k
           /\ Set(t, [s EXCEPT !.claim = [cookie |-> k, day |-> now, records |-> Live]])
  <2> DEFINE c == [cookie |-> k, day |-> now, records |-> Live]
             n == [s EXCEPT !.claim = c]
  <2>1. now \in Nat /\ ledger \subseteq Entries
    BY DEF BInv, Flows, Types
  <2>2. Live \subseteq ledger /\ \A r \in ledger : r.expires > now <=> r \in Live
    BY DEF Live
  <2>3. c \in Claims /\ c # None /\ c.cookie = k /\ c.day = now /\ c.records = Live
    BY <2>1, <2>2, NoneAssumption DEF Claims
  <2> HIDE DEF c
  <2>4. n \in States
    BY <2>3 DEF States
  <2>5. /\ n.step = s.step /\ n.mode = s.mode /\ n.pending = s.pending /\ n.claim = c /\ n.done = s.done /\ n.result = s.result
        /\ n.over = s.over /\ n.seen = s.seen /\ n.notices = s.notices /\ n.commands = s.commands
    BY DEF States
  <2>6. Set(t, n)
    BY <1>2 DEF c
  <2> HIDE DEF n
  <2>7. Fits(t, n)
    BY <2>5 DEF Fits, Shows, Children
  <2>8. /\ UNCHANGED <<proc, renderers, directory, request, lock, killed, now>>
        /\ submitted' = submitted /\ confirmed' = confirmed /\ ledger' = ledger /\ now' = now
    BY DEF Still, ledgerVars, historyVars
  <2>9. Flows' /\ Windows' /\ task'[t] = n /\ \A u \in Tasks \ {t} : task'[u] = task[u]
    BY <2>1, <2>4, <2>5, <2>6, <2>7, <2>8, OwnKeeps
  <2>10. ASSUME NEW u \in Tasks, NEW j, NEW d PROVE Uses(u, j, d)' <=> Uses(u, j, d)
    BY <2>5, <2>8, <2>9 DEF Uses
  <2>11. ASSUME NEW u \in Tasks PROVE ~Uses(u, k, now)
    <3>1. [cookie |-> k, expires |-> now + 1] \notin ledger
      <4> DEFINE e == [cookie |-> k, expires |-> now + 1]
      <4>1. e.cookie = k /\ e.expires > now
        BY <2>1
      <4> HIDE DEF e
      <4>2. e \notin ledger
        BY <1>2, <2>2, <4>1
      <4> QED BY <4>2 DEF e
    <3> QED BY <2>1, <3>1 DEF BInv, Ledgers
  <2>12. ASSUME NEW u \in Tasks, task'[u].claim # None
         PROVE  /\ task'[u].claim.day <= now' /\ {r \in ledger' : r.expires > task'[u].claim.day} \subseteq task'[u].claim.records
                /\ \A v \in Tasks : ~(Uses(v, task[u].claim.cookie, task[u].claim.day))'
    <3>1. CASE u = t
      <4>1. task'[u].claim = c
        BY <2>5, <2>9, <3>1
      <4>2. \A v \in Tasks : ~Uses(v, k, now)'
        BY <2>5, <2>8, <2>9, <2>11 DEF Uses
      <4> QED BY <2>1, <2>2, <2>3, <2>8, <4>1, <4>2 DEF Uses
    <3>2. CASE u # t
      <4>1. task'[u] = task[u]
        BY <2>9, <3>2
      <4>2. task[u].step \notin {"idle", "ended"} /\ task[t].step \notin {"idle", "ended"}
        BY <2>12, <4>1 DEF BInv, Flows, Fits
      <4> QED BY <3>2, <4>2 DEF BInv, Flows, Locked
    <3> QED BY <3>1, <3>2
  <2>13. ASSUME NEW u \in Tasks, NEW j \in Cookies, NEW d \in Nat, Uses(u, j, d)'
         PROVE  /\ d <= now' /\ (d = now' => [cookie |-> j, expires |-> d + 1] \in ledger')
                /\ \A v \in Tasks : Uses(v, j, d)' => v = u
    <3>1. Uses(u, j, d)
      BY <2>10, <2>13
    <3>2. /\ d <= now /\ (d = now => [cookie |-> j, expires |-> d + 1] \in ledger)
          /\ \A v \in Tasks : Uses(v, j, d) => v = u
      BY <3>1 DEF BInv, Ledgers
    <3> QED BY <2>8, <2>10, <3>2
  <2>14. Ledgers'
    BY <2>8, <2>12, <2>13 DEF BInv, Ledgers
  <2>15. ConfirmedOnly'
    BY <2>8 DEF BInv, ConfirmedOnly
  <2> QED BY <2>9, <2>14, <2>15 DEF BInv
<1> QED BY <1>1, <1>2 DEF ClaimReads

\* The ledger is written as it was read, under the lock: what it still holds stays,
\* the completion is entered, and is in use by this task alone.
LEMMA ClaimWritesKeeps == ASSUME BInv, NEW t \in Tasks, ClaimWrites(t) PROVE BInv'
<1> DEFINE c == task[t].claim
           s == [task[t] EXCEPT !.claim = None]
           p == [cookie |-> c.cookie, day |-> c.day]
           shown == Prompts([s EXCEPT !.pending = p], c.cookie)
<1>1. task[t] \in States /\ Fits(t, task[t]) /\ c # None /\ c \in Claims
  BY DEF BInv, Flows, Types, ClaimWrites, States
<1>2. /\ UNCHANGED <<proc, renderers, directory, request, lock, killed, now>>
      /\ submitted' = submitted /\ confirmed' = confirmed /\ now' = now
  BY DEF ClaimWrites, windowVars, historyVars
<1>3. task[t].step = "serving" /\ task[t].pending = None /\ ~task[t].done /\ task[t].mode # "Embedded"
  BY <1>1 DEF Fits
<1>4. s \in States
  BY <1>1 DEF States
<1>5. /\ s.step = "serving" /\ s.mode = task[t].mode /\ s.pending = None /\ s.claim = None /\ ~s.done /\ s.result = task[t].result
      /\ s.over = task[t].over /\ s.seen = task[t].seen /\ s.notices = task[t].notices /\ s.commands = task[t].commands
  BY <1>1, <1>3 DEF States
<1>6. c.cookie \in Cookies /\ c.day \in Nat /\ c.records \subseteq Entries
  BY <1>1 DEF Claims
<1> DEFINE k == c.cookie
           d == c.day
<1>7. \/ /\ ledger' = c.records \cup {[cookie |-> k, expires |-> d + 1]}
         /\ Set(t, shown) \/ Set(t, s)
      \/ Set(t, s) /\ ledger' = ledger
  BY DEF ClaimWrites
<1> HIDE DEF s
<1>8. Fits(t, s)
  BY <1>1, <1>5 DEF Fits, Shows, Children
<1>9. CASE Set(t, s) /\ ledger' = ledger
  <2>1. UNCHANGED Still
    BY <1>2, <1>9 DEF Still, ledgerVars, historyVars
  <2> QED BY <1>3, <1>4, <1>5, <1>8, <1>9, <2>1, OrdinaryKeeps
<1>10. ASSUME ledger' = c.records \cup {[cookie |-> k, expires |-> d + 1]},
              NEW new \in States, Set(t, new), Fits(t, new), new.mode = task[t].mode, new.step = task[t].step, new.result = task[t].result,
              new.claim = None, new.pending \in {None, p}
       PROVE  BInv'
  <2>1. ledger' \subseteq Entries
    BY <1>6, <1>10 DEF Entries
  <2>2. Flows' /\ Windows' /\ task'[t] = new /\ \A u \in Tasks \ {t} : task'[u] = task[u]
    BY <1>2, <1>10, <2>1, OwnKeeps
  <2>3. d <= now /\ {r \in ledger : r.expires > d} \subseteq c.records /\ \A u \in Tasks : ~Uses(u, k, d)
    BY <1>1 DEF BInv, Ledgers
  <2>4. now \in Nat
    BY DEF BInv, Flows, Types
  <2>5. ASSUME NEW u \in Tasks, NEW j \in Cookies, NEW e \in Nat, Uses(u, j, e)'
        PROVE  Uses(u, j, e) \/ (u = t /\ j = k /\ e = d)
    <3>1. None # [cookie |-> j, day |-> e]
      BY NoneAssumption DEF Completions
    <3>2. CASE u = t
      <4>1. CASE [task |-> t, cookie |-> j, day |-> e, outside |-> TRUE] \in submitted
        BY <3>2, <4>1 DEF Uses
      <4>2. CASE task'[t].pending = [cookie |-> j, day |-> e]
        BY <1>10, <2>2, <3>1, <3>2, <4>2
      <4> QED BY <1>2, <2>5, <3>2, <4>1, <4>2 DEF Uses
    <3>3. CASE u # t
      BY <1>2, <2>2, <2>5, <3>3 DEF Uses
    <3> QED BY <3>2, <3>3
  <2>6. ASSUME NEW u \in Tasks, NEW j \in Cookies, NEW e \in Nat, Uses(u, j, e)
        PROVE  e <= now /\ (e = now => [cookie |-> j, expires |-> e + 1] \in ledger')
    <3> DEFINE r == [cookie |-> j, expires |-> e + 1]
    <3>1. e <= now /\ (e = now => r \in ledger)
      BY <2>6 DEF BInv, Ledgers
    <3>2. r.expires = e + 1
      OBVIOUS
    <3> HIDE DEF r
    <3>3. e = now => r \in c.records
      BY <1>6, <2>3, <2>4, <3>1, <3>2
    <3> QED BY <1>10, <3>1, <3>3 DEF r
  <2>7. ASSUME NEW u \in Tasks, NEW j \in Cookies, NEW e \in Nat, Uses(u, j, e)'
        PROVE  /\ e <= now' /\ (e = now' => [cookie |-> j, expires |-> e + 1] \in ledger')
               /\ \A v \in Tasks : Uses(v, j, e)' => v = u
    <3>1. e <= now' /\ (e = now' => [cookie |-> j, expires |-> e + 1] \in ledger')
      BY <1>2, <1>10, <2>3, <2>5, <2>6, <2>7
    <3>2. ASSUME NEW v \in Tasks, Uses(v, j, e)' PROVE v = u
      <4>1. Uses(v, j, e) \/ (v = t /\ j = k /\ e = d)
        BY <2>5, <3>2
      <4>2. Uses(u, j, e) \/ (u = t /\ j = k /\ e = d)
        BY <2>5, <2>7
      <4>3. CASE Uses(u, j, e) /\ Uses(v, j, e)
        BY <4>3 DEF BInv, Ledgers
      <4> QED BY <2>3, <4>1, <4>2, <4>3
    <3> QED BY <3>1, <3>2
  <2>8. ASSUME NEW u \in Tasks, task'[u].claim # None PROVE FALSE
    <3>1. u # t
      BY <1>10, <2>2, <2>8
    <3>2. task[u].claim # None
      BY <2>2, <2>8, <3>1
    <3>3. task[u].step \notin {"idle", "ended"} /\ task[t].step \notin {"idle", "ended"}
      BY <1>3, <3>2 DEF BInv, Flows, Fits
    <3> QED BY <3>1, <3>3 DEF BInv, Flows, Locked
  <2>9. Ledgers'
    BY <1>2, <2>7, <2>8 DEF BInv, Ledgers
  <2>10. ConfirmedOnly'
    BY <1>2 DEF BInv, ConfirmedOnly
  <2> QED BY <2>2, <2>9, <2>10 DEF BInv
<1>11. /\ shown \in States /\ Fits(t, shown) /\ shown.step = s.step /\ shown.mode = s.mode /\ shown.pending = p /\ shown.claim = None
       /\ shown.result = s.result
  BY <1>4, <1>5, <1>6, <1>8, WaitsFits
<1> HIDE DEF c, p, shown, k, d
<1> QED BY <1>3, <1>4, <1>5, <1>7, <1>8, <1>9, <1>10, <1>11

\* One command less.
LEMMA TailFits ==
  ASSUME NEW t, NEW s \in States, Fits(t, s), s.step = "serving", s.commands # <<>>
  PROVE  LET n == [s EXCEPT !.commands = Tail(@)]
         IN  /\ n \in States /\ Fits(t, n) /\ n.step = s.step /\ n.mode = s.mode /\ n.pending = s.pending /\ n.claim = s.claim
             /\ (n.done <=> s.done) /\ n.result = s.result /\ (n.over <=> s.over)
             /\ Head(s.commands) \in Commands
             /\ Head(s.commands).kind = "confirm" => Shows(s, Head(s.commands).cookie)
<1> DEFINE n == [s EXCEPT !.commands = Tail(s.commands)]
<1>1. s.commands \in Seq(Commands)
  BY DEF States
<1>2. /\ Tail(s.commands) \in Seq(Commands) /\ Head(s.commands) \in Commands
      /\ Head(s.commands) = s.commands[1] /\ 1 \in 1..Len(s.commands)
      /\ \A i \in 1..Len(Tail(s.commands)) : i + 1 \in 1..Len(s.commands) /\ Tail(s.commands)[i] = s.commands[i + 1]
  BY <1>1
<1>3. n \in States
  BY <1>2 DEF States
<1>4. /\ n.step = s.step /\ n.mode = s.mode /\ n.pending = s.pending /\ n.claim = s.claim /\ (n.done <=> s.done)
      /\ n.result = s.result /\ (n.over <=> s.over) /\ n.seen = s.seen /\ n.notices = s.notices /\ n.commands = Tail(s.commands)
  BY DEF States
<1>5. n.done = s.done
  BY DEF States
<1> HIDE DEF n
<1>6. ASSUME NEW k \in Cookies, Shows(n, k) PROVE Shows(s, k)
  BY <1>2, <1>4, <1>6 DEF Shows
<1>7. Fits(t, n)
  BY <1>3, <1>4, <1>5, <1>6, LessFits
<1>8. Head(s.commands).kind = "confirm" => Shows(s, Head(s.commands).cookie)
  BY <1>2 DEF Shows
<1> QED BY <1>2, <1>3, <1>4, <1>7, <1>8 DEF n

\* A callback changes nothing, or claims its completion.
LEMMA CallbacksKeep ==
  ASSUME BInv, NEW t \in Tasks, NEW s \in States, Fits(t, s), task[t].step = "serving", task[t].claim = None, UNCHANGED Still,
         s.step = "serving", s.mode = task[t].mode, s.pending = task[t].pending, s.claim = None, s.result = task[t].result,
         s.done <=> task[t].done,
         NEW k \in Cookies, NEW new \in Callbacks(t, s, k), Set(t, new)
  PROVE  BInv'
<1>1. CASE new = s
  BY <1>1, OrdinaryKeeps
<1>2. CASE new # s
  <2>1. ~RefusesCallback(t)
    BY <1>2 DEF Callbacks
  <2>2. task[t].mode # "Embedded" /\ task[t].pending = None /\ ~task[t].done
    BY <2>1 DEF RefusesCallback, Embedded
  <2>3. new = ClaimReads(t, s, k)
    BY <1>2, <2>1 DEF Callbacks, Decoded
  <2> QED BY <2>2, <2>3, ClaimReadsKeeps
<1> QED BY <1>1, <1>2

\* The callback receiver brings a completion.
LEMMA PeerCallsKeeps == ASSUME BInv, NEW t \in Tasks, PeerCalls(t) PROVE BInv'
<1> DEFINE s == [task[t] EXCEPT !.orders = @ + 1]
<1>1. task[t] \in States /\ Fits(t, task[t]) /\ task[t].step = "serving" /\ task[t].claim = None /\ UNCHANGED Still
  BY DEF BInv, Flows, Types, PeerCalls, Waits, Serving, Still, windowVars
<1>2. PICK k \in Cookies : \E new \in Callbacks(t, s, k) : Set(t, new)
  BY DEF PeerCalls
<1>3. task[t].orders + 1 \in Nat
  BY <1>1 DEF States
<1>4. s \in States
  BY <1>1, <1>3 DEF States
<1>5. /\ s.step = task[t].step /\ s.mode = task[t].mode /\ s.pending = task[t].pending /\ s.claim = task[t].claim
      /\ s.done = task[t].done /\ s.result = task[t].result
      /\ s.over = task[t].over /\ s.seen = task[t].seen /\ s.notices = task[t].notices /\ s.commands = task[t].commands
  BY <1>1 DEF States
<1> HIDE DEF s
<1>6. Fits(t, s)
  BY <1>1, <1>5 DEF Fits, Shows, Children
<1>7. s.done <=> task[t].done
  BY <1>5
<1> QED BY <1>1, <1>2, <1>4, <1>5, <1>6, <1>7, CallbacksKeep

\* An account is confirmed that the user was shown, so that the completion that
\* is submitted is the one that waited.
LEMMA ConfirmsKeeps ==
  ASSUME BInv, NEW t \in Tasks, task[t].step = "serving", task[t].claim = None,
         UNCHANGED <<proc, renderers, directory, request, lock, killed, ledgerVars>>,
         NEW s \in States, Fits(t, s), s.step = "serving", s.mode = task[t].mode, s.pending = task[t].pending, s.claim = None,
         s.done <=> task[t].done, s.result = task[t].result, s.over <=> task[t].over,
         NEW c \in Commands, Shows(task[t], c.cookie), Confirms(t, s, c)
  PROVE  BInv'
<1>1. task[t] \in States /\ Fits(t, task[t])
  BY DEF BInv, Flows, Types
<1>2. CASE Set(t, s) /\ UNCHANGED <<confirmed, submitted>>
  <2>1. UNCHANGED Still
    BY <1>2 DEF Still, ledgerVars, historyVars
  <2> QED BY <1>2, <2>1, OrdinaryKeeps
<1>3. CASE Set(t, [Cleans(t, "Failed") EXCEPT !.over = TRUE]) /\ UNCHANGED <<confirmed, submitted>>
  <2> DEFINE o == Over(t, "closing", "Failed")
             n == [o EXCEPT !.over = TRUE]
  <2>1. o \in States /\ Fits(t, o)
    BY OverFits DEF BInv, Steps, Children, Results
  <2>2. o.step = "closing" /\ o.mode = task[t].mode /\ o.pending = None /\ o.claim = None
    BY OverHolds DEF Steps, Results
  <2>3. Set(t, n)
    BY <1>3 DEF Cleans
  <2> HIDE DEF o
  <2>4. n \in States
    BY <2>1 DEF States
  <2>5. /\ n.step = o.step /\ n.mode = o.mode /\ n.pending = o.pending /\ n.claim = o.claim
        /\ n.done = o.done /\ n.over = TRUE /\ n.seen = o.seen /\ n.notices = o.notices /\ n.commands = o.commands
    BY <2>1 DEF States
  <2> HIDE DEF n
  <2>6. Fits(t, n)
    BY <2>1, <2>2, <2>5 DEF Fits, Children
  <2>7. UNCHANGED Still
    BY <1>3 DEF Still, ledgerVars, historyVars
  <2> QED BY <2>2, <2>3, <2>4, <2>5, <2>6, <2>7, OrdinaryKeeps
<1>4. CASE /\ s.pending # None /\ confirmed' = confirmed \cup {[task |-> t, cookie |-> c.cookie]}
           /\ s.over /\ Set(t, [s EXCEPT !.pending = None]) /\ submitted' = submitted
  <2> DEFINE n == [s EXCEPT !.pending = None]
  <2>1. n \in States
    BY DEF States
  <2>2. /\ n.step = s.step /\ n.mode = s.mode /\ n.pending = None /\ n.claim = s.claim /\ n.result = s.result
        /\ n.done = s.done /\ n.over = s.over /\ n.seen = s.seen /\ n.notices = s.notices /\ n.commands = s.commands
    BY DEF States
  <2>3. Set(t, n)
    BY <1>4
  <2> HIDE DEF n
  <2>4. Fits(t, n)
    BY <1>4, <2>2 DEF Fits, Children
  <2>5. ledger' = ledger /\ now' = now /\ ledger' \subseteq Entries
    BY DEF BInv, Flows, Types, ledgerVars
  <2>6. Flows' /\ Windows' /\ task'[t] = n /\ \A u \in Tasks \ {t} : task'[u] = task[u]
    BY <2>1, <2>2, <2>3, <2>4, <2>5, OwnKeeps
  <2>7. Ledgers'
    BY <1>4, <2>2, <2>5, <2>6, LedgerStays DEF BInv
  <2>8. ConfirmedOnly'
    BY <1>4 DEF BInv, ConfirmedOnly
  <2> QED BY <2>6, <2>7, <2>8 DEF BInv
<1>5. CASE /\ s.pending # None /\ confirmed' = confirmed \cup {[task |-> t, cookie |-> c.cookie]} /\ ~s.over
           /\ submitted' = submitted \cup {[task |-> t, cookie |-> s.pending.cookie, day |-> s.pending.day, outside |-> ~Embedded(t)]}
           /\ LET done == [s EXCEPT !.pending = None, !.done = TRUE]
              IN  Set(t, IF Listens(done) THEN Prompts(done, "Stage") ELSE done)
  <2> DEFINE n == [s EXCEPT !.pending = None, !.done = TRUE]
             m == Prompts(n, "Stage")
             p == task[t].pending
             x == [task |-> t, cookie |-> p.cookie, day |-> p.day, outside |-> ~Embedded(t)]
  <2>1. p \in Completions /\ s.pending = p
    BY <1>1, <1>5 DEF States
  <2>2. p.cookie \in Cookies /\ p.day \in Nat /\ p = [cookie |-> p.cookie, day |-> p.day]
    BY <2>1 DEF Completions
  <2>3. n \in States
    BY DEF States
  <2>4. /\ n.step = s.step /\ n.mode = s.mode /\ n.pending = None /\ n.claim = s.claim /\ n.result = s.result
        /\ n.done /\ n.over = s.over /\ n.seen = s.seen /\ n.notices = s.notices /\ n.commands = s.commands
    BY DEF States
  <2>5. Set(t, m) \/ Set(t, n)
    BY <1>5
  <2> HIDE DEF n
  <2>6. Fits(t, n)
    BY <2>4 DEF Fits, Children
  <2>7. /\ m \in States /\ Fits(t, m) /\ m.step = n.step /\ m.mode = n.mode /\ m.pending = n.pending /\ m.claim = n.claim
        /\ m.result = n.result
    BY <2>3, <2>4, <2>6, StageFits
  <2> HIDE DEF m
  <2>8. PICK new \in {n, m} : Set(t, new)
    BY <2>5
  <2>9. new \in States /\ Fits(t, new) /\ new.step = s.step /\ new.mode = task[t].mode /\ new.pending = None /\ new.claim = None
        /\ new.result = task[t].result
    BY <2>3, <2>4, <2>6, <2>7
  <2>10. ledger' = ledger /\ now' = now /\ ledger' \subseteq Entries
    BY DEF BInv, Flows, Types, ledgerVars
  <2>11. Flows' /\ Windows' /\ task'[t] = new /\ \A u \in Tasks \ {t} : task'[u] = task[u]
    BY <2>8, <2>9, <2>10, OwnKeeps
  <2>12. submitted' = submitted \cup {x}
    BY <1>5, <2>1
  <2>13. submitted' \subseteq Submissions
    <3> DEFINE b == ~Embedded(t)
    <3>1. x = [task |-> t, cookie |-> p.cookie, day |-> p.day, outside |-> b] /\ b \in BOOLEAN
      OBVIOUS
    <3> HIDE DEF b
    <3>2. x \in Submissions
      BY <2>2, <3>1 DEF Submissions
    <3> QED BY <2>12, <3>2 DEF BInv, Ledgers
  <2>14. ASSUME NEW u \in Tasks, NEW j \in Cookies, NEW e \in Nat, Uses(u, j, e)' PROVE Uses(u, j, e)
    <3>1. None # [cookie |-> j, day |-> e]
      BY NoneAssumption DEF Completions
    <3>2. CASE task'[u].mode # "Embedded" /\ task'[u].pending = [cookie |-> j, day |-> e]
      <4>1. u # t
        BY <2>9, <2>11, <3>1, <3>2
      <4> QED BY <2>11, <3>2, <4>1 DEF Uses
    <3>3. CASE [task |-> u, cookie |-> j, day |-> e, outside |-> TRUE] \in submitted
      BY <3>3 DEF Uses
    <3>4. CASE [task |-> u, cookie |-> j, day |-> e, outside |-> TRUE] = x
      <4>1. u = t /\ j = p.cookie /\ e = p.day /\ ~Embedded(t)
        BY <3>4
      <4> QED BY <2>2, <4>1 DEF Uses, Embedded
    <3> QED BY <2>12, <2>14, <3>2, <3>3, <3>4 DEF Uses
  <2>15. \A u \in Tasks : task'[u].claim \in {None, task[u].claim}
    BY <2>9, <2>11
  <2>16. Ledgers'
    BY <2>13, <2>14, <2>15, UsedAlready DEF BInv
  <2>17. p.cookie = c.cookie
    BY <1>1, <1>5, <2>1 DEF Fits, Commands
  <2>18. ConfirmedOnly'
    <3>1. x.task = t /\ x.cookie = c.cookie
      BY <2>17
    <3> HIDE DEF x
    <3>2. \A y \in submitted : [task |-> y.task, cookie |-> y.cookie] \in confirmed
      BY DEF BInv, ConfirmedOnly
    <3>3. [task |-> x.task, cookie |-> x.cookie] \in confirmed'
      BY <1>5, <3>1
    <3> QED BY <1>5, <2>12, <3>2, <3>3 DEF ConfirmedOnly
  <2> QED BY <2>11, <2>16, <2>18 DEF BInv
<1> QED BY <1>2, <1>3, <1>4, <1>5 DEF Confirms

\* The task takes a command.
LEMMA CommandedKeeps == ASSUME BInv, NEW t \in Tasks, Commanded(t) PROVE BInv'
<1> DEFINE c == Head(task[t].commands)
           s == [task[t] EXCEPT !.commands = Tail(@)]
<1>1. /\ task[t] \in States /\ Fits(t, task[t]) /\ task[t].step = "serving" /\ task[t].claim = None /\ task[t].commands # <<>>
      /\ UNCHANGED <<proc, renderers, directory, request, lock, killed, ledgerVars>>
  BY DEF BInv, Flows, Types, Commanded, Waits, Serving, windowVars
<1>2. /\ s \in States /\ Fits(t, s) /\ s.step = task[t].step /\ s.mode = task[t].mode /\ s.pending = task[t].pending
      /\ s.claim = task[t].claim /\ (s.done <=> task[t].done) /\ s.result = task[t].result /\ (s.over <=> task[t].over)
      /\ c \in Commands /\ (c.kind = "confirm" => Shows(task[t], c.cookie))
  BY <1>1, TailFits
<1>3. IF c.kind = "confirm" THEN Confirms(t, s, c)
      ELSE /\ \E new \in Callbacks(t, s, c.cookie) : task' = [task EXCEPT ![t] = new]
           /\ UNCHANGED <<confirmed, submitted>>
  BY DEF Commanded
<1> HIDE DEF c, s
<1>4. CASE c.kind = "confirm"
  BY <1>1, <1>2, <1>3, <1>4, ConfirmsKeeps
<1>5. CASE c.kind # "confirm"
  <2>1. PICK new \in Callbacks(t, s, c.cookie) : Set(t, new)
    BY <1>3, <1>5 DEF Set
  <2>2. UNCHANGED Still
    BY <1>1, <1>3, <1>5 DEF Still, historyVars
  <2>3. PICK k \in Cookies : k = c.cookie
    BY <1>2 DEF Commands
  <2> QED BY <1>1, <1>2, <2>1, <2>2, <2>3, CallbacksKeep
<1> QED BY <1>4, <1>5

----------------------------------------------------------------------------
(* The window of a task                                                    *)

\* Nothing the task or the window has changes, other than what they say.
LEMMA NothingKeeps ==
  ASSUME BInv, UNCHANGED Still, UNCHANGED task
  PROVE  BInv'
<1> USE DEF Still, ledgerVars, historyVars
<1>1. Flows'
  BY DEF BInv, Flows, Types, Locked, Fits
<1>2. Ledgers'
  <2>1. \A u \in Tasks, j \in Cookies, d \in Nat : Uses(u, j, d)' => Uses(u, j, d)
    BY DEF Uses
  <2> QED BY <2>1, UsedAlready DEF BInv, Ledgers
<1>3. Windows'
  BY DEF BInv, Windows, NothingLeft, Embedded
<1>4. ConfirmedOnly'
  BY DEF BInv, ConfirmedOnly
<1> QED BY <1>1, <1>2, <1>3, <1>4 DEF BInv

\* The window is asked to open its page.
LEMMA PeerOpensKeeps == ASSUME BInv, NEW t \in Tasks, PeerOpens(t) PROVE BInv'
<1>1. UNCHANGED Still /\ UNCHANGED task
  BY DEF PeerOpens, Orders, Still
<1> QED BY <1>1, NothingKeeps

\* A page of the window holds a completion, which is shown, or nothing.
LEMMA PageArrivesKeeps ==
  ASSUME BInv, NEW t \in Tasks, task[t].step = "serving", task[t].claim = None, Embedded(t), UNCHANGED Still, PageArrives(t)
  PROVE  BInv'
<1> DEFINE s == task[t]
<1>1. s \in States /\ Fits(t, s) /\ now \in Nat
  BY DEF BInv, Flows, Types
<1>2. CASE Set(t, s)
  BY <1>1, <1>2, OrdinaryKeeps
<1>3. CASE Set(t, Cleans(t, "Failed"))
  BY <1>3, CleansKeeps
<1>4. ASSUME s.pending = None, ~s.done, NEW found \in Cookies,
             Set(t, Prompts([s EXCEPT !.pending = [cookie |-> found, day |-> now]], found))
      PROVE  BInv'
  <2> DEFINE n == Prompts([s EXCEPT !.pending = [cookie |-> found, day |-> now]], found)
  <2>1. n \in States /\ Fits(t, n) /\ n.step = s.step /\ n.mode = s.mode /\ n.claim = None /\ n.result = s.result
    <3>1. PICK d \in Nat : d = now
      BY <1>1
    <3>2. PICK x \in States : x = s
      BY <1>1
    <3>3. Fits(t, x) /\ x.step = "serving" /\ x.pending = None /\ ~x.done /\ x.claim = None
      BY <1>1, <1>4, <3>2
    <3> DEFINE m == Prompts([x EXCEPT !.pending = [cookie |-> found, day |-> d]], found)
    <3>4. /\ m \in States /\ Fits(t, m) /\ m.step = x.step /\ m.mode = x.mode /\ m.pending = [cookie |-> found, day |-> d]
          /\ m.claim = None /\ m.result = x.result
      BY <3>3, WaitsFits
    <3> QED BY <3>1, <3>2, <3>4
  <2> HIDE DEF n
  <2>2. n.mode = "Embedded"
    BY <2>1 DEF Embedded
  <2>3. Set(t, n)
    BY <1>4 DEF n
  <2> QED BY <2>1, <2>2, <2>3, OrdinaryKeeps
<1>5. \/ Set(t, s) \/ Set(t, Cleans(t, "Failed"))
      \/ /\ s.pending = None /\ ~s.done
         /\ \E found \in Cookies : Set(t, Prompts([s EXCEPT !.pending = [cookie |-> found, day |-> now]], found))
  BY DEF PageArrives, Parsed
<1> QED BY <1>2, <1>3, <1>4, <1>5

\* The window's next message.
LEMMA WindowSaysKeeps == ASSUME BInv, NEW t \in Tasks, WindowSays(t) PROVE BInv'
<1>1. /\ task[t] \in States /\ Fits(t, task[t]) /\ task[t].step = "serving" /\ task[t].claim = None /\ Embedded(t)
      /\ UNCHANGED Still
  BY DEF BInv, Flows, Types, WindowSays, Waits, Serving, Still
<1>2. CASE Set(t, Opened(t, task[t]))
  BY <1>1, <1>2, OpenedKeeps
<1>3. CASE PageArrives(t)
  BY <1>1, <1>3, PageArrivesKeeps
<1>4. CASE Set(t, task[t])
  BY <1>1, <1>4, OrdinaryKeeps
<1>5. CASE Set(t, Cleans(t, "Failed"))
  BY <1>1, <1>5, CleansKeeps
<1>6. \/ Set(t, Opened(t, task[t])) \/ PageArrives(t) \/ Set(t, task[t]) \/ Set(t, Cleans(t, "Failed"))
  BY DEF WindowSays
<1> QED BY <1>2, <1>3, <1>4, <1>5, <1>6

\* One window, of one task.
OneTask == \A t, u \in Tasks : Embedded(t) /\ Embedded(u) => t = u

\* The scenario has one request that may be for it.
LEMMA OneWindow == Flows => OneTask
<1> SUFFICES ASSUME Flows, NEW t \in Tasks, NEW u \in Tasks, Embedded(t), Embedded(u) PROVE t = u
  BY DEF OneTask
<1>1. Fits(t, task[t]) /\ Fits(u, task[u]) /\ "Embedded" # None
  BY NoneAssumption DEF Flows
<1>2. request[t] # None /\ Mode(request[t]) = "Embedded" /\ request[u] # None /\ Mode(request[u]) = "Embedded"
  BY <1>1 DEF Fits, Embedded
<1> QED BY <1>2 DEF Flows, Types

\* The same of the next state.
LEMMA OneWindowNext == Flows' => OneTask'
BY OneWindow, PTL

\* A window that is there stays until it has gone; nothing of it comes back.
LEMMA WindowMoves ==
  ASSUME Flows, Windows, UNCHANGED <<task, request>>, proc # "none", proc' # "none", proc # "gone" \/ renderers
  PROVE  Windows'
<1>1. \A u \in Tasks : Embedded(u)' <=> Embedded(u)
  BY DEF Embedded
<1>2. PICK u \in Tasks : Embedded(u) /\ task[u].step \notin {"idle", "binding"}
  BY DEF Windows
<1>3. NothingLeft'
  <2> SUFFICES ASSUME NEW v \in Tasks, Embedded(v)
               PROVE  ~(task[v].step = "ended" /\ task[v].result # "RecoveryRequired") /\ task[v].step # "removing"
    BY <1>1 DEF NothingLeft
  <2> QED BY DEF Windows, NothingLeft
<1> QED BY <1>1, <1>2, <1>3 DEF Windows

\* Steps of the window itself.
LEMMA WindowKeeps == BInv /\ Window => BInv'
<1> SUFFICES ASSUME BInv, Window PROVE BInv'
  OBVIOUS
<1>1. /\ task' = task /\ request' = request /\ lock' = lock /\ killed' = killed /\ ledger' = ledger /\ now' = now
      /\ confirmed' = confirmed /\ submitted' = submitted
  BY DEF Window, taskVars, ledgerVars, historyVars
<1>2. proc # "none" /\ proc' # "none" /\ (proc # "gone" \/ renderers) /\ renderers' \in BOOLEAN
  <2>1. renderers \in BOOLEAN
    BY DEF BInv, Flows, Types
  <2>2. CASE Connects
    BY <2>1, <2>2 DEF Connects
  <2>3. CASE Opens
    BY <2>1, <2>3 DEF Opens, Exits
  <2>4. CASE Attaches
    BY <2>1, <2>4 DEF Attaches
  <2>5. CASE GetsReady
    BY <2>1, <2>5 DEF GetsReady
  <2>6. CASE Says
    BY <2>1, <2>6 DEF Says
  <2>7. CASE Reads
    BY <2>1, <2>7 DEF Reads
  <2>8. CASE Shuts
    BY <2>1, <2>8 DEF Shuts
  <2>9. CASE Leaves
    BY <2>1, <2>9 DEF Leaves
  <2>10. CASE RemovesOwn
    BY <2>1, <2>10 DEF RemovesOwn, Exits
  <2>11. CASE Crashes
    BY <2>1, <2>11 DEF Crashes, Exits, Alive
  <2>12. CASE RenderersExit
    BY <2>1, <2>12 DEF RenderersExit
  <2> QED BY <2>2, <2>3, <2>4, <2>5, <2>6, <2>7, <2>8, <2>9, <2>10, <2>11, <2>12 DEF Window, WindowNext
<1>3. Windows'
  BY <1>1, <1>2, WindowMoves DEF BInv
<1>4. Flows'
  BY <1>1, <1>2 DEF BInv, Flows, Types, Locked, Fits
<1>5. Ledgers'
  <2>1. \A u \in Tasks, j \in Cookies, d \in Nat : Uses(u, j, d)' => Uses(u, j, d)
    BY <1>1 DEF Uses
  <2> QED BY <1>1, <2>1, UsedAlready DEF BInv, Ledgers, ledgerVars
<1> QED BY <1>1, <1>3, <1>4, <1>5 DEF BInv, ConfirmedOnly

\* A killed window goes, with its web engine or without.
LEMMA DiesKeeps == BInv /\ Dies => BInv'
<1> SUFFICES ASSUME BInv, Dies PROVE BInv'
  OBVIOUS
<1>1. /\ task' = task /\ request' = request /\ lock' = lock /\ killed' = killed /\ ledger' = ledger /\ now' = now
      /\ confirmed' = confirmed /\ submitted' = submitted /\ proc' = "gone" /\ renderers' \in {renderers, FALSE}
      /\ killed /\ (proc # "gone" \/ renderers)
  BY DEF Dies, Exits, taskVars, ledgerVars, historyVars
<1>2. proc # "none"
  BY <1>1 DEF BInv, Windows
<1>3. Windows'
  BY <1>1, <1>2, WindowMoves DEF BInv
<1>4. Flows'
  BY <1>1, <1>2 DEF BInv, Flows, Types, Locked, Fits
<1>5. Ledgers'
  <2>1. \A u \in Tasks, j \in Cookies, d \in Nat : Uses(u, j, d)' => Uses(u, j, d)
    BY <1>1 DEF Uses
  <2> QED BY <1>1, <2>1, UsedAlready DEF BInv, Ledgers, ledgerVars
<1> QED BY <1>1, <1>3, <1>4, <1>5 DEF BInv, ConfirmedOnly

----------------------------------------------------------------------------
(* Beginnings and ends                                                     *)

\* A task ends: whatever it held is dropped, and so is the lock if it was its own.
LEMMA Finishes ==
  ASSUME BInv, NEW t \in Tasks, NEW result \in Results, Set(t, Ends(t, result)), UNCHANGED <<request, ledgerVars, historyVars>>,
         renderers' \in BOOLEAN, killed' \in BOOLEAN, lock' = lock \/ (lock = t /\ lock' = None)
  PROVE  /\ Flows' /\ Ledgers' /\ ConfirmedOnly'
         /\ task'[t].step = "ended" /\ task'[t].result = result /\ task'[t].mode = task[t].mode
         /\ \A u \in Tasks \ {t} : task'[u] = task[u]
<1> DEFINE n == Ends(t, result)
<1>1. n \in States /\ Fits(t, n) /\ n.step = "ended" /\ n.result = result /\ n.mode = task[t].mode /\ n.pending = None /\ n.claim = None
  BY EndsFits DEF BInv
<1>2. Set(t, n)
  OBVIOUS
<1> HIDE DEF n
<1>3. ledger' = ledger /\ now' = now /\ submitted' = submitted /\ confirmed' = confirmed
  BY DEF ledgerVars, historyVars
<1>4. now' \in Nat /\ ledger' \subseteq Entries
  BY <1>3 DEF BInv, Flows, Types
<1>5. Flows' /\ task'[t] = n /\ \A u \in Tasks \ {t} : task'[u] = task[u]
  BY <1>1, <1>2, <1>4, Moves DEF BInv
<1>6. Ledgers'
  BY <1>1, <1>3, <1>5, LedgerStays DEF BInv
<1>7. ConfirmedOnly'
  BY <1>3 DEF BInv, ConfirmedOnly
<1> QED BY <1>1, <1>5, <1>6, <1>7

\* bind takes the lock, or the task ends with no mode.
LEMMA BindsKeeps == ASSUME BInv, NEW t \in Tasks, Binds(t) PROVE BInv'
<1>1. /\ task[t] \in States /\ Fits(t, task[t]) /\ task[t].step = "idle" /\ request[t] # None
      /\ renderers \in BOOLEAN /\ killed \in BOOLEAN /\ now \in Nat /\ ledger \subseteq Entries /\ request[t] \in Requests
  BY DEF BInv, Flows, Types, Binds
<1>2. /\ UNCHANGED <<proc, renderers, directory>> /\ request' = request /\ killed' = killed
      /\ UNCHANGED <<ledgerVars, historyVars>> /\ UNCHANGED <<ledgerVars, submitted>> /\ ledger' = ledger /\ now' = now
      /\ confirmed' = confirmed
  BY DEF Binds, windowVars, ledgerVars, historyVars
<1>3. ~Embedded(t)
  BY <1>1, NoneAssumption DEF Fits, Embedded
<1>4. CASE Set(t, Ends(t, "Failed")) /\ UNCHANGED lock
  <2>1. /\ Flows' /\ Ledgers' /\ ConfirmedOnly'
        /\ task'[t].step = "ended" /\ task'[t].result = "Failed" /\ task'[t].mode = task[t].mode
        /\ \A u \in Tasks \ {t} : task'[u] = task[u]
    BY <1>1, <1>2, <1>4, Finishes DEF Results
  <2>2. Windows'
    BY <1>2, <1>3, <2>1, WindowStays DEF BInv
  <2> QED BY <2>1, <2>2 DEF BInv
<1>5. CASE LockFree /\ lock' = t /\ Set(t, [task[t] EXCEPT !.step = "binding", !.mode = Mode(request[t])])
  <2> DEFINE s == task[t]
             n == [s EXCEPT !.step = "binding", !.mode = Mode(request[t])]
  <2>1. Mode(request[t]) \in {"Embedded", "System", "Manual"}
    BY <1>1 DEF Mode, Requests
  <2>2. n \in States
    BY <1>1, <2>1 DEF States, Steps
  <2>3. /\ n.step = "binding" /\ n.mode = Mode(request[t]) /\ n.pending = s.pending /\ n.claim = s.claim /\ n.done = s.done
        /\ n.over = s.over /\ n.seen = s.seen /\ n.notices = s.notices /\ n.commands = s.commands
    BY <1>1 DEF States
  <2>4. Set(t, n)
    BY <1>5
  <2> HIDE DEF n
  <2>5. Fits(t, n)
    BY <1>1, <2>3 DEF Fits, Children
  <2>6. Flows' /\ task'[t] = n /\ \A u \in Tasks \ {t} : task'[u] = task[u]
    BY <1>1, <1>2, <1>5, <2>2, <2>4, <2>5, Moves DEF BInv, LockFree
  <2>7. Ledgers'
    BY <1>1, <1>2, <2>3, <2>6, LedgerStays DEF BInv, Fits
  <2>8. Windows'
    <3>1. \A u \in Tasks \ {t} : Embedded(u)' <=> Embedded(u)
      BY <2>6 DEF Embedded
    <3>2. ASSUME Embedded(t)' PROVE proc = "none"
      <4> SUFFICES ASSUME proc # "none" PROVE FALSE
        OBVIOUS
      <4>1. PICK u \in Tasks : Embedded(u) /\ task[u].step \notin {"idle", "binding"}
        BY DEF BInv, Windows
      <4>2. u # t
        BY <1>1, <4>1
      <4>3. Embedded(u)'
        BY <3>1, <4>1, <4>2
      <4> QED BY <2>6, <3>2, <4>2, <4>3, OneWindowNext DEF OneTask
    <3>3. ASSUME proc' # "none" PROVE \E u \in Tasks : Embedded(u)' /\ task'[u].step \notin {"idle", "binding"}
      <4>1. PICK u \in Tasks : Embedded(u) /\ task[u].step \notin {"idle", "binding"}
        BY <1>2, <3>3 DEF BInv, Windows
      <4>2. u # t
        BY <1>1, <4>1
      <4> QED BY <2>6, <3>1, <4>1, <4>2
    <3>4. ASSUME NEW u \in Tasks, Embedded(u)'
          PROVE  /\ task'[u].step = "binding" => proc' = "none"
                 /\ task'[u].step \notin {"idle", "binding", "ended"} => proc' # "none"
      <4>1. CASE u = t
        BY <1>2, <2>3, <2>6, <3>2, <3>4, <4>1
      <4>2. CASE u # t
        BY <1>2, <2>6, <3>1, <3>4, <4>2 DEF BInv, Windows
      <4> QED BY <4>1, <4>2
    <3>5. NothingLeft'
      <4> SUFFICES ASSUME NEW u \in Tasks, Embedded(u)'
                   PROVE  LET ended == task'[u].step = "ended" /\ task'[u].result # "RecoveryRequired"
                          IN  /\ ended \/ task'[u].step = "removing" => proc' \in {"none", "gone"} /\ ~renderers'
                              /\ ended /\ task'[u].result # "Unreadable" => directory' = "none"
        BY DEF NothingLeft
      <4>1. CASE u = t
        BY <2>3, <2>6, <4>1
      <4>2. CASE u # t
        <5>1. task'[u] = task[u] /\ Embedded(u)
          BY <2>6, <3>1, <4>2
        <5> QED BY <1>2, <5>1 DEF BInv, Windows, NothingLeft
      <4> QED BY <4>1, <4>2
    <3> QED BY <1>2, <3>3, <3>4, <3>5 DEF BInv, Windows
  <2>9. ConfirmedOnly'
    BY <1>2 DEF BInv, ConfirmedOnly, historyVars
  <2> QED BY <2>6, <2>7, <2>8, <2>9 DEF BInv
<1> QED BY <1>4, <1>5 DEF Binds

\* A task that ends asking for recovery, or had no window, leaves Windows alone.
LEMMA FinishKeeps ==
  ASSUME BInv, NEW t \in Tasks, NEW result \in Results, Set(t, Ends(t, result)), UNCHANGED <<request, ledgerVars, historyVars>>,
         lock' = lock \/ (lock = t /\ lock' = None), UNCHANGED <<proc, renderers, directory, killed>>,
         ~Embedded(t) \/ (result = "RecoveryRequired" /\ task[t].step \notin {"idle", "binding", "ended"})
  PROVE  BInv'
<1>1. renderers' \in BOOLEAN /\ killed' \in BOOLEAN
  BY DEF BInv, Flows, Types
<1>2. /\ Flows' /\ Ledgers' /\ ConfirmedOnly'
      /\ task'[t].step = "ended" /\ task'[t].result = result /\ task'[t].mode = task[t].mode
      /\ \A u \in Tasks \ {t} : task'[u] = task[u]
  BY <1>1, Finishes
<1>3. Windows'
  BY <1>2, WindowStays DEF BInv
<1> QED BY <1>2, <1>3 DEF BInv

\* A prepared task serves; its window, if it has one, is started by it.  One that
\* cannot be prepared has no window, or on Windows one that has gone.
LEMMA PreparesKeeps == ASSUME BInv, NEW t \in Tasks, Prepares(t) PROVE BInv'
<1> DEFINE s == task[t]
<1>1. /\ s \in States /\ Fits(t, s) /\ s.step = "binding" /\ lock = t
      /\ renderers \in BOOLEAN /\ killed \in BOOLEAN /\ now \in Nat /\ ledger \subseteq Entries
      /\ s.pending = None /\ s.claim = None /\ s.seen = None /\ ~s.done /\ s.notices = <<>> /\ s.commands = <<>>
  BY DEF BInv, Flows, Types, Prepares, Locked, Fits
<1>2. /\ UNCHANGED <<renderers, directory>> /\ request' = request /\ killed' = killed
      /\ UNCHANGED <<ledgerVars, historyVars>> /\ UNCHANGED <<ledgerVars, submitted>> /\ ledger' = ledger /\ now' = now
      /\ confirmed' = confirmed
  BY DEF Prepares, ledgerVars, historyVars
<1>3. Embedded(t) => proc = "none" /\ ~renderers /\ directory = "none" /\ ~killed
  BY <1>1 DEF BInv, Windows
<1>4. OneTask
  BY OneWindow DEF BInv
<1>5. CASE /\ Set(t, Ends(t, "Failed")) /\ lock' = None
           /\ proc' = proc \/ (Embedded(t) /\ proc' = "gone")
  <2>1. /\ Flows' /\ Ledgers' /\ ConfirmedOnly'
        /\ task'[t].step = "ended" /\ task'[t].result = "Failed" /\ task'[t].mode = task[t].mode
        /\ \A u \in Tasks \ {t} : task'[u] = task[u]
    BY <1>1, <1>2, <1>5, Finishes DEF Results
  <2>2. CASE ~Embedded(t)
    <3>1. UNCHANGED <<proc, renderers, directory>>
      BY <1>2, <1>5, <2>2
    <3>2. Windows'
      BY <1>2, <2>1, <2>2, <3>1, WindowStays DEF BInv
    <3> QED BY <2>1, <3>2 DEF BInv
  <2>3. CASE Embedded(t)
    <3>1. \A u \in Tasks : Embedded(u)' <=> u = t
      BY <1>4, <2>1, <2>3 DEF Embedded, OneTask
    <3>2. proc' \in {"none", "gone"} /\ ~renderers' /\ directory' = "none" /\ ~killed'
      BY <1>2, <1>3, <1>5, <2>3
    <3>3. Windows'
      BY <2>1, <3>1, <3>2 DEF Windows, NothingLeft
    <3> QED BY <2>1, <3>3 DEF BInv
  <2> QED BY <2>2, <2>3
<1>6. CASE /\ UNCHANGED lock /\ proc' = IF Embedded(t) THEN "starting" ELSE proc
           /\ LET p == Prompts([s EXCEPT !.step = "serving", !.launch = s.mode = "System"], "Stage")
              IN  Set(t, IF s.mode = "Manual" THEN Prompts([p EXCEPT !.opened = TRUE], "Stage") ELSE p)
  <2> DEFINE b == s.mode = "System"
             a == [s EXCEPT !.step = "serving", !.launch = b]
             p == Prompts(a, "Stage")
             o == [p EXCEPT !.opened = TRUE]
             q == Prompts(o, "Stage")
  <2>1. PICK new \in {p, q} : Set(t, new)
    BY <1>6
  <2>2. b \in BOOLEAN
    OBVIOUS
  <2> HIDE DEF b
  <2>3. a \in States
    BY <1>1, <2>2 DEF States, Steps
  <2>4. /\ a.step = "serving" /\ a.mode = s.mode /\ a.pending = s.pending /\ a.claim = s.claim /\ a.done = s.done
        /\ a.over = s.over /\ a.seen = s.seen /\ a.notices = s.notices /\ a.commands = s.commands
    BY <1>1 DEF States
  <2> HIDE DEF a
  <2>5. \A c \in Cookies : ~Shows(a, c)
    BY <1>1, <2>4, NoneAssumption DEF Shows
  <2>6. Fits(t, a)
    BY <1>1, <2>4, <2>5 DEF Fits, Children
  <2>7. /\ p \in States /\ Fits(t, p) /\ p.step = a.step /\ p.mode = a.mode /\ p.pending = a.pending /\ p.claim = a.claim
        /\ p.done = a.done /\ p.over = a.over
    BY <2>3, <2>4, <2>6, StageFits
  <2> HIDE DEF p
  <2>8. o \in States
    BY <2>7 DEF States
  <2>9. /\ o.step = p.step /\ o.mode = p.mode /\ o.pending = p.pending /\ o.claim = p.claim /\ o.done = p.done
        /\ o.over = p.over /\ o.seen = p.seen /\ o.notices = p.notices /\ o.commands = p.commands
    BY <2>7 DEF States
  <2> HIDE DEF o
  <2>10. Fits(t, o)
    BY <2>4, <2>7, <2>9 DEF Fits, Shows, Children
  <2>11. q \in States /\ Fits(t, q) /\ q.step = o.step /\ q.mode = o.mode /\ q.pending = o.pending /\ q.claim = o.claim
    BY <2>4, <2>7, <2>8, <2>9, <2>10, StageFits
  <2> HIDE DEF q
  <2>12. new \in States /\ Fits(t, new) /\ new.step = "serving" /\ new.mode = s.mode /\ new.pending = None /\ new.claim = None
    BY <1>1, <2>1, <2>4, <2>7, <2>9, <2>11
  <2>13. Flows' /\ task'[t] = new /\ \A u \in Tasks \ {t} : task'[u] = task[u]
    BY <1>1, <1>2, <1>6, <2>1, <2>12, Moves DEF BInv
  <2>14. Ledgers'
    BY <1>1, <1>2, <2>12, <2>13, LedgerStays DEF BInv
  <2>15. Windows'
    <3>1. CASE ~Embedded(t)
      <4>1. UNCHANGED <<proc, renderers, directory>>
        BY <1>2, <1>6, <3>1
      <4> QED BY <1>2, <2>12, <2>13, <3>1, <4>1, WindowStays DEF BInv
    <3>2. CASE Embedded(t)
      <4>1. \A u \in Tasks : Embedded(u)' <=> u = t
        BY <1>4, <2>12, <2>13, <3>2 DEF Embedded, OneTask
      <4> QED BY <1>6, <2>12, <2>13, <3>2, <4>1 DEF Windows, NothingLeft
    <3> QED BY <3>1, <3>2
  <2>16. ConfirmedOnly'
    BY <1>2 DEF BInv, ConfirmedOnly, historyVars
  <2> QED BY <2>13, <2>14, <2>15, <2>16 DEF BInv
<1> QED BY <1>5, <1>6 DEF Prepares

\* Only the position of a task with a window changes.
LEMMA StepKeeps ==
  ASSUME BInv, NEW t \in Tasks, Embedded(t), task[t].step \in Children \cup {"closing"},
         NEW step \in Children, Step(t, step), UNCHANGED <<proc, renderers, directory, request, lock, ledgerVars, historyVars>>,
         killed' \in BOOLEAN, killed' = killed \/ task[t].step \in Children,
         step = "removing" => proc = "gone" /\ ~renderers
  PROVE  BInv'
<1> DEFINE s == task[t]
           n == [s EXCEPT !.step = step]
<1>1. /\ s \in States /\ Fits(t, s) /\ renderers \in BOOLEAN /\ now \in Nat /\ ledger \subseteq Entries
  BY DEF BInv, Flows, Types
<1>2. /\ ledger' = ledger /\ now' = now /\ submitted' = submitted /\ confirmed' = confirmed
      /\ UNCHANGED <<proc, renderers, directory>> /\ request' = request /\ UNCHANGED <<ledgerVars, submitted>>
  BY DEF ledgerVars, historyVars
<1>3. n \in States
  BY <1>1 DEF States, Steps, Children
<1>4. /\ n.step = step /\ n.mode = s.mode /\ n.pending = s.pending /\ n.claim = s.claim /\ n.done = s.done
      /\ n.over = s.over /\ n.seen = s.seen /\ n.notices = s.notices /\ n.commands = s.commands
  BY <1>1 DEF States
<1>5. Set(t, n)
  BY DEF Step
<1> HIDE DEF n
<1>6. s.step # "serving" /\ step # "serving" /\ s.step \notin {"idle", "binding", "ended"} /\ step \notin {"idle", "binding", "ended"}
  BY DEF Children
<1>7. Fits(t, n)
  BY <1>1, <1>4, <1>6 DEF Fits, Embedded
<1>8. lock' = t
  BY <1>6 DEF BInv, Flows, Locked
<1>9. Flows' /\ task'[t] = n /\ \A u \in Tasks \ {t} : task'[u] = task[u]
  BY <1>1, <1>2, <1>3, <1>5, <1>7, <1>8, Moves DEF BInv
<1>10. Ledgers'
  BY <1>2, <1>4, <1>9, LedgerStays DEF BInv
<1>11. Windows'
  <2>1. CASE step # "removing"
    BY <1>2, <1>4, <1>6, <1>9, <2>1, WindowStays DEF BInv
  <2>2. CASE step = "removing"
    <3>1. \A u \in Tasks : Embedded(u)' <=> Embedded(u)
      BY <1>4, <1>9 DEF Embedded
    <3>2. \A u \in Tasks : Embedded(u)' <=> u = t
      BY <3>1, OneWindow DEF BInv, OneTask
    <3> QED BY <1>2, <1>4, <1>9, <2>2, <3>2 DEF Windows, NothingLeft
  <2> QED BY <2>1, <2>2
<1>12. ConfirmedOnly'
  BY <1>2 DEF BInv, ConfirmedOnly
<1> QED BY <1>9, <1>10, <1>11, <1>12 DEF BInv

\* A task without a window is done; one with a window waits for it.
LEMMA ClosesKeeps == ASSUME BInv, NEW t \in Tasks, Closes(t) PROVE BInv'
<1>1. task[t] \in States /\ task[t].step = "closing" /\ renderers \in BOOLEAN /\ killed \in BOOLEAN
  BY DEF BInv, Flows, Types, Closes
<1>2. UNCHANGED <<request, killed, ledgerVars, historyVars>>
  BY DEF Closes
<1>3. CASE ~Embedded(t)
  <2>1. PICK result \in Results : result = task[t].result
    BY <1>1 DEF States, Results
  <2>2. Set(t, Ends(t, result)) /\ (lock' = IF lock = t THEN None ELSE lock) /\ UNCHANGED <<proc, renderers, directory>>
    BY <1>3, <2>1 DEF Closes, Finish, windowVars
  <2> QED BY <1>2, <1>3, <2>2, FinishKeeps
<1>4. CASE Embedded(t)
  <2>1. Step(t, "waiting") /\ UNCHANGED lock /\ UNCHANGED <<proc, renderers, directory>>
    BY <1>4 DEF Closes, Orders, windowVars
  <2> QED BY <1>1, <1>2, <1>4, <2>1, StepKeeps DEF Children
<1> QED BY <1>3, <1>4

\* The window is waited for, killed, and waited for again.
LEMMA AwaitsChildKeeps == ASSUME BInv, NEW t \in Tasks, AwaitsChild(t) PROVE BInv'
<1>1. task[t].step \in Children /\ task[t].step \in {"waiting", "killing"} /\ killed \in BOOLEAN
  BY DEF BInv, Flows, Types, AwaitsChild, Children
<1>2. Embedded(t)
  BY <1>1 DEF BInv, Flows, Fits, Embedded
<1>3. UNCHANGED <<proc, renderers, directory>> /\ UNCHANGED <<request, ledgerVars, historyVars>>
  BY DEF AwaitsChild, windowVars
<1>4. CASE Finish(t, "RecoveryRequired") /\ UNCHANGED killed
  <2>1. Set(t, Ends(t, "RecoveryRequired")) /\ (lock' = IF lock = t THEN None ELSE lock)
    BY <1>4 DEF Finish
  <2> QED BY <1>1, <1>3, <1>4, <2>1, FinishKeeps DEF Results
<1>5. ASSUME NEW step \in {"draining", "killing"}, Step(t, step), UNCHANGED lock, killed' \in BOOLEAN PROVE BInv'
  BY <1>1, <1>2, <1>3, <1>5, StepKeeps DEF Children
<1>6. \/ Finish(t, "RecoveryRequired") /\ UNCHANGED killed
      \/ Step(t, "draining") /\ UNCHANGED lock /\ killed' \in BOOLEAN
      \/ Step(t, "killing") /\ UNCHANGED lock /\ killed' \in BOOLEAN
  BY <1>1 DEF AwaitsChild
<1> QED BY <1>4, <1>5, <1>6

\* The profile is removed only when no process of the window is left.
LEMMA AwaitsTreeKeeps == ASSUME BInv, NEW t \in Tasks, AwaitsTree(t) PROVE BInv'
<1>1. task[t].step = "draining" /\ task[t].step \in Children /\ killed \in BOOLEAN
  BY DEF BInv, Flows, Types, AwaitsTree, Children
<1>2. Embedded(t)
  BY <1>1 DEF BInv, Flows, Fits, Embedded
<1>3. UNCHANGED <<proc, renderers, directory, killed>> /\ UNCHANGED <<request, ledgerVars, historyVars>> /\ killed' = killed
  BY DEF AwaitsTree, windowVars
<1>4. CASE Finish(t, "RecoveryRequired")
  <2>1. Set(t, Ends(t, "RecoveryRequired")) /\ (lock' = IF lock = t THEN None ELSE lock)
    BY <1>4 DEF Finish
  <2> QED BY <1>1, <1>3, <2>1, FinishKeeps DEF Results
<1>5. CASE TreeGone /\ Step(t, "removing") /\ UNCHANGED lock
  <2>1. "removing" \in Children /\ task[t].step \in Children \cup {"closing"}
    BY <1>1 DEF Children
  <2> QED BY <1>1, <1>2, <1>3, <1>5, <2>1, StepKeeps DEF TreeGone
<1> QED BY <1>4, <1>5 DEF AwaitsTree

\* It is gone, or the task says that it is not, or could not be looked at.
LEMMA RemovesProfileKeeps == ASSUME BInv, NEW t \in Tasks, RemovesProfile(t) PROVE BInv'
<1>1. task[t] \in States /\ task[t].step = "removing" /\ task[t].step \in Children /\ renderers \in BOOLEAN /\ killed \in BOOLEAN
  BY DEF BInv, Flows, Types, RemovesProfile, Children
<1>2. Embedded(t)
  BY <1>1 DEF BInv, Flows, Fits, Embedded
<1>3. proc' = proc /\ renderers' = renderers /\ killed' = killed /\ UNCHANGED <<request, ledgerVars, historyVars>>
  BY DEF RemovesProfile
<1>4. PICK result \in Results : Finish(t, result) /\ (directory' = "none" \/ result \in {"RecoveryRequired", "Unreadable"})
  BY <1>1 DEF RemovesProfile, Results, States
<1>5. Set(t, Ends(t, result)) /\ (lock' = IF lock = t THEN None ELSE lock)
  BY <1>4 DEF Finish
<1>6. /\ Flows' /\ Ledgers' /\ ConfirmedOnly'
      /\ task'[t].step = "ended" /\ task'[t].result = result /\ task'[t].mode = task[t].mode
      /\ \A u \in Tasks \ {t} : task'[u] = task[u]
  BY <1>1, <1>3, <1>5, Finishes
<1>7. \A u \in Tasks : Embedded(u)' <=> u = t
  BY <1>2, <1>6, OneWindow DEF BInv, OneTask, Embedded
<1>8. proc \in {"none", "gone"} /\ ~renderers /\ proc # "none"
  BY <1>1, <1>2 DEF BInv, Windows, NothingLeft
<1>9. Windows'
  BY <1>3, <1>4, <1>6, <1>7, <1>8 DEF Windows, NothingLeft
<1> QED BY <1>6, <1>9 DEF BInv

----------------------------------------------------------------------------
(* The invariant, and what it says                                         *)

\* What was used on an earlier day needs no entry any more.
LEMMA DayPassesKeeps == BInv /\ DayPasses => BInv'
<1> SUFFICES ASSUME BInv, DayPasses PROVE BInv'
  OBVIOUS
<1>1. /\ task' = task /\ request' = request /\ lock' = lock /\ killed' = killed /\ ledger' = ledger /\ now' = now + 1
      /\ confirmed' = confirmed /\ submitted' = submitted /\ UNCHANGED <<proc, renderers, directory>> /\ now \in Nat
  BY DEF BInv, Flows, Types, DayPasses, windowVars, taskVars, historyVars
<1>2. Flows'
  BY <1>1 DEF BInv, Flows, Types, Locked, Fits
<1>3. ASSUME NEW u \in Tasks, NEW j \in Cookies, NEW d \in Nat, Uses(u, j, d)'
      PROVE  /\ d <= now' /\ (d = now' => [cookie |-> j, expires |-> d + 1] \in ledger')
             /\ \A v \in Tasks : Uses(v, j, d)' => v = u
  <2>1. \A v \in Tasks : Uses(v, j, d)' <=> Uses(v, j, d)
    BY <1>1 DEF Uses
  <2>2. d <= now /\ \A v \in Tasks : Uses(v, j, d) => v = u
    BY <1>3, <2>1 DEF BInv, Ledgers
  <2> QED BY <1>1, <2>1, <2>2
<1>4. ASSUME NEW u \in Tasks, task'[u].claim # None
      PROVE  /\ task'[u].claim.day <= now' /\ {r \in ledger' : r.expires > task'[u].claim.day} \subseteq task'[u].claim.records
             /\ \A v \in Tasks : ~(Uses(v, task[u].claim.cookie, task[u].claim.day))'
  <2>1. task[u].claim.day \in Nat
    BY <1>1, <1>4 DEF BInv, Flows, Types, States, Claims
  <2>2. /\ task[u].claim.day <= now /\ {r \in ledger : r.expires > task[u].claim.day} \subseteq task[u].claim.records
        /\ \A v \in Tasks : ~Uses(v, task[u].claim.cookie, task[u].claim.day)
    BY <1>1, <1>4 DEF BInv, Ledgers
  <2> QED BY <1>1, <2>1, <2>2 DEF Uses
<1>5. Ledgers'
  BY <1>1, <1>3, <1>4 DEF BInv, Ledgers
<1>6. Windows'
  BY <1>1 DEF BInv, Windows, NothingLeft, Embedded
<1> QED BY <1>1, <1>2, <1>5, <1>6 DEF BInv, ConfirmedOnly

\* The invariant holds before any task has begun.
LEMMA BInvInit == Init => BInv
<1> SUFFICES ASSUME Init PROVE BInv
  OBVIOUS
<1>1. /\ request \in Scenarios[platform] /\ platform \in Platforms /\ proc = "none" /\ renderers = FALSE /\ directory = "none"
      /\ lock = None /\ task = [t \in Tasks |-> NewTask] /\ killed = FALSE
      /\ ledger = {} /\ now = 0 /\ confirmed = {} /\ submitted = {}
  BY DEF Init, WindowInit
<1>2. NewTask \in States
  BY DEF NewTask, States, Steps
<1>3. /\ NewTask.step = "idle" /\ NewTask.mode = None /\ NewTask.pending = None /\ ~NewTask.done /\ NewTask.notices = <<>>
      /\ NewTask.seen = None /\ NewTask.commands = <<>> /\ NewTask.claim = None
  BY DEF NewTask
<1>4. Types
  BY <1>1, <1>2, ScenarioAssumption DEF Types
<1>5. \A t \in Tasks : Fits(t, task[t])
  BY <1>1, <1>3 DEF Fits, Children
<1>6. Locked
  BY <1>1, <1>3 DEF Locked
<1>7. Ledgers
  <2>1. ASSUME NEW t \in Tasks, NEW j \in Cookies, NEW d \in Nat PROVE ~Uses(t, j, d)
    <3>1. [cookie |-> j, day |-> d] # None
      BY NoneAssumption DEF Completions
    <3> QED BY <1>1, <1>3, <3>1 DEF Uses
  <2> QED BY <1>1, <1>3, <2>1 DEF Ledgers
<1>8. Windows
  BY <1>1, <1>3, NoneAssumption DEF Windows, NothingLeft, Embedded
<1> QED BY <1>1, <1>4, <1>5, <1>6, <1>7, <1>8 DEF BInv, Flows, ConfirmedOnly

\* Every step keeps the invariant: one lemma for each action.
LEMMA BInvNext == BInv /\ [Next]_vars => BInv'
<1> SUFFICES ASSUME BInv, [Next]_vars PROVE BInv'
  OBVIOUS
<1>1. CASE UNCHANGED vars
  <2>1. UNCHANGED Still /\ UNCHANGED task
    BY <1>1 DEF vars, Still, windowVars, taskVars
  <2> QED BY <2>1, NothingKeeps
<1>2. ASSUME NEW t \in Tasks, Own(t) PROVE BInv'
  BY <1>2, BindsKeeps, PreparesKeeps, LoopEnds, ClaimWritesKeeps, ClosesKeeps, AwaitsChildKeeps, AwaitsTreeKeeps,
     RemovesProfileKeeps DEF Own
<1>3. ASSUME NEW t \in Tasks, Events(t) PROVE BInv'
  BY <1>3, LaunchedKeeps, CommandedKeeps, PeerCallsKeeps, PeerOpensKeeps, WindowSaysKeeps DEF Events
<1>4. ASSUME NEW t \in Tasks, User(t) PROVE BInv'
  BY <1>4, UserCommandsKeeps, UserReadsKeeps, FlagsKeep DEF User
<1> QED BY <1>1, <1>2, <1>3, <1>4, WindowKeeps, DiesKeeps, DayPassesKeeps DEF Next

\* BInv holds in every state, for any tasks, completions and limits, and any
\* window that keeps its contract (browser.rs, browser_transport.rs).
THEOREM BrowserInvariant == Spec => []BInv
BY BInvInit, BInvNext, PTL DEF Spec

\* What the library is given is a completion whose account the user has seen and
\* confirmed in this transaction (browser.rs callback, confirm, page).
THEOREM BrowserConfirmedOnly == Spec => []ConfirmedOnly
<1>1. BInv => ConfirmedOnly
  BY DEF BInv
<1> QED BY <1>1, BrowserInvariant, PTL

\* A completion from outside is submitted once in the life of its ledger entry,
\* by whichever of the user's processes (browser.rs claim_completion_at).
THEOREM BrowserSubmittedOnce == Spec => []SubmittedOnce
<1>1. BInv => SubmittedOnce
  <2> SUFFICES ASSUME BInv, NEW x \in submitted, NEW y \in submitted,
                      x.outside, y.outside, x.cookie = y.cookie, x.day = y.day
               PROVE  x.task = y.task
    BY DEF SubmittedOnce
  <2>1. x \in Submissions /\ y \in Submissions
    BY DEF BInv, Ledgers
  <2>2. /\ x.task \in Tasks /\ y.task \in Tasks /\ x.cookie \in Cookies /\ x.day \in Nat
        /\ x = [task |-> x.task, cookie |-> x.cookie, day |-> x.day, outside |-> TRUE]
        /\ y = [task |-> y.task, cookie |-> x.cookie, day |-> x.day, outside |-> TRUE]
    BY <2>1 DEF Submissions
  <2>3. Uses(x.task, x.cookie, x.day) /\ Uses(y.task, x.cookie, x.day)
    BY <2>2 DEF Uses
  <2> QED BY <2>2, <2>3 DEF BInv, Ledgers
<1> QED BY <1>1, BrowserInvariant, PTL

\* A task that ends without asking for recovery leaves no process of its window,
\* and its private profile only if the directory could not be looked at; the
\* profile is never removed under a process that uses it (browser.rs run).
THEOREM BrowserNothingLeft == Spec => []NothingLeft
<1>1. BInv => NothingLeft
  BY DEF BInv, Windows
<1> QED BY <1>1, BrowserInvariant, PTL
============================================================================
