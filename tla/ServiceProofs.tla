---------------------------- MODULE ServiceProofs -----------------------------
(***************************************************************************)
(* Proofs about the service beside its sessions: the lock files of its     *)
(* processes, module Lifetime (below), and its event streams, module       *)
(* EventStream (in the second part).                                       *)
(*                                                                         *)
(* The lock files of lifetime.rs exclude each other's generations, proved  *)
(* for any number of starts of the service and of the uninstaller.         *)
(*                                                                         *)
(* The argument: whoever may change the network shares the lock of its     *)
(* generation (LocksFollow), all who share that lock descend from one      *)
(* instance (OneFamily), and the two inner locks separate a restoration    *)
(* from the tunnel before it and from the restorations before it.          *)
(***************************************************************************)
EXTENDS Lifetime, StreamPromise, SequenceTheorems, TLAPS

LocksFollow ==
    /\ \A i \in Instances : Serving(i) => Main(i) \in mutator
    /\ \A p \in live :
        /\ p \in mutator
        /\ p[1] \in {"worker", "helper"} => p \in lease
        /\ p[1] = "tool" => p \in recovery

OneFamily == \A p, q \in mutator : p[2] = q[2]

\* Roles do not mix: the lease is of the tunnel, the recovery lock is not.
Separate ==
    /\ \A p \in lease : p[1] \in {"worker", "helper"}
    /\ \A p \in recovery : p[1] \in {"main", "tool"}
    /\ \A i \in Instances : Main(i) \in recovery <=> rec[i] = "running"

\* The phases in which no tunnel of the service, or of one before it, is left.
Drained(i) ==
    \/ phase[i] \in {"startup", "open", "settling", "quiescing"}
    \/ phase[i] = "closed" /\ ~uncertain[i]

Settled ==
    \A i \in Instances :
        /\ rec[i] # "none" => phase[i] \in {"startup", "settling", "quiescing"}
        /\ Drained(i) => lease = {}
        /\ phase[i] = "open" => ~journal /\ live = {}

LInv == TypeOK /\ LocksFollow /\ OneFamily /\ Separate /\ Settled

\* What is alive or serving shares the lock, so it is of the instance that does.
LEMMA Family ==
    ASSUME LInv, NEW i \in Instances, Serving(i), NEW p \in mutator \cup live
    PROVE  p[2] = i
<1>1. Main(i) \in mutator /\ Main(i)[2] = i BY DEF LInv, LocksFollow, Main
<1>2. p \in mutator BY DEF LInv, LocksFollow
<1> QED BY <1>1, <1>2 DEF LInv, OneFamily

\* The invariant holds with no instance started.
LEMMA InitInv == Init => LInv
BY DEF Init, LInv, TypeOK, LocksFollow, OneFamily, Separate, Settled, Drained, Serving, Main, Alive,
       Phases, Procs

\* An instance starts.
LEMMA LaunchInv == ASSUME LInv, NEW i \in Instances, Launch(i) PROVE LInv'
BY DEF Launch, locks, LInv, TypeOK, LocksFollow, OneFamily, Separate, Settled, Drained, Serving, Main,
       Alive, Phases, Procs

\* The mutator lock is taken, or found held.
LEMMA AcquireInv == ASSUME LInv, NEW i \in Instances, AcquireMutator(i) PROVE LInv'
BY DEF AcquireMutator, locks, LInv, TypeOK, LocksFollow, OneFamily, Separate, Settled, Drained, Serving, Main,
       Alive, Phases, Procs

\* The recovery lock is taken, or found held.
LEMMA LockRecoveryInv == ASSUME LInv, NEW i \in Instances, LockRecovery(i) PROVE LInv'
BY DEF LockRecovery, Return, After, locks, LInv, TypeOK, LocksFollow, OneFamily, Separate, Settled, Drained, Serving,
       Main, Alive, Phases, Procs

\* A recovering instance runs a program that inherits the recovery lock.
LEMMA RunToolInv == ASSUME LInv, NEW i \in Instances, RunTool(i) PROVE LInv'
<1> DEFINE t == <<"tool", i>>
<1>1. Serving(i) BY DEF RunTool, LInv, Settled, Serving
<1>2. Main(i) \in mutator /\ Main(i) \in recovery
    BY <1>1 DEF RunTool, LInv, LocksFollow, Separate
<1>3. /\ mutator' = mutator \cup {t} /\ recovery' = recovery \cup {t} /\ live' = live \cup {t}
      /\ UNCHANGED <<phase, rec, uncertain, lease, journal>>
    BY <1>2 DEF RunTool, Inherited
<1>4. t \in Procs /\ t[1] = "tool" /\ t[2] = i /\ \A j \in Instances : t # Main(j)
    BY DEF Procs, Roles, Main
<1> HIDE DEF t
<1>5. TypeOK' BY <1>3, <1>4 DEF LInv, TypeOK, Alive, Serving, Main
<1>6. LocksFollow' BY <1>3, <1>4 DEF LInv, LocksFollow, Serving, Main
<1>7. OneFamily' BY <1>1, <1>3, <1>4, Family DEF LInv, OneFamily
<1>8. Separate' BY <1>3, <1>4 DEF LInv, Separate, Main
<1>9. Settled'
    <2>1. \A j \in Instances : phase[j] # "open"
        BY <1>1, Family DEF RunTool, LInv, LocksFollow, Settled, Serving, Main
    <2> QED BY <2>1, <1>3 DEF LInv, Settled, Drained
<1> QED BY <1>5, <1>6, <1>7, <1>8, <1>9 DEF LInv

\* The journals are restored.
LEMMA RestoredInv == ASSUME LInv, NEW i \in Instances, Restored(i) PROVE LInv'
<1>1. PICK clean \in BOOLEAN :
        journal' \in (IF clean THEN {FALSE} ELSE {journal, FALSE}) /\ Return(i, clean /\ ToolsGone(i))
    BY DEF Restored
<1>2. PICK next \in After(i, clean /\ ToolsGone(i)) : phase' = [phase EXCEPT ![i] = next]
    BY <1>1 DEF Return
<1>3. Serving(i) /\ phase[i] \in {"startup", "settling", "quiescing"}
    BY DEF Restored, LInv, Settled, Serving
<1>4. /\ rec' = [rec EXCEPT ![i] = "none"] /\ recovery' = recovery \ {Main(i)}
      /\ mutator' = IF i \in Installers THEN mutator \ {Main(i)} ELSE mutator
      /\ UNCHANGED <<uncertain, live, lease>>
    BY <1>1 DEF Restored, Return
<1>5. next \in {"gone", "open", "closed"} /\ (next = "gone" <=> i \in Installers)
    BY DEF After
<1>6. lease = {} BY <1>3 DEF LInv, Settled, Drained
<1>7. ASSUME next = "open" PROVE ~journal' /\ live = {}
    <2>1. clean /\ ToolsGone(i) BY <1>7, <1>2 DEF After
    <2>2. \A p \in live : p[1] = "tool" /\ p # Main(i) /\ p \in recovery
        BY <1>6 DEF LInv, LocksFollow, TypeOK, Procs, Roles, Main
    <2> QED BY <2>1, <2>2, <1>1 DEF ToolsGone
<1>8. TypeOK'
    <2>1. phase' \in [Instances -> Phases] BY <1>2, <1>5 DEF LInv, TypeOK, Phases
    <2>2. rec' \in [Instances -> {"none", "locking", "running"}] BY <1>4 DEF LInv, TypeOK
    <2>3. journal' \in BOOLEAN BY <1>1 DEF LInv, TypeOK
    <2>4. \A p \in Alive : p \in Alive' \/ (p = Main(i) /\ i \in Installers)
        BY <1>2, <1>4, <1>5 DEF Alive, Serving, LInv, TypeOK
    <2>5. mutator' \subseteq Alive' /\ recovery' \subseteq Alive' /\ lease' \subseteq Alive'
        BY <2>4, <1>4, <1>6 DEF LInv, TypeOK
    <2> QED BY <2>1, <2>2, <2>3, <2>5, <1>4 DEF LInv, TypeOK
<1>9. LocksFollow'
    <2>1. \A p \in live : p # Main(i) BY DEF LInv, TypeOK, Main
    <2>2. \A j \in Instances : Serving(j)' => Serving(j) /\ (j = i => i \notin Installers)
        BY <1>2, <1>3, <1>5 DEF Serving, LInv, TypeOK
    <2>3. \A j \in Instances : j # i => Main(j) # Main(i) BY DEF Main
    <2> QED BY <2>1, <2>2, <2>3, <1>4 DEF LInv, LocksFollow, Main
<1>10. OneFamily' BY <1>4 DEF LInv, OneFamily
<1>11. Separate' BY <1>4 DEF LInv, Separate, Main, TypeOK
<1>12. Settled' BY <1>2, <1>4, <1>5, <1>6, <1>7, <1>3, Family DEF LInv, Settled, Drained, TypeOK, LocksFollow, Serving, Main
<1> QED BY <1>8, <1>9, <1>10, <1>11, <1>12 DEF LInv

\* A service that serves starts a worker, which inherits the tunnel lock.
LEMMA StartTunnelInv == ASSUME LInv, NEW i \in Instances, i \notin Installers, StartTunnel(i) PROVE LInv'
<1> DEFINE w == <<"worker", i>>
<1>1. Serving(i) /\ live = {} /\ rec[i] = "none" BY DEF StartTunnel, LInv, Settled, Serving
<1>2. Main(i) \in mutator /\ Main(i) \notin recovery
    BY <1>1 DEF LInv, LocksFollow, Separate
<1>3. /\ mutator' = mutator \cup {w} /\ lease' = {w} /\ live' = {w}
      /\ phase' = [phase EXCEPT ![i] = "tunnel"]
      /\ UNCHANGED <<rec, uncertain, recovery, journal>>
    BY <1>1, <1>2 DEF StartTunnel, Inherited
<1>4. w \in Procs /\ w[1] = "worker" /\ w[2] = i /\ \A j \in Instances : w # Main(j)
    BY DEF Procs, Roles, Main
<1>5. \A j \in Instances : Serving(j) => j = i
    BY <1>1, Family DEF LInv, LocksFollow, Main
<1> HIDE DEF w
<1>6. TypeOK' BY <1>1, <1>3, <1>4 DEF LInv, TypeOK, Alive, Serving, Main, Phases
<1>7. LocksFollow' BY <1>2, <1>3, <1>4, <1>5 DEF LInv, TypeOK, LocksFollow, Serving
<1>8. OneFamily' BY <1>1, <1>3, <1>4, Family DEF LInv, OneFamily
<1>9. Separate' BY <1>3, <1>4 DEF LInv, Separate
<1>10. Settled' BY <1>1, <1>3, <1>5 DEF LInv, TypeOK, Settled, Drained, Serving
<1> QED BY <1>6, <1>7, <1>8, <1>9, <1>10 DEF LInv

\* A start that is refused changes no lock.
LEMMA StartRefusedInv == ASSUME LInv, NEW i \in Instances, i \notin Installers, StartRefused(i) PROVE LInv'
BY Family DEF StartRefused, locks, LInv, TypeOK, LocksFollow, OneFamily, Separate, Settled, Drained, Serving,
       Main, Alive, Phases, Procs

\* A worker runs a helper, which inherits its locks.
LEMMA RunHelperInv == ASSUME LInv, NEW i \in Instances, NEW p \in {<<"worker", i>>, <<"helper", i>>}, RunHelper(i, p) PROVE LInv'
<1> DEFINE h == <<"helper", i>>
<1>1. p \in mutator /\ p \in lease /\ p \notin recovery /\ p[2] = i
    BY DEF RunHelper, LInv, LocksFollow, Separate
<1>2. /\ mutator' = mutator \cup {h} /\ lease' = lease \cup {h} /\ live' = live \cup {h}
      /\ UNCHANGED <<phase, rec, uncertain, recovery, journal>>
    BY <1>1 DEF RunHelper, Inherited
<1>3. h \in Procs /\ h[1] = "helper" /\ h[2] = i /\ \A j \in Instances : h # Main(j)
    BY DEF Procs, Roles, Main
<1> HIDE DEF h
<1>4. TypeOK' BY <1>2, <1>3 DEF LInv, TypeOK, Alive, Serving, Main
<1>5. LocksFollow' BY <1>2, <1>3 DEF LInv, LocksFollow, Serving, Main
<1>6. OneFamily' BY <1>1, <1>2, <1>3 DEF LInv, OneFamily
<1>7. Separate' BY <1>2, <1>3 DEF LInv, Separate, Main
<1>8. Settled' BY <1>1, <1>2 DEF RunHelper, LInv, Settled, Drained
<1> QED BY <1>4, <1>5, <1>6, <1>7, <1>8 DEF LInv

\* A helper leaves a journal.
LEMMA HelperConfiguresInv == ASSUME LInv, NEW i \in Instances, HelperConfigures(i) PROVE LInv'
BY Family DEF HelperConfigures, locks, LInv, TypeOK, LocksFollow, OneFamily, Separate, Settled, Drained, Serving,
       Main, Alive, Phases, Procs

\* A tunnel ends with its processes gone.
LEMMA TunnelEndsInv == ASSUME LInv, NEW i \in Instances, i \notin Installers, TunnelEnds(i) PROVE LInv'
<1>1. Serving(i) /\ phase[i] = "tunnel" BY DEF TunnelEnds, Serving
<1>3. PICK next \in {"settling", "closed"} :
        /\ phase' = [phase EXCEPT ![i] = next]
        /\ next = "settling" => lease = {} /\ rec' = [rec EXCEPT ![i] = "locking"] /\ uncertain' = uncertain
        /\ next = "closed" => uncertain' = [uncertain EXCEPT ![i] = TRUE] /\ rec' = rec
    BY DEF TunnelEnds, TreeGone
<1>4. UNCHANGED <<live, mutator, recovery, lease, journal>> BY DEF TunnelEnds, locks
<1>5. rec[i] = "none" BY <1>1 DEF LInv, Settled, TypeOK
<1>6. TypeOK' BY <1>1, <1>3, <1>4 DEF LInv, TypeOK, Alive, Serving, Main, Phases
<1>7. LocksFollow' BY <1>1, <1>3, <1>4 DEF LInv, TypeOK, LocksFollow, Serving, Main
<1>8. OneFamily' BY <1>4 DEF LInv, OneFamily
<1>9. Separate' BY <1>3, <1>4, <1>5 DEF LInv, TypeOK, Separate, Main
<1>10. Settled' BY <1>1, <1>3, <1>4, <1>5 DEF LInv, TypeOK, Settled, Drained
<1> QED BY <1>6, <1>7, <1>8, <1>9, <1>10 DEF LInv

\* A service that quiesces gives its locks back.
LEMMA QuiesceInv == ASSUME LInv, NEW i \in Instances, i \notin Installers, Quiesce(i) PROVE LInv'
BY Family DEF Quiesce, locks, LInv, TypeOK, LocksFollow, OneFamily, Separate, Settled, Drained, Serving,
       Main, Alive, Phases, Procs

\* The main process dies, what it started lives on.
LEMMA MainDiesInv == ASSUME LInv, NEW i \in Instances, MainDies(i) PROVE LInv'
<1>1. /\ phase' = [phase EXCEPT ![i] = "gone"] /\ rec' = [rec EXCEPT ![i] = "none"]
      /\ mutator' = mutator \ {Main(i)} /\ recovery' = recovery \ {Main(i)} /\ lease' = lease \ {Main(i)}
      /\ UNCHANGED <<uncertain, live, journal>>
    BY DEF MainDies, Close
<1>2. \A p \in live : p # Main(i) BY DEF LInv, TypeOK, Main
<1>3. \A j \in Instances : (j # i => Main(j) # Main(i)) /\ (Serving(j)' <=> Serving(j) /\ j # i)
    BY <1>1 DEF Main, Serving, LInv, TypeOK
<1>4. TypeOK'
    <2>1. \A p \in Alive : p \in Alive' \/ p = Main(i) BY <1>1, <1>3 DEF Alive, LInv, TypeOK
    <2> QED BY <2>1, <1>1 DEF LInv, TypeOK, Phases
<1>5. LocksFollow' BY <1>1, <1>2, <1>3 DEF LInv, LocksFollow, Main
<1>6. OneFamily' BY <1>1 DEF LInv, OneFamily
<1>7. Separate' BY <1>1, <1>3 DEF LInv, TypeOK, Separate, Main
<1>8. Settled' BY <1>1 DEF LInv, TypeOK, Settled, Drained
<1> QED BY <1>4, <1>5, <1>6, <1>7, <1>8 DEF LInv

\* Any other process dies, and its locks with it.
LEMMA DiesInv == ASSUME LInv, NEW p \in Procs, Dies(p) PROVE LInv'
BY DEF Dies, locks, LInv, TypeOK, LocksFollow, OneFamily, Separate, Settled, Drained, Serving,
       Main, Alive, Phases, Procs

\* Every step keeps the invariant: one lemma for each action.
LEMMA NextInv == LInv /\ [Next]_vars => LInv'
<1> SUFFICES ASSUME LInv, [Next]_vars PROVE LInv' OBVIOUS
<1>1. CASE UNCHANGED vars
    BY <1>1 DEF vars, locks, LInv, TypeOK, LocksFollow, OneFamily, Separate, Settled, Drained, Serving,
       Main, Alive
<1>2. ASSUME NEW i \in Instances, Instance(i) PROVE LInv'
    BY <1>2, LaunchInv, AcquireInv, LockRecoveryInv, RunToolInv, RestoredInv, StartTunnelInv,
       StartRefusedInv, TunnelEndsInv, QuiesceInv, RunHelperInv, HelperConfiguresInv, MainDiesInv
    DEF Instance
<1>3. ASSUME NEW p \in Procs, Dies(p) PROVE LInv' BY <1>3, DiesInv
<1>4. CASE AllGone BY <1>1, <1>4 DEF AllGone
<1> QED BY <1>1, <1>2, <1>3, <1>4 DEF Next

\* The strengthened invariant holds of every behaviour of the lock protocol of
\* lifetime.rs, whatever the number of starts.
THEOREM LifetimeInvariant == Spec => []LInv
<1>1. Init => LInv BY InitInv
<1>2. LInv /\ [Next]_vars => LInv' BY NextInv
<1> QED BY <1>1, <1>2, PTL DEF Spec

\* The locks of lifetime.rs are held by existing processes only.
THEOREM LifetimeTypes == Spec => []TypeOK
<1>1. LInv => TypeOK BY DEF LInv
<1> QED BY <1>1, LifetimeInvariant, PTL

\* DaemonLease: no instance works while another serves or has left a process.
THEOREM LifetimeOneGeneration == Spec => []OneGeneration
<1>1. LInv => OneGeneration
    <2> SUFFICES ASSUME LInv, NEW i \in Instances, NEW j \in Instances,
                        Serving(i) \/ Mutating(i), Serving(j) \/ Mutating(j)
                 PROVE  i = j
        BY DEF OneGeneration
    <2>1. ASSUME NEW k \in Instances, Serving(k) \/ Mutating(k) PROVE \E p \in mutator : p[2] = k
        <3>1. CASE Serving(k)
            <4>1. Main(k) \in mutator /\ Main(k)[2] = k BY <3>1 DEF LInv, LocksFollow, Main
            <4> QED BY <4>1
        <3>2. CASE rec[k] = "running"
            <4>1. Serving(k) BY <3>2 DEF LInv, Settled, Serving
            <4> QED BY <4>1, <3>1
        <3>3. ASSUME NEW r \in Roles, <<r, k>> \in live PROVE \E p \in mutator : p[2] = k
            BY <3>3 DEF LInv, LocksFollow
        <3> QED BY <2>1, <3>1, <3>2, <3>3 DEF Mutating
    <2> QED BY <2>1 DEF LInv, OneFamily
<1> QED BY <1>1, LifetimeInvariant, PTL

\* recover(): journals are restored with no tunnel process and no program of an
\* earlier restoration alive.
THEOREM LifetimeRestoresAlone == Spec => []RestoresAlone
<1>1. LInv => RestoresAlone
    <2> SUFFICES ASSUME LInv, NEW i \in Instances, rec[i] = "running", NEW p \in live
                 PROVE  p = <<"tool", i>> /\ p \in recovery
        BY DEF RestoresAlone
    <2>1. Serving(i) /\ lease = {} BY DEF LInv, Settled, Serving, Drained
    <2>2. p \in Procs /\ p[1] = "tool" BY <2>1 DEF LInv, LocksFollow, TypeOK, Procs, Roles
    <2>3. p[2] = i BY <2>1, Family
    <2> QED BY <2>2, <2>3 DEF LInv, LocksFollow, Procs
<1> QED BY <1>1, LifetimeInvariant, PTL

\* run_with_ready: a service that admits users has nothing of an earlier
\* instance pending, on disk or alive.
THEOREM LifetimeOpenIsClean == Spec => []OpenIsClean
<1>1. LInv => OpenIsClean BY DEF LInv, Settled, OpenIsClean
<1> QED BY <1>1, LifetimeInvariant, PTL

\* recover() and run_with_ready: restorations run alone, users find a clean machine.
THEOREM LifetimeMachineQuiet == Spec => []MachineQuiet
<1>1. RestoresAlone /\ OpenIsClean => MachineQuiet BY DEF MachineQuiet
<1> QED BY <1>1, LifetimeRestoresAlone, LifetimeOpenIsClean, PTL

----------------------------------------------------------------------------
(***************************************************************************)
(* The event stream of a subscriber, for any users, any numbers of events  *)
(* and restarts and any capacities of the channel and of the socket.       *)
(*                                                                         *)
(* StreamInv follows an event from the channel (Numbered) to the client's  *)
(* cursor (Ordered): a record that is due has been returned, is on its way *)
(* or is missed by a stream that ends before it gets there (Complete).     *)
(***************************************************************************)
CONSTANTS Me, NoOne, MaxSeq, MaxInst, RingLimit, WireLimit
VARIABLES seq, slot, lastOwner, logs, handler, ring, lagged, hand

Stream == INSTANCE EventStream

\* What the handler has taken on itself to send, in order.
Sent == IF handler = "writing" THEN Append(wire, hand) ELSE wire

\* The handler and the client are at most one answer apart.
Together ==
    /\ slot # NoOne => lastOwner = slot
    /\ ~Stream!Receiving => ring = <<>> /\ ~lagged
    /\ handler \in {"none", "registered"} => client \in {"idle", "asked"} /\ wire = <<>> /\ due = {}
    /\ client = "idle" => handler = "none"
    /\ client = "asked" /\ handler = "streaming" => wire # <<>>
    /\ client \in {"idle", "asked"} => last = <<>> /\ records = {}
    /\ wanted = "snapshots" /\ client \in {"following", "fetching"} => last # <<>>
    /\ client = "fetching" => wanted = "snapshots"

\* The answer comes first, and what is sent is for the subscriber.
Answers ==
    \A i \in 1..Len(Sent) :
        /\ Sent[i].type = IF client = "asked" /\ i = 1 /\ wanted = "logs" THEN "logs" ELSE "event"
        /\ Sent[i].type = "event" => Sent[i].event.owner # Other

\* What is sent has happened.
Past == \A i \in 1..Len(Sent) : Sent[i].type = "event" => ~Before(Stream!Here, Sent[i].event.at)

\* Nothing that can still be shown is older than what is.
Forwards ==
    /\ ~Before(Stream!Here, shown.at)
    /\ wanted = "snapshots" =>
         /\ last # <<>> => ~Before(last[1], shown.at)
         /\ client = "asked" /\ Sent # <<>> => ~Before(Sent[1].event.at, shown.at)

\* The number before the first one in the channel.
Base == seq - Len(ring)

\* The channel holds the last events, without a gap.
Numbered ==
    Stream!Receiving =>
        /\ Len(ring) <= seq
        /\ \A i \in 1..Len(ring) : ring[i].at = [inst |-> inst, seq |-> Base + i]

\* A log stream is read, sent and received in the order of the numbers.
Ordered ==
    Stream!Receiving \/ due # {} =>
        /\ \A i \in 1..Len(Sent) : Sent[i].type = "event" =>
             /\ Sent[i].event.at.inst = inst /\ Sent[i].event.at.seq <= Base
             /\ \A j \in 1..i - 1 : Sent[j].type = "event" => Sent[j].event.at.seq < Sent[i].event.at.seq
             /\ last # <<>> => last[1].seq < Sent[i].event.at.seq
        /\ last # <<>> => last[1].inst = inst /\ last[1].seq <= Base

\* The numbers of the records belong to them alone.
Marked ==
    /\ \A r \in due : r <= seq
    /\ \A i \in 1..Len(ring) : ring[i].at.seq \in due => ring[i].log
    /\ \A i \in 1..Len(Sent) : Sent[i].type = "event" /\ Sent[i].event.at.seq \in due => Sent[i].event.log

\* Record r is lost to this stream, which will end before it gets there.
Missed(r) ==
    /\ lagged \/ handler = "closed"
    /\ \A i \in 1..Len(Sent) : Sent[i].type = "event" => Sent[i].event.at.seq < r
    /\ last # <<>> => last[1].seq < r

\* Every record was returned, is on its way, or is missed.
Complete ==
    \A r \in due :
        \/ r \in records
        \/ \E i \in 1..Len(Sent) : Sent[i].type = "event" /\ Sent[i].event.at.seq = r
        \/ r > Base
        \/ Missed(r)

StreamInv ==
    /\ Stream!TypeOK /\ Together /\ Answers /\ Past /\ Forwards /\ Numbered /\ shown.owner # Other
    /\ wanted = "logs" => Ordered /\ Marked /\ Complete
USE DEF Stream!vars, Stream!sessionVars, Stream!handlerVars, Stream!clientVars, Stream!Here

\* Frames carry events or a backlog, and are not nothing.
LEMMA StreamFrames ==
    ASSUME NEW f \in Stream!Frames
    PROVE  /\ f # <<>> /\ f.type \in {"event", "logs"}
           /\ f.type = "event" => f.event \in Stream!Events
           /\ f.type = "logs" => f.backlog \in SUBSET (0..MaxSeq)
<1>1. DOMAIN <<>> = {} OBVIOUS
<1>2. "type" \in DOMAIN f BY DEF Stream!Frames
<1> QED BY <1>1, <1>2 DEF Stream!Frames

\* Events have a place, in the instances and numbers there are.
LEMMA StreamEvents ==
    ASSUME Stream!LimitAssumption, NEW e \in Stream!Events
    PROVE  /\ e.at \in Stream!Places /\ e.owner \in Stream!Owners /\ e.log \in BOOLEAN
           /\ e.at.inst \in 1..MaxInst /\ e.at.seq \in 0..MaxSeq /\ e.at.inst \in Nat /\ e.at.seq \in Nat
           /\ e.at = [inst |-> e.at.inst, seq |-> e.at.seq]
BY DEF Stream!Events, Stream!Places, Stream!LimitAssumption

\* What is sent are frames.
LEMMA StreamSent ==
    ASSUME Stream!LimitAssumption, Stream!TypeOK
    PROVE  /\ Sent \in Seq(Stream!Frames) /\ Len(Sent) \in Nat
           /\ \A i \in 1..Len(Sent) : Sent[i] \in Stream!Frames
           /\ \A i \in 1..Len(wire) : i \in 1..Len(Sent) /\ Sent[i] = wire[i]
           /\ handler = "writing" =>
                Len(Sent) = Len(wire) + 1 /\ Len(Sent) \in 1..Len(Sent) /\ Sent[Len(Sent)] = hand
           /\ handler # "writing" => Sent = wire
<1>1. handler = "writing" => hand \in Stream!Frames BY DEF Stream!TypeOK
<1> QED BY <1>1 DEF Sent, Stream!TypeOK

\* A frame is read.
LEMMA StreamPops ==
    ASSUME Stream!LimitAssumption, Stream!TypeOK, wire # <<>>, wire' = Tail(wire), handler' = handler, hand' = hand
    PROVE  /\ wire' \in Seq(Stream!Frames) /\ Len(wire') <= WireLimit
           /\ 1 \in 1..Len(Sent) /\ Sent[1] = Head(wire) /\ Sent[1] \in Stream!Frames
           /\ Len(Sent') = Len(Sent) - 1 /\ Len(Sent) \in Nat
           /\ \A i \in 1..Len(Sent') : i \in Nat /\ i + 1 \in 1..Len(Sent) /\ Sent'[i] = Sent[i + 1]
           /\ \A i \in 1..Len(Sent) : i # 1 => i - 1 \in 1..Len(Sent') /\ Sent'[i - 1] = Sent[i]
<1>1. /\ wire \in Seq(Stream!Frames) /\ Len(wire) \in Nat \ {0} /\ Len(wire') = Len(wire) - 1
      /\ \A i \in 1..Len(wire') : wire'[i] = wire[i + 1]
      /\ wire' \in Seq(Stream!Frames) /\ Len(wire') <= WireLimit
    BY DEF Stream!TypeOK, Stream!LimitAssumption
<1>2. CASE handler = "writing"
    <2>1. hand \in Stream!Frames BY <1>2 DEF Stream!TypeOK
    <2>2. Sent = Append(wire, hand) /\ Sent' = Append(wire', hand) BY <1>2 DEF Sent
    <2> QED BY <1>1, <2>1, <2>2
<1>3. CASE handler # "writing"
    <2>1. Sent = wire /\ Sent' = wire' BY <1>3 DEF Sent
    <2> QED BY <1>1, <2>1
<1> QED BY <1>2, <1>3

\* The places the service and the client are at.
LEMMA StreamTyped ==
    ASSUME Stream!LimitAssumption, Stream!TypeOK
    PROVE  /\ inst \in 1..MaxInst /\ inst \in Nat /\ seq \in 0..MaxSeq /\ seq \in Nat /\ MaxSeq \in Nat /\ MaxInst \in Nat
           /\ shown.at \in Stream!Places /\ shown.at.inst \in Nat /\ shown.at.seq \in Nat
           /\ last # <<>> => last[1] \in Stream!Places /\ last[1].inst \in Nat /\ last[1].seq \in Nat
           /\ \A r \in due : r \in 0..MaxSeq /\ r \in Nat
           /\ \A i \in 1..Len(Sent) :
                /\ Sent[i].type \in {"event", "logs"}
                /\ Sent[i].type = "event" =>
                     Sent[i].event \in Stream!Events /\ Sent[i].event.at.seq \in Nat /\ Sent[i].event.at.inst \in Nat
<1>1. inst \in 1..MaxInst /\ seq \in 0..MaxSeq /\ MaxSeq \in Nat /\ MaxInst \in Nat
    BY DEF Stream!TypeOK, Stream!LimitAssumption
<1>2. shown.at \in Stream!Places BY DEF Stream!TypeOK
<1>3. last # <<>> => last[1] \in Stream!Places BY DEF Stream!TypeOK, Stream!Some
<1>4. \A p \in Stream!Places : p.inst \in Nat /\ p.seq \in Nat BY <1>1 DEF Stream!Places
<1>5. \A r \in due : r \in 0..MaxSeq BY DEF Stream!TypeOK
<1>6. \A i \in 1..Len(Sent) :
        /\ Sent[i].type \in {"event", "logs"}
        /\ Sent[i].type = "event" =>
             Sent[i].event \in Stream!Events /\ Sent[i].event.at.seq \in Nat /\ Sent[i].event.at.inst \in Nat
    BY StreamSent, StreamFrames, StreamEvents
<1> QED BY <1>1, <1>2, <1>3, <1>4, <1>5, <1>6

\* The channel takes new events, and forgets the oldest for them.
LEMMA StreamBroadcast ==
    ASSUME Stream!LimitAssumption, Stream!TypeOK, Together, Numbered,
           NEW new \in Seq(Stream!Events), Len(new) \in 1..2,
           \A i \in 1..Len(new) : new[i].at = [inst |-> inst, seq |-> seq + i],
           seq' = seq + Len(new), inst' = inst, handler' = handler, Stream!Broadcast(new)
    PROVE  /\ ring' \in Seq(Stream!Events) /\ Len(ring') <= RingLimit /\ lagged' \in BOOLEAN
           /\ Numbered' /\ Base \in Nat /\ Base' \in Nat /\ Base <= seq /\ Base <= Base' /\ Base' <= seq'
           /\ Stream!Receiving /\ Base # Base' => lagged'
           /\ lagged => lagged'
           /\ ~Stream!Receiving => ring' = ring /\ ring = <<>> /\ lagged' = lagged
           /\ \A i \in 1..Len(ring') : \/ \E j \in 1..Len(ring) : ring'[i] = ring[j]
                                       \/ \E j \in 1..Len(new) : ring'[i] = new[j]
<1> DEFINE all == ring \o new
           surplus == IF Len(all) > RingLimit THEN Len(all) - RingLimit ELSE 0
<1>1. /\ ring \in Seq(Stream!Events) /\ Len(ring) \in Nat /\ Len(ring) <= RingLimit
      /\ seq \in Nat /\ RingLimit \in Nat \ {0} /\ inst \in 1..MaxInst /\ lagged \in BOOLEAN
      /\ Len(new) \in Nat
    BY DEF Stream!TypeOK, Stream!LimitAssumption
<1>2. /\ all \in Seq(Stream!Events) /\ Len(all) = Len(ring) + Len(new)
      /\ \A i \in 1..Len(all) : all[i] = IF i <= Len(ring) THEN ring[i] ELSE new[i - Len(ring)]
    BY <1>1
<1>3. CASE Stream!Receiving
    <2>1. ring' = SubSeq(all, surplus + 1, Len(all)) /\ lagged' = (lagged \/ surplus > 0)
        BY <1>3 DEF Stream!Broadcast
    <2>2. surplus \in Nat /\ surplus <= Len(all) /\ Len(all) - surplus <= RingLimit BY <1>1, <1>2
    <2>3. \A i \in 1..Len(all) - surplus : surplus + i \in 1..Len(all) BY <1>1, <1>2, <2>2
    <2> HIDE DEF surplus
    <2>4. /\ Len(ring') = Len(all) - surplus
          /\ \A i \in 1..Len(ring') : ring'[i] = all[surplus + i]
          /\ ring' \in Seq(Stream!Events)
        <3>1. \A i \in surplus + 1..Len(all) : all[i] \in Stream!Events BY <1>1, <1>2, <2>2
        <3>2. surplus + 1 \in Int /\ Len(all) \in Int BY <1>1, <1>2, <2>2
        <3> HIDE DEF all
        <3> QED BY <1>1, <1>2, <2>1, <2>2, <3>1, <3>2, SubSeqProperties
    <2> HIDE DEF all
    <2>5. Len(ring) <= seq /\ \A i \in 1..Len(ring) : ring[i].at = [inst |-> inst, seq |-> Base + i]
        BY <1>3 DEF Numbered
    <2>6. Base \in Nat /\ Base' = Base + surplus /\ Base <= seq /\ Base' <= seq'
        BY <1>1, <1>2, <2>2, <2>4, <2>5 DEF Base
    <2>7. \A i \in 1..Len(all) : all[i].at = [inst |-> inst, seq |-> Base + i]
        <3> TAKE i \in 1..Len(all)
        <3>1. CASE i <= Len(ring)
            <4>1. i \in 1..Len(ring) /\ all[i] = ring[i] BY <1>1, <1>2, <3>1
            <4> QED BY <2>5, <4>1
        <3>2. CASE i > Len(ring)
            <4>1. i - Len(ring) \in 1..Len(new) /\ seq + (i - Len(ring)) = Base + i
                BY <1>1, <1>2, <3>2 DEF Base
            <4> QED BY <1>1, <1>2, <3>2, <4>1
        <3> QED BY <1>1, <1>2, <3>1, <3>2
    <2>8. \A i \in 1..Len(ring') : ring'[i].at = [inst |-> inst, seq |-> Base' + i]
        <3> TAKE i \in 1..Len(ring')
        <3>1. surplus + i \in 1..Len(all) /\ Base + (surplus + i) = Base' + i BY <1>1, <1>2, <2>2, <2>3, <2>4, <2>6
        <3> QED BY <2>4, <2>7, <3>1
    <2>9. Numbered' BY <2>6, <2>8, <2>2, <2>4, <1>1, <1>2 DEF Numbered, Base
    <2>10. \A i \in 1..Len(ring') : \/ \E j \in 1..Len(ring) : ring'[i] = ring[j]
                                    \/ \E j \in 1..Len(new) : ring'[i] = new[j]
        <3> TAKE i \in 1..Len(ring')
        <3> DEFINE k == surplus + i
        <3>1. k \in 1..Len(all) /\ ring'[i] = all[k] BY <2>3, <2>4
        <3> HIDE DEF k
        <3>2. CASE k <= Len(ring) BY <1>1, <1>2, <3>1, <3>2
        <3>3. CASE k > Len(ring)
            <4>1. k - Len(ring) \in 1..Len(new) BY <1>1, <1>2, <3>1, <3>3
            <4> QED BY <1>1, <1>2, <3>1, <3>3, <4>1
        <3> QED BY <1>1, <1>2, <3>1, <3>2, <3>3
    <2>11. Base # Base' => lagged'
        <3>1. Base # Base' => surplus > 0 BY <2>2, <2>6
        <3> QED BY <2>1, <3>1, Zenon
    <2>12. lagged' \in BOOLEAN /\ (lagged => lagged') BY <1>1, <2>1
    <2> QED BY <1>3, <1>2, <2>2, <2>4, <2>6, <2>9, <2>10, <2>11, <2>12
<1>4. CASE ~Stream!Receiving
    <2>1. ring' = ring /\ lagged' = lagged /\ ring = <<>> BY <1>4 DEF Stream!Broadcast, Together
    <2>2. Len(ring) = 0 /\ Base = seq /\ Base' = seq' BY <1>1, <2>1 DEF Base
    <2>3. Numbered' BY <1>4 DEF Numbered, Stream!Receiving
    <2> QED BY <1>1, <1>4, <2>1, <2>2, <2>3
<1> QED BY <1>3, <1>4

\* The session changes or counts traffic, and publishes it.
LEMMA StreamGrows ==
    ASSUME Stream!LimitAssumption, Stream!UserAssumption, StreamInv,
           NEW new \in Seq(Stream!Events), Len(new) \in 1..2, seq + Len(new) <= MaxSeq,
           \A i \in 1..Len(new) : new[i].at = [inst |-> inst, seq |-> seq + i],
           seq' = seq + Len(new), Stream!Broadcast(new),
           UNCHANGED <<inst, handler, hand, wire, wanted, client, last, shown, records>>,
           slot' \in Stream!Owners, lastOwner' \in Stream!Owners, slot' # NoOne => lastOwner' = slot',
           logs' \subseteq 0..MaxSeq,
           \/ due' = due
           \/ due' = due \cup {seq + 1} /\ handler \in {"streaming", "writing"} /\ new[1].log
    PROVE  StreamInv'
<1>1. /\ Stream!TypeOK /\ Together /\ Answers /\ Past /\ Forwards /\ Numbered /\ shown.owner # Other
      /\ wanted = "logs" => Ordered /\ Marked /\ Complete
    BY DEF StreamInv
<1>2. /\ ring' \in Seq(Stream!Events) /\ Len(ring') <= RingLimit /\ lagged' \in BOOLEAN
      /\ Numbered' /\ Base \in Nat /\ Base' \in Nat /\ Base <= seq /\ Base <= Base' /\ Base' <= seq'
      /\ Stream!Receiving /\ Base # Base' => lagged'
      /\ lagged => lagged'
      /\ ~Stream!Receiving => ring' = ring /\ ring = <<>> /\ lagged' = lagged
      /\ \A i \in 1..Len(ring') : \/ \E j \in 1..Len(ring) : ring'[i] = ring[j]
                                  \/ \E j \in 1..Len(new) : ring'[i] = new[j]
    BY <1>1, StreamBroadcast
<1>3. Sent' = Sent /\ (Stream!Receiving' <=> Stream!Receiving) BY DEF Sent, Stream!Receiving
<1>4. seq \in Nat /\ seq' \in Nat /\ seq < seq' /\ Len(new) \in {1, 2}
    <2>1. seq \in Nat BY <1>1, StreamTyped
    <2>2. Len(new) \in {1, 2} OBVIOUS
    <2>3. seq' = seq + 1 \/ seq' = seq + 2 BY <2>2
    <2>4. \A n \in Nat : n + 1 \in Nat /\ n + 2 \in Nat /\ n < n + 1 /\ n < n + 2 OBVIOUS
    <2> QED BY <2>1, <2>2, <2>3, <2>4, Zenon
<1>5. Stream!TypeOK'
    <2>1. seq' \in 0..MaxSeq /\ seq + 1 \in 0..MaxSeq BY <1>1, <1>4, StreamTyped
    <2>2. due' \subseteq 0..MaxSeq BY <1>1, <2>1 DEF Stream!TypeOK
    <2> QED BY <1>1, <1>2, <2>1, <2>2 DEF Stream!TypeOK
<1>6. Together' BY <1>1, <1>2, <1>3 DEF Together
<1>7. Answers' /\ Past'
    <2>1. Past' BY <1>1, <1>3, <1>4, StreamTyped DEF Past, Before
    <2> QED BY <1>1, <1>3, <2>1 DEF Answers
<1>8. Forwards'
    <2>1. ~Before(Stream!Here, shown.at)' BY <1>1, <1>4, StreamTyped DEF Forwards, Before
    <2> QED BY <1>1, <1>3, <2>1 DEF Forwards, Before
<1>9. ASSUME wanted' = "logs" PROVE Ordered' /\ Marked' /\ Complete'
    <2>1. Ordered /\ Marked /\ Complete BY <1>1, <1>9
    <2>2. Stream!Receiving' \/ due' # {} => Stream!Receiving \/ due # {} BY <1>3 DEF Stream!Receiving
    <2>3. /\ \A i \in 1..Len(Sent) : Sent[i].type = "event" =>
               Sent[i].event.at.seq \in Nat /\ Sent[i].event.at.inst \in Nat
          /\ last # <<>> => last[1].seq \in Nat
        BY <1>1, StreamTyped
    <2>4. Ordered'
        <3>1. \A n \in Nat : n <= Base => n <= Base' BY <1>2
        <3> HIDE DEF Base
        <3> QED BY <1>3, <2>1, <2>2, <2>3, <3>1 DEF Ordered
    <2>5. Marked'
        <3>1. \A r \in due' : r <= seq' /\ (r \in due \/ r = seq + 1)
            <4>1. \A r \in due : r \in Nat /\ r <= seq BY <1>1, <2>1, StreamTyped DEF Marked
            <4> QED BY <1>4, <4>1
        <3>2. ASSUME NEW i \in 1..Len(ring'), ring'[i].at.seq \in due' PROVE ring'[i].log
            <4>1. CASE \E j \in 1..Len(ring) : ring'[i] = ring[j]
                <5>1. PICK j \in 1..Len(ring) : ring'[i] = ring[j] BY <4>1
                <5>2. Stream!Receiving BY <1>1, <5>1, Len(<<>>) = 0 DEF Together
                <5>3. ring[j].at.seq = Base + j /\ j \in Nat /\ Base + j <= seq
                    <6>1. Len(ring) \in Nat /\ Base = seq - Len(ring) BY <1>1 DEF Base, Stream!TypeOK
                    <6>2. ring[j].at = [inst |-> inst, seq |-> Base + j] BY <1>1, <5>1, <5>2 DEF Numbered
                    <6> QED BY <1>2, <1>4, <5>1, <6>1, <6>2
                <5>4. ring[j].at.seq # seq + 1 BY <1>2, <1>4, <5>3
                <5> QED BY <2>1, <3>1, <3>2, <5>1, <5>4 DEF Marked
            <4>2. CASE \E j \in 1..Len(new) : ring'[i] = new[j]
                <5>1. PICK j \in 1..Len(new) : ring'[i] = new[j] BY <4>2
                <5>2. j \in Nat /\ j # 0 /\ ring'[i].at = [inst |-> inst, seq |-> seq + j] BY <1>4, <5>1
                <5>3. seq + j \notin due /\ ring'[i].at.seq = seq + j BY <1>4, <2>1, <5>2 DEF Marked
                <5>4. j = 1 /\ due' # due BY <1>4, <3>1, <3>2, <5>2, <5>3
                <5> QED BY <5>1, <5>4
            <4> QED BY <1>2, <4>1, <4>2
        <3>3. ASSUME NEW i \in 1..Len(Sent), Sent[i].type = "event", Sent[i].event.at.seq \in due'
              PROVE  Sent[i].event.log
            <4>1. Stream!Receiving \/ due # {} BY <1>3, <2>2, <3>3
            <4>2. Sent[i].event.at.seq <= Base BY <2>1, <3>3, <4>1 DEF Ordered
            <4>3. Sent[i].event.at.seq # seq + 1 BY <1>2, <1>4, <2>3, <3>3, <4>2
            <4> QED BY <2>1, <3>1, <3>3, <4>3 DEF Marked
        <3> QED BY <1>3, <3>1, <3>2, <3>3 DEF Marked
    <2>6. Complete'
        <3> SUFFICES ASSUME NEW r \in due'
                     PROVE  \/ r \in records
                            \/ \E i \in 1..Len(Sent) : Sent[i].type = "event" /\ Sent[i].event.at.seq = r
                            \/ r > Base'
                            \/ Missed(r)'
            BY <1>3 DEF Complete
        <3>1. r \in Nat /\ r <= seq' BY <1>1, <1>4, <1>5, <2>5 DEF Marked, Stream!TypeOK
        <3>2. CASE r > Base
            <4>1. SUFFICES ASSUME ~(r > Base') PROVE Missed(r)' OBVIOUS
            <4>2. Stream!Receiving \/ handler = "closed" BY <1>1 DEF Together, Stream!Receiving, Stream!TypeOK
            <4>3. lagged' \/ handler' = "closed" BY <1>2, <3>1, <3>2, <4>1, <4>2
            <4>4. Stream!Receiving \/ due # {} BY <2>2
            <4>5. /\ \A i \in 1..Len(Sent) : Sent[i].type = "event" => Sent[i].event.at.seq < r
                  /\ last # <<>> => last[1].seq < r
                <5>1. \A n \in Nat : n <= Base => n < r BY <1>2, <3>1, <3>2
                <5> HIDE DEF Base
                <5> QED BY <2>1, <2>3, <4>4, <5>1 DEF Ordered
            <4> QED BY <1>3, <4>3, <4>5 DEF Missed
        <3>3. CASE ~(r > Base)
            <4>1. r \in due BY <1>2, <1>4, <3>3
            <4>2. Missed(r) => Missed(r)' BY <1>2, <1>3 DEF Missed
            <4> QED BY <2>1, <3>3, <4>1, <4>2 DEF Complete
        <3> QED BY <3>2, <3>3
    <2> QED BY <2>4, <2>5, <2>6
<1> QED BY <1>1, <1>2, <1>5, <1>6, <1>7, <1>8, <1>9 DEF StreamInv

\* Every change of the session, and new traffic counters, grow the stream.
LEMMA StreamService ==
    ASSUME Stream!LimitAssumption, Stream!UserAssumption, StreamInv,
           \/ \E u \in {Me, Other} : Stream!Reserve(u)
           \/ Stream!Changes \/ Stream!Releases \/ Stream!Traffic
    PROVE  StreamInv'
<1>1. Stream!TypeOK /\ Together BY DEF StreamInv
<1>2. /\ seq \in Nat /\ inst \in 1..MaxInst /\ MaxSeq \in Nat
      /\ slot \in Stream!Owners /\ lastOwner \in Stream!Owners /\ logs \subseteq 0..MaxSeq
      /\ slot # NoOne => lastOwner = slot
    BY <1>1, StreamTyped DEF Stream!TypeOK, Together
<1>3. ASSUME NEW kept \in SUBSET (0..MaxSeq), NEW owner \in Stream!Owners, Stream!Publish(kept, owner),
             slot' \in Stream!Owners, slot' # NoOne => owner = slot'
      PROVE  StreamInv'
    <2> DEFINE record == [at |-> [inst |-> inst, seq |-> seq + 1], log |-> TRUE, owner |-> owner]
               state  == [at |-> [inst |-> inst, seq |-> seq + 2], log |-> FALSE, owner |-> owner]
               new    == <<record, state>>
    <2>1. seq + 2 <= MaxSeq /\ seq' = seq + 2 /\ seq + 1 \in 0..MaxSeq /\ seq + 2 \in 0..MaxSeq
        BY <1>2, <1>3 DEF Stream!Publish
    <2>2. record \in Stream!Events /\ state \in Stream!Events
        BY <1>2, <2>1 DEF Stream!Events, Stream!Places
    <2>3. /\ Stream!Broadcast(new) /\ lastOwner' = owner /\ logs' = kept \cup {seq + 1}
          /\ UNCHANGED <<inst, handler, hand, wire, wanted, client, last, shown, records>>
          /\ \/ due' = due
             \/ due' = due \cup {seq + 1} /\ handler \in {"streaming", "writing"}
        BY <1>3 DEF Stream!Publish
    <2>4. record.log /\ record.at = [inst |-> inst, seq |-> seq + 1] /\ state.at = [inst |-> inst, seq |-> seq + 2]
        OBVIOUS
    <2> HIDE DEF record, state
    <2>5. /\ new \in Seq(Stream!Events) /\ Len(new) = 2 /\ new[1] = record /\ new[2] = state
        BY <2>2
    <2>6. \A i \in 1..Len(new) : new[i].at = [inst |-> inst, seq |-> seq + i]
        <3> TAKE i \in 1..Len(new)
        <3>1. i = 1 \/ i = 2 BY <2>5
        <3> QED BY <2>4, <2>5, <3>1
    <2>7. logs' \subseteq 0..MaxSeq BY <2>1, <2>3
    <2> HIDE DEF new
    <2>8. Len(new) \in 1..2 /\ seq + Len(new) <= MaxSeq /\ seq' = seq + Len(new) BY <2>1, <2>5
    <2>9. \/ due' = due
          \/ due' = due \cup {seq + 1} /\ handler \in {"streaming", "writing"} /\ new[1].log
        BY <2>3, <2>4, <2>5
    <2>10. lastOwner' \in Stream!Owners /\ (slot' # NoOne => lastOwner' = slot') BY <1>3, <2>3
    <2> QED BY <1>3, <2>3, <2>5, <2>6, <2>7, <2>8, <2>9, <2>10, StreamGrows
<1>4. ASSUME NEW u \in {Me, Other}, Stream!Reserve(u) PROVE StreamInv'
    BY <1>3, <1>4 DEF Stream!Reserve, Stream!Owners
<1>5. CASE Stream!Changes BY <1>2, <1>3, <1>5 DEF Stream!Changes
<1>6. CASE Stream!Releases BY <1>2, <1>3, <1>6 DEF Stream!Releases, Stream!Owners
<1>7. CASE Stream!Traffic
    <2> DEFINE state == [at |-> [inst |-> inst, seq |-> seq + 1], log |-> FALSE, owner |-> lastOwner]
               new   == <<state>>
    <2>1. seq < MaxSeq /\ seq' = seq + 1 /\ seq + 1 \in 0..MaxSeq /\ seq + 1 <= MaxSeq
        BY <1>2, <1>7 DEF Stream!Traffic
    <2>2. state \in Stream!Events BY <1>2, <2>1 DEF Stream!Events, Stream!Places
    <2>3. /\ Stream!Broadcast(new)
          /\ UNCHANGED <<inst, slot, lastOwner, logs, handler, hand, wire, wanted, client, last, shown, records, due>>
        BY <1>7 DEF Stream!Traffic
    <2>4. state.at = [inst |-> inst, seq |-> seq + 1] OBVIOUS
    <2> HIDE DEF state
    <2>5. /\ new \in Seq(Stream!Events) /\ Len(new) = 1 /\ new[1] = state BY <2>2
    <2>6. \A i \in 1..Len(new) : new[i].at = [inst |-> inst, seq |-> seq + i]
        <3> TAKE i \in 1..Len(new)
        <3>1. i = 1 BY <2>5
        <3> QED BY <2>4, <2>5, <3>1
    <2> HIDE DEF new
    <2>7. Len(new) \in 1..2 /\ seq + Len(new) <= MaxSeq /\ seq' = seq + Len(new) BY <2>1, <2>5
    <2> QED BY <1>2, <2>3, <2>5, <2>6, <2>7, StreamGrows
<1> QED BY <1>4, <1>5, <1>6, <1>7

\* The service starts again: streams of before end, and owe nothing.
LEMMA StreamRestart ==
    ASSUME Stream!LimitAssumption, Stream!UserAssumption, StreamInv, Stream!Restart
    PROVE  StreamInv'
<1>1. /\ Stream!TypeOK /\ Together /\ Answers /\ Past /\ Forwards /\ Numbered /\ shown.owner # Other
    BY DEF StreamInv
<1>2. /\ inst < MaxInst /\ inst' = inst + 1 /\ seq' = 0 /\ slot' = NoOne /\ lastOwner' = NoOne
      /\ logs' = {} /\ due' = {} /\ UNCHANGED <<wire, wanted, client, last, shown, records>>
      /\ \/ handler = "none" /\ UNCHANGED <<handler, ring, lagged, hand>>
         \/ handler # "none" /\ handler' = "closed" /\ ring' = <<>> /\ lagged' = FALSE /\ hand' = <<>>
    BY DEF Stream!Restart, Stream!Closed
<1>3. Sent' = wire /\ ring' = <<>> /\ ~Stream!Receiving' /\ lagged' = FALSE
    BY <1>1, <1>2 DEF Sent, Together, Stream!Receiving, Stream!TypeOK
<1>4. /\ Len(wire) \in Nat /\ \A i \in 1..Len(wire) : i \in 1..Len(Sent) /\ Sent[i] = wire[i]
      /\ wire # <<>> => 1 \in 1..Len(wire)
    BY <1>1, StreamSent DEF Stream!TypeOK
<1>5. Stream!TypeOK'
    <2>1. inst' \in 1..MaxInst /\ seq' \in 0..MaxSeq BY <1>1, <1>2, StreamTyped
    <2>2. <<>> \in Seq(Stream!Events) /\ Len(<<>>) = 0 /\ 0 <= RingLimit BY DEF Stream!LimitAssumption
    <2> QED BY <1>1, <1>2, <1>3, <2>1, <2>2 DEF Stream!TypeOK, Stream!Owners
<1>6. Together' BY <1>1, <1>2, <1>3 DEF Together
<1>7. Answers' /\ Past'
    <2>1. Past' BY <1>1, <1>2, <1>3, <1>4, StreamTyped DEF Past, Before
    <2> QED BY <1>1, <1>2, <1>3, <1>4, <2>1 DEF Answers
<1>8. Forwards'
    <2>1. ~Before(Stream!Here, shown.at)' BY <1>1, <1>2, StreamTyped DEF Forwards, Before
    <2>2. wire # <<>> => Sent # <<>> /\ Sent[1] = wire[1] BY <1>4, Len(<<>>) = 0
    <2> QED BY <1>1, <1>2, <1>3, <2>1, <2>2 DEF Forwards, Before
<1>9. Numbered' BY <1>3 DEF Numbered
<1>10. Ordered' /\ Marked' /\ Complete' BY <1>2, <1>3, Len(<<>>) = 0 DEF Ordered, Marked, Complete
<1> QED BY <1>1, <1>2, <1>5, <1>6, <1>7, <1>8, <1>9, <1>10 DEF StreamInv

\* A snapshot is of the subscriber's own session or of none.
LEMMA StreamSnapshot ==
    ASSUME Stream!LimitAssumption, Stream!UserAssumption, Stream!TypeOK, Together, Stream!Authorized
    PROVE  /\ Stream!Visible \in Stream!Owners /\ Stream!Visible # Other
           /\ Stream!SnapshotFrame \in Stream!Frames /\ Stream!SnapshotFrame.type = "event"
           /\ Stream!SnapshotFrame.event.at = Stream!Here /\ Stream!SnapshotFrame.event.owner = Stream!Visible
           /\ Stream!Here \in Stream!Places
<1>1. Stream!Visible \in Stream!Owners /\ Stream!Visible # Other
    BY DEF Stream!Visible, Stream!Owners, Stream!Authorized, Stream!UserAssumption, Together, Stream!TypeOK
<1>2. Stream!Here \in Stream!Places BY StreamTyped DEF Stream!Places
<1> HIDE DEF Stream!Here
<1>3. [at |-> Stream!Here, log |-> FALSE, owner |-> Stream!Visible] \in Stream!Events BY <1>1, <1>2 DEF Stream!Events
<1> QED BY <1>1, <1>2, <1>3 DEF Stream!SnapshotFrame, Stream!Frames

\* A stream that ends sends nothing more; what it still owed is missed.
LEMMA StreamCloses ==
    ASSUME Stream!LimitAssumption, Stream!UserAssumption, StreamInv, Stream!Receiving, Stream!Closed,
           UNCHANGED <<inst, seq, slot, lastOwner, logs, wire, wanted, client, last, shown, records>>,
           due' = due \/ due' = {}
    PROVE  StreamInv'
<1>1. /\ Stream!TypeOK /\ Together /\ Answers /\ Past /\ Forwards /\ Numbered /\ shown.owner # Other
      /\ wanted = "logs" => Ordered /\ Marked /\ Complete
    BY DEF StreamInv
<1>2. handler' = "closed" /\ ring' = <<>> /\ lagged' = FALSE /\ hand' = <<>> BY DEF Stream!Closed
<1>3. Sent' = wire /\ ~Stream!Receiving' BY <1>2 DEF Sent, Stream!Receiving
<1>4. /\ Len(wire) \in Nat /\ \A i \in 1..Len(wire) : i \in Nat /\ i \in 1..Len(Sent) /\ Sent[i] = wire[i]
      /\ wire # <<>> => 1 \in 1..Len(wire)
      /\ \A i \in 1..Len(Sent) : i \in 1..Len(wire) \/ \A j \in 1..Len(wire) : j \in 1..i - 1
    BY <1>1, StreamSent DEF Stream!TypeOK
<1>5. Stream!TypeOK'
    <2>1. <<>> \in Seq(Stream!Events) /\ Len(<<>>) = 0 /\ 0 <= RingLimit BY DEF Stream!LimitAssumption
    <2> QED BY <1>1, <1>2, <2>1 DEF Stream!TypeOK
<1>6. Together' BY <1>1, <1>2, <1>3 DEF Together, Stream!Receiving
<1>7. Answers' /\ Past' BY <1>1, <1>3, <1>4 DEF Answers, Past, Before
<1>8. Forwards'
    <2>1. wire # <<>> => Sent # <<>> /\ Sent[1] = wire[1] BY <1>4, Len(<<>>) = 0
    <2> QED BY <1>1, <1>3, <2>1 DEF Forwards, Before
<1>9. Numbered' BY <1>3 DEF Numbered
<1>10. /\ Base \in Nat /\ Base <= seq /\ Base' = seq /\ seq \in Nat
    <2>1. Len(ring) <= seq /\ Len(ring) \in Nat BY <1>1 DEF Numbered, Stream!TypeOK
    <2>2. seq \in Nat BY <1>1, StreamTyped
    <2> QED BY <1>2, <2>1, <2>2, Len(<<>>) = 0 DEF Base
<1>11. ASSUME wanted' = "logs" PROVE Ordered' /\ Marked' /\ Complete'
    <2>1. Ordered /\ Marked /\ Complete BY <1>1, <1>11
    <2>2. /\ \A i \in 1..Len(Sent) : Sent[i].type = "event" => Sent[i].event.at.seq \in Nat
          /\ last # <<>> => last[1].seq \in Nat
        BY <1>1, StreamTyped
    <2>3. \A n \in Nat : n <= Base => n <= Base' BY <1>10
    <2>4. Ordered'
        <3> HIDE DEF Base
        <3> QED BY <1>3, <1>4, <2>1, <2>2, <2>3 DEF Ordered
    <2>5. Marked' BY <1>2, <1>3, <1>4, <2>1, Len(<<>>) = 0 DEF Marked
    <2>6. ASSUME NEW r \in due, r \notin records,
                 ~\E i \in 1..Len(wire) : wire[i].type = "event" /\ wire[i].event.at.seq = r
          PROVE  Missed(r)'
        <3> SUFFICES /\ \A i \in 1..Len(wire) : wire[i].type = "event" => wire[i].event.at.seq < r
                     /\ last # <<>> => last[1].seq < r
            BY <1>2, <1>3 DEF Missed
        <3>1. r \in Nat BY <1>1, StreamTyped
        <3>2. CASE \E i \in 1..Len(Sent) : Sent[i].type = "event" /\ Sent[i].event.at.seq = r
            <4>1. PICK i \in 1..Len(Sent) : Sent[i].type = "event" /\ Sent[i].event.at.seq = r BY <3>2
            <4>2. \A j \in 1..Len(wire) : j \in 1..i - 1 BY <1>4, <2>6, <4>1
            <4> QED BY <1>4, <2>1, <4>1, <4>2 DEF Ordered
        <3>3. CASE r > Base
            <4>1. \A n \in Nat : n <= Base => n < r BY <1>10, <3>1, <3>3
            <4> HIDE DEF Base
            <4> QED BY <1>4, <2>1, <2>2, <4>1 DEF Ordered
        <3>4. CASE Missed(r) BY <1>4, <3>4 DEF Missed
        <3> QED BY <2>1, <2>6, <3>2, <3>3, <3>4 DEF Complete
    <2>7. Complete' BY <1>3, <2>6 DEF Complete
    <2> QED BY <2>4, <2>5, <2>7
<1> QED BY <1>1, <1>5, <1>6, <1>7, <1>8, <1>9, <1>11 DEF StreamInv

\* A frame is made, to be written.
LEMMA StreamSends ==
    ASSUME Stream!LimitAssumption, Stream!TypeOK, handler \in {"registered", "streaming"}, handler' = "writing",
           hand' \in Stream!Frames, wire' = wire
    PROVE  /\ Len(Sent') = Len(Sent) + 1 /\ Len(Sent) \in Nat /\ Sent'[Len(Sent')] = hand' /\ Sent = wire
           /\ \A i \in 1..Len(Sent) : i \in Nat /\ i \in 1..Len(Sent') /\ Sent'[i] = Sent[i]
           /\ \A i \in 1..Len(Sent') : i \in Nat /\ (i \in 1..Len(Sent) \/ i = Len(Sent'))
           /\ Len(Sent') \in 1..Len(Sent') /\ Sent' # <<>> /\ hand' # <<>>
           /\ Sent # <<>> => 1 \in 1..Len(Sent)
<1>1. wire \in Seq(Stream!Frames) /\ Len(wire) \in Nat BY DEF Stream!TypeOK
<1>2. Sent = wire /\ Sent' = Append(wire, hand') BY DEF Sent
<1>3. hand' # <<>> BY StreamFrames
<1> QED BY <1>1, <1>2, <1>3, Len(<<>>) = 0

\* The handler joins the channel.
LEMMA StreamRegister ==
    ASSUME Stream!LimitAssumption, Stream!UserAssumption, StreamInv, Stream!Register
    PROVE  StreamInv'
<1>1. /\ Stream!TypeOK /\ Together /\ Answers /\ Past /\ Forwards /\ Numbered /\ shown.owner # Other
    BY DEF StreamInv
<1>2. /\ handler = "none" /\ client = "asked" /\ handler' = "registered"
      /\ UNCHANGED <<inst, seq, slot, lastOwner, logs, ring, lagged, hand, wire, wanted, client, last, shown,
                     records, due>>
    BY DEF Stream!Register
<1>3. wire = <<>> /\ ring = <<>> /\ due = {} /\ last = <<>> /\ Sent = <<>> /\ Sent' = <<>> /\ Len(<<>>) = 0
    BY <1>1, <1>2 DEF Together, Sent, Stream!Receiving
<1>4. Stream!TypeOK' BY <1>1, <1>2 DEF Stream!TypeOK
<1>5. Together' BY <1>1, <1>2, <1>3 DEF Together, Stream!Receiving
<1>6. Answers' /\ Past' BY <1>3 DEF Answers, Past
<1>7. Forwards' BY <1>1, <1>2, <1>3 DEF Forwards, Before
<1>8. Numbered' BY <1>1, <1>2, <1>3, StreamTyped DEF Numbered
<1>9. Ordered' /\ Marked' /\ Complete' BY <1>2, <1>3 DEF Ordered, Marked, Complete
<1> QED BY <1>1, <1>2, <1>4, <1>5, <1>6, <1>7, <1>8, <1>9 DEF StreamInv

\* The request is answered or refused.
LEMMA StreamDispatch ==
    ASSUME Stream!LimitAssumption, Stream!UserAssumption, StreamInv, Stream!Dispatch
    PROVE  StreamInv'
<1>1. /\ Stream!TypeOK /\ Together /\ Answers /\ Past /\ Forwards /\ Numbered /\ shown.owner # Other
    BY DEF StreamInv
<1>2. /\ handler = "registered" /\ Stream!Receiving /\ due' = {}
      /\ UNCHANGED <<inst, seq, slot, lastOwner, logs, wire, wanted, client, last, shown, records>>
      /\ wire = <<>> /\ client = "asked" /\ last = <<>> /\ Len(<<>>) = 0
    BY <1>1 DEF Stream!Dispatch, Together, Stream!Receiving
<1>3. CASE ~Stream!Authorized BY <1>2, <1>3, StreamCloses DEF Stream!Dispatch
<1>4. CASE Stream!Authorized
    <2>1. /\ handler' = "writing" /\ UNCHANGED <<ring, lagged>>
          /\ hand' = IF wanted = "logs" THEN Stream!LogsFrame ELSE Stream!SnapshotFrame
        BY <1>4 DEF Stream!Dispatch
    <2>2. Stream!LogsFrame \in Stream!Frames /\ Stream!LogsFrame.type = "logs"
        BY <1>1 DEF Stream!LogsFrame, Stream!Frames, Stream!TypeOK
    <2>3. hand' \in Stream!Frames /\ hand'.type = IF wanted = "logs" THEN "logs" ELSE "event"
        BY <1>1, <1>4, <2>1, <2>2, StreamSnapshot
    <2>4. hand'.type = "event" => hand'.event.owner # Other /\ hand'.event.at = Stream!Here
        BY <1>1, <1>4, <2>1, <2>2, StreamSnapshot
    <2>5. Len(Sent') = 1 /\ Sent'[1] = hand' /\ hand' # <<>>
        <3>1. /\ Len(Sent') = Len(Sent) + 1 /\ Sent'[Len(Sent')] = hand' /\ Sent = wire /\ hand' # <<>>
            BY <1>1, <1>2, <2>1, <2>3, StreamSends
        <3>2. Len(Sent) = 0 BY <1>2, <3>1
        <3> QED BY <3>1, <3>2
    <2>6. Stream!Receiving' BY <2>1 DEF Stream!Receiving
    <2>7. Stream!TypeOK' BY <1>1, <1>2, <2>1, <2>3, <2>5 DEF Stream!TypeOK
    <2>8. Together' BY <1>1, <1>2, <2>1, <2>6 DEF Together
    <2>9. Answers' /\ Past'
        <3>1. ~Before(Stream!Here, Stream!Here) BY <1>1, StreamTyped DEF Before
        <3> QED BY <1>2, <2>3, <2>4, <2>5, <3>1 DEF Answers, Past, Before
    <2>10. Forwards' BY <1>1, <1>2, <2>3, <2>4, <2>5 DEF Forwards, Before
    <2>11. Numbered' BY <1>1, <1>2, <2>1 DEF Numbered, Base
    <2>12. wanted = "logs" => Ordered' /\ Complete' BY <1>2, <2>3, <2>5 DEF Ordered, Complete
    <2>13. Marked' BY <1>2 DEF Marked
    <2> QED BY <1>1, <1>2, <2>7, <2>8, <2>9, <2>10, <2>11, <2>12, <2>13 DEF StreamInv
<1> QED BY <1>3, <1>4

\* A frame that is made goes on the wire.
LEMMA StreamWrite ==
    ASSUME Stream!LimitAssumption, Stream!UserAssumption, StreamInv, Stream!Write
    PROVE  StreamInv'
<1>1. /\ Stream!TypeOK /\ Together /\ Answers /\ Past /\ Forwards /\ Numbered /\ shown.owner # Other
      /\ wanted = "logs" => Ordered /\ Marked /\ Complete
    BY DEF StreamInv
<1>2. /\ handler = "writing" /\ handler' = "streaming" /\ Len(wire) < WireLimit
      /\ wire' = Append(wire, hand) /\ hand' = <<>>
      /\ UNCHANGED <<inst, seq, slot, lastOwner, logs, ring, lagged, wanted, client, last, shown, records, due>>
    BY DEF Stream!Write
<1>3. hand \in Stream!Frames BY <1>1, <1>2 DEF Stream!TypeOK
<1>4. Sent' = Sent /\ (Stream!Receiving' <=> Stream!Receiving) /\ Base' = Base
    BY <1>2 DEF Sent, Stream!Receiving, Base
<1>5. wire' \in Seq(Stream!Frames) /\ Len(wire') <= WireLimit /\ wire' # <<>>
    BY <1>1, <1>2, <1>3 DEF Stream!TypeOK, Stream!LimitAssumption
<1>6. Stream!TypeOK' BY <1>1, <1>2, <1>5 DEF Stream!TypeOK
<1>7. Together' BY <1>1, <1>2, <1>4, <1>5 DEF Together
<1>8. Answers' /\ Past' /\ Forwards' /\ Numbered'
    BY <1>1, <1>2, <1>4 DEF Answers, Past, Forwards, Before, Numbered
<1>9. wanted' = "logs" => Ordered' /\ Marked' /\ Complete'
    BY <1>1, <1>2, <1>4 DEF Ordered, Marked, Complete, Missed
<1> QED BY <1>1, <1>2, <1>6, <1>7, <1>8, <1>9 DEF StreamInv

\* The next event of the channel, or the end of the stream.
LEMMA StreamForward ==
    ASSUME Stream!LimitAssumption, Stream!UserAssumption, StreamInv, Stream!Forward
    PROVE  StreamInv'
<1>1. /\ Stream!TypeOK /\ Together /\ Answers /\ Past /\ Forwards /\ Numbered /\ shown.owner # Other
      /\ wanted = "logs" => Ordered /\ Marked /\ Complete
    BY DEF StreamInv
<1> DEFINE e == Head(ring)
<1>2. /\ handler = "streaming" /\ Stream!Receiving /\ ring # <<>>
      /\ UNCHANGED <<inst, seq, slot, lastOwner, logs, wire, wanted, client, last, shown, records, due>>
    BY DEF Stream!Forward, Stream!Receiving
<1>3. CASE ~Stream!MayForward(e) BY <1>2, <1>3, StreamCloses DEF Stream!Forward
<1>4. CASE Stream!MayForward(e)
    <2>1. /\ handler' = "writing" /\ hand' = [type |-> "event", event |-> e] /\ ring' = Tail(ring) /\ lagged' = lagged
        BY <1>4 DEF Stream!Forward
    <2>2. /\ Len(ring) \in Nat /\ 1 \in 1..Len(ring) /\ e = ring[1] /\ e \in Stream!Events
          /\ Len(ring') = Len(ring) - 1 /\ ring' \in Seq(Stream!Events)
          /\ \A i \in 1..Len(ring') : i \in Nat /\ i + 1 \in 1..Len(ring) /\ ring'[i] = ring[i + 1]
          /\ Len(ring') <= RingLimit
        BY <1>1, <1>2, <2>1 DEF Stream!TypeOK, Stream!LimitAssumption
    <2>3. e.owner # Other BY <1>4 DEF Stream!MayForward, Stream!UserAssumption
    <2> HIDE DEF e
    <2>4. hand' \in Stream!Frames /\ hand'.type = "event" /\ hand'.event = e BY <2>1, <2>2 DEF Stream!Frames
    <2>5. /\ Len(Sent') = Len(Sent) + 1 /\ Len(Sent) \in Nat /\ Sent'[Len(Sent')] = hand' /\ Sent = wire
          /\ \A i \in 1..Len(Sent) : i \in Nat /\ i \in 1..Len(Sent') /\ Sent'[i] = Sent[i]
          /\ \A i \in 1..Len(Sent') : i \in Nat /\ (i \in 1..Len(Sent) \/ i = Len(Sent'))
          /\ Len(Sent') \in 1..Len(Sent') /\ Sent' # <<>> /\ hand' # <<>>
          /\ Sent # <<>> => 1 \in 1..Len(Sent)
        BY <1>1, <1>2, <2>1, <2>4, StreamSends
    <2>6. Stream!Receiving' BY <2>1 DEF Stream!Receiving
    <2>7. Stream!TypeOK' BY <1>1, <1>2, <2>1, <2>2, <2>4, <2>5 DEF Stream!TypeOK
    <2>8. Together' BY <1>1, <1>2, <2>1, <2>6 DEF Together
    <2>9. client = "asked" => Sent # <<>> BY <1>1, <1>2, <2>5 DEF Together
    <2>10. Answers'
        <3>1. client = "asked" => Len(Sent') # 1 BY <2>5, <2>9
        <3> QED BY <1>1, <1>2, <2>3, <2>4, <2>5, <3>1 DEF Answers
    <2>11. Forwards' BY <1>1, <1>2, <2>5, <2>9 DEF Forwards, Before
    <2>12. /\ Base \in Nat /\ Base' = Base + 1 /\ Base + 1 <= seq /\ Len(ring) <= seq
           /\ e.at = [inst |-> inst, seq |-> Base + 1]
        <3>1. Len(ring) <= seq /\ e.at = [inst |-> inst, seq |-> Base + 1] BY <1>1, <1>2, <2>2 DEF Numbered
        <3>2. seq \in Nat BY <1>1, StreamTyped
        <3> QED BY <1>2, <2>2, <3>1, <3>2 DEF Base
    <2>15. Past'
        <3>1. ~Before(Stream!Here, hand'.event.at) BY <1>1, <2>4, <2>12, StreamTyped DEF Before
        <3> QED BY <1>1, <1>2, <2>5, <3>1 DEF Past, Before
    <2>13. Numbered'
        <3>1. Len(ring') <= seq' BY <1>1, <1>2, <2>2, <2>12, StreamTyped
        <3>2. ASSUME NEW i \in 1..Len(ring') PROVE ring'[i].at = [inst |-> inst, seq |-> Base' + i]
            <4>1. ring[i + 1].at = [inst |-> inst, seq |-> Base + (i + 1)] BY <1>1, <1>2, <2>2 DEF Numbered
            <4>2. Base' + i = Base + (i + 1) BY <2>2, <2>12
            <4> QED BY <2>2, <4>1, <4>2
        <3> QED BY <1>2, <3>1, <3>2 DEF Numbered
    <2>14. ASSUME wanted' = "logs" PROVE Ordered' /\ Marked' /\ Complete'
        <3>1. Ordered /\ Marked /\ Complete BY <1>1, <1>2, <2>14
        <3>2. /\ \A i \in 1..Len(Sent) : Sent[i].type = "event" => Sent[i].event.at.seq \in Nat
              /\ last # <<>> => last[1].seq \in Nat
            BY <1>1, StreamTyped
        <3>3. \A n \in Nat : n <= Base => n <= Base' /\ n < Base + 1 BY <2>12
        <3>4. hand'.event.at.inst = inst /\ hand'.event.at.seq = Base + 1 /\ Base + 1 <= Base' BY <2>4, <2>12
        <3>5. Ordered'
            <4>1. ASSUME NEW i \in 1..Len(Sent')
                  PROVE  \/ i \in 1..Len(Sent) /\ Sent'[i] = Sent[i]
                         \/ Sent'[i] = hand' /\ \A j \in 1..i - 1 : j \in 1..Len(Sent) /\ Sent'[j] = Sent[j]
                BY <2>5
            <4>2. \A i \in 1..Len(Sent) : \A j \in 1..i - 1 : j \in 1..Len(Sent) /\ Sent'[j] = Sent[j] BY <2>5
            <4> HIDE DEF Base
            <4>3. ASSUME NEW i \in 1..Len(Sent'), Sent'[i].type = "event"
                  PROVE  /\ Sent'[i].event.at.inst = inst /\ Sent'[i].event.at.seq <= Base'
                         /\ \A j \in 1..i - 1 :
                              Sent'[j].type = "event" => Sent'[j].event.at.seq < Sent'[i].event.at.seq
                         /\ last # <<>> => last[1].seq < Sent'[i].event.at.seq
                <5>1. CASE i \in 1..Len(Sent) /\ Sent'[i] = Sent[i]
                    BY <1>2, <3>1, <3>2, <3>3, <4>2, <4>3, <5>1 DEF Ordered
                <5>2. CASE Sent'[i] = hand' /\ \A j \in 1..i - 1 : j \in 1..Len(Sent) /\ Sent'[j] = Sent[j]
                    BY <1>2, <3>1, <3>2, <3>3, <3>4, <5>2 DEF Ordered
                <5> QED BY <4>1, <5>1, <5>2
            <4> QED BY <1>2, <3>1, <3>2, <3>3, <4>3 DEF Ordered
        <3>6. Marked'
            <4>1. \A i \in 1..Len(Sent') : Sent'[i].type = "event" /\ Sent'[i].event.at.seq \in due => Sent'[i].event.log
                BY <2>2, <2>4, <2>5, <3>1 DEF Marked
            <4> QED BY <1>2, <2>2, <3>1, <4>1 DEF Marked
        <3>7. ASSUME NEW r \in due
              PROVE  \/ r \in records
                     \/ \E i \in 1..Len(Sent') : Sent'[i].type = "event" /\ Sent'[i].event.at.seq = r
                     \/ r > Base'
                     \/ Missed(r)'
            <4>1. r \in Nat BY <1>1, StreamTyped
            <4>2. CASE r > Base
                <5>1. r = Base + 1 \/ r > Base' BY <2>12, <4>1, <4>2
                <5> QED BY <2>4, <2>5, <3>4, <5>1
            <4>3. CASE Missed(r)
                <5>1. lagged BY <1>2, <4>3 DEF Missed
                <5> QED BY <5>1 DEF Stream!Forward
            <4>4. CASE \E i \in 1..Len(Sent) : Sent[i].type = "event" /\ Sent[i].event.at.seq = r BY <2>5, <4>4
            <4> QED BY <3>1, <4>2, <4>3, <4>4 DEF Complete
        <3>8. Complete' BY <1>2, <3>7 DEF Complete
        <3> QED BY <3>5, <3>6, <3>8
    <2> QED BY <1>1, <1>2, <2>7, <2>8, <2>10, <2>11, <2>13, <2>14, <2>15 DEF StreamInv
<1> QED BY <1>3, <1>4

\* A handler that missed some sends what is current now, or ends the stream.
LEMMA StreamForwardLagged ==
    ASSUME Stream!LimitAssumption, Stream!UserAssumption, StreamInv, Stream!ForwardLagged
    PROVE  StreamInv'
<1>1. /\ Stream!TypeOK /\ Together /\ Answers /\ Past /\ Forwards /\ Numbered /\ shown.owner # Other
    BY DEF StreamInv
<1>2. /\ handler = "streaming" /\ Stream!Receiving
      /\ UNCHANGED <<inst, seq, slot, lastOwner, logs, wire, wanted, client, last, shown, records, due>>
    BY DEF Stream!ForwardLagged, Stream!Receiving
<1>3. CASE ~(Stream!Authorized /\ wanted = "snapshots") BY <1>2, <1>3, StreamCloses DEF Stream!ForwardLagged
<1>4. CASE Stream!Authorized /\ wanted = "snapshots"
    <2>1. handler' = "writing" /\ hand' = Stream!SnapshotFrame /\ lagged' = FALSE /\ ring' = ring
        BY <1>4 DEF Stream!ForwardLagged
    <2>2. hand' \in Stream!Frames /\ hand'.type = "event" /\ hand'.event.owner # Other
        BY <1>1, <1>4, <2>1, StreamSnapshot
    <2>3. /\ Len(Sent') = Len(Sent) + 1 /\ Len(Sent) \in Nat /\ Sent'[Len(Sent')] = hand' /\ Sent = wire
          /\ \A i \in 1..Len(Sent) : i \in Nat /\ i \in 1..Len(Sent') /\ Sent'[i] = Sent[i]
          /\ \A i \in 1..Len(Sent') : i \in Nat /\ (i \in 1..Len(Sent) \/ i = Len(Sent'))
          /\ hand' # <<>>
          /\ Sent # <<>> => 1 \in 1..Len(Sent)
        BY <1>1, <1>2, <2>1, <2>2, StreamSends
    <2>4. Stream!Receiving' BY <2>1 DEF Stream!Receiving
    <2>5. Stream!TypeOK' BY <1>1, <1>2, <2>1, <2>2, <2>3 DEF Stream!TypeOK
    <2>6. Together' BY <1>1, <1>2, <2>1, <2>4 DEF Together
    <2>7. client = "asked" => Sent # <<>> BY <1>1, <1>2, <2>3 DEF Together
    <2>8. Answers' /\ Past'
        <3>1. ~Before(Stream!Here, hand'.event.at)
            BY <1>1, <1>4, <2>1, StreamSnapshot, StreamTyped DEF Before
        <3> QED BY <1>1, <1>2, <1>4, <2>2, <2>3, <3>1 DEF Answers, Past, Before
    <2>9. Forwards' BY <1>1, <1>2, <2>3, <2>7 DEF Forwards, Before
    <2>10. Numbered' BY <1>1, <1>2, <2>1 DEF Numbered, Base
    <2> QED BY <1>1, <1>2, <1>4, <2>5, <2>6, <2>8, <2>9, <2>10 DEF StreamInv
<1> QED BY <1>3, <1>4

\* The client subscribes: a new stream knows nothing.
LEMMA StreamSubscribe ==
    ASSUME Stream!LimitAssumption, Stream!UserAssumption, StreamInv, Stream!Subscribe
    PROVE  StreamInv'
<1>1. /\ Stream!TypeOK /\ Together /\ Answers /\ Past /\ Forwards /\ Numbered /\ shown.owner # Other
    BY DEF StreamInv
<1>2. /\ client = "idle" /\ handler = "none" /\ client' = "asked" /\ last' = <<>> /\ records' = {} /\ due' = {}
      /\ UNCHANGED <<inst, seq, slot, lastOwner, logs, handler, ring, lagged, hand, wire, wanted, shown>>
    BY DEF Stream!Subscribe
<1>3. wire = <<>> /\ Sent' = <<>> /\ ~Stream!Receiving' /\ Len(<<>>) = 0
    BY <1>1, <1>2 DEF Together, Sent, Stream!Receiving
<1>4. Stream!TypeOK' BY <1>1, <1>2 DEF Stream!TypeOK
<1>5. Together' BY <1>1, <1>2, <1>3 DEF Together, Stream!Receiving
<1>6. Answers' /\ Past' BY <1>3 DEF Answers, Past
<1>7. Forwards' BY <1>1, <1>2, <1>3 DEF Forwards, Before
<1>8. Numbered' BY <1>3 DEF Numbered
<1>9. Ordered' /\ Marked' /\ Complete' BY <1>2, <1>3 DEF Ordered, Marked, Complete
<1> QED BY <1>1, <1>2, <1>4, <1>5, <1>6, <1>7, <1>8, <1>9 DEF StreamInv

\* The client drops the stream.
LEMMA StreamDropped ==
    ASSUME Stream!LimitAssumption, Stream!UserAssumption, StreamInv, Stream!Dropped,
           UNCHANGED <<inst, seq, slot, lastOwner, logs, wanted, shown>>
    PROVE  StreamInv'
<1>1. /\ Stream!TypeOK /\ Together /\ Forwards /\ shown.owner # Other
    BY DEF StreamInv
<1>2. /\ client' = "idle" /\ handler' = "none" /\ ring' = <<>> /\ lagged' = FALSE /\ hand' = <<>> /\ wire' = <<>>
      /\ last' = <<>> /\ records' = {} /\ due' = {}
    BY DEF Stream!Dropped
<1>3. Sent' = <<>> /\ ~Stream!Receiving' /\ Len(<<>>) = 0 BY <1>2 DEF Sent, Stream!Receiving
<1>4. Stream!TypeOK'
    <2>1. /\ <<>> \in Seq(Stream!Events) /\ <<>> \in Seq(Stream!Frames) /\ 0 <= RingLimit /\ 0 <= WireLimit
        BY DEF Stream!LimitAssumption
    <2> QED BY <1>1, <1>2, <1>3, <2>1 DEF Stream!TypeOK
<1>5. Together' BY <1>1, <1>2, <1>3 DEF Together
<1>6. Answers' /\ Past' BY <1>3 DEF Answers, Past
<1>7. Forwards' BY <1>1, <1>2, <1>3 DEF Forwards, Before
<1>8. Numbered' BY <1>3 DEF Numbered
<1>9. Ordered' /\ Marked' /\ Complete' BY <1>2, <1>3 DEF Ordered, Marked, Complete
<1> QED BY <1>1, <1>4, <1>5, <1>6, <1>7, <1>8, <1>9 DEF StreamInv

\* A frame is taken: what it stood for, the cursor or the records stand for now.
LEMMA StreamTakes ==
    ASSUME Stream!LimitAssumption, Stream!UserAssumption, StreamInv,
           client \in {"asked", "following"}, client' \in {"following", "fetching"},
           client' = "fetching" => wanted = "snapshots",
           wire # <<>>, wire' = Tail(wire),
           UNCHANGED <<inst, seq, slot, lastOwner, logs, handler, ring, lagged, hand, wanted, due>>,
           last' \in {<<>>} \cup {Stream!Some(p) : p \in Stream!Places},
           shown' \in [at : Stream!Places, owner : Stream!Owners], records' \subseteq 0..MaxSeq,
           shown'.owner # Other, ~Before(Stream!Here, shown'.at),
           wanted = "snapshots" => last' # <<>> /\ ~Before(last'[1], shown'.at),
           wanted = "logs" /\ (Stream!Receiving \/ due # {}) =>
             /\ records \subseteq records'
             /\ Sent[1].type = "logs" => last' = last
             /\ Sent[1].type = "event" =>
                  last' = <<Sent[1].event.at>> /\ (Sent[1].event.log => Sent[1].event.at.seq \in records')
    PROVE  StreamInv'
<1>1. /\ Stream!TypeOK /\ Together /\ Answers /\ Past /\ Forwards /\ Numbered
      /\ wanted = "logs" => Ordered /\ Marked /\ Complete
    BY DEF StreamInv
<1>2. /\ wire' \in Seq(Stream!Frames) /\ Len(wire') <= WireLimit
      /\ 1 \in 1..Len(Sent) /\ Len(Sent') = Len(Sent) - 1 /\ Len(Sent) \in Nat
      /\ \A i \in 1..Len(Sent') : i \in Nat /\ i + 1 \in 1..Len(Sent) /\ Sent'[i] = Sent[i + 1]
      /\ \A i \in 1..Len(Sent) : i # 1 => i - 1 \in 1..Len(Sent') /\ Sent'[i - 1] = Sent[i]
    BY <1>1, StreamPops
<1>3. (Stream!Receiving' <=> Stream!Receiving) /\ Base' = Base BY DEF Stream!Receiving, Base
<1>4. Stream!TypeOK' BY <1>1, <1>2 DEF Stream!TypeOK
<1>5. Together' BY <1>1, <1>3 DEF Together
<1>6. Answers' /\ Past' BY <1>1, <1>2 DEF Answers, Past, Before
<1>7. Forwards' BY DEF Forwards, Before
<1>8. Numbered' BY <1>1, <1>3 DEF Numbered
<1>9. ASSUME wanted' = "logs" PROVE Ordered' /\ Marked' /\ Complete'
    <2>1. Ordered /\ Marked /\ Complete BY <1>1, <1>9
    <2>2. Marked' BY <1>2, <2>1 DEF Marked
    <2>3. CASE ~(Stream!Receiving \/ due # {}) BY <1>3, <2>2, <2>3 DEF Ordered, Complete
    <2>4. CASE Stream!Receiving \/ due # {}
        <3> DEFINE e == Sent[1].event.at
        <3>1. /\ records \subseteq records'
              /\ \/ Sent[1].type = "logs" /\ last' = last
                 \/ /\ Sent[1].type = "event" /\ last' = <<e>> /\ last' # <<>> /\ last'[1] = e
                    /\ Sent[1].event.log => e.seq \in records'
            <4>1. Sent[1].type \in {"logs", "event"} BY <1>1, <1>2, StreamTyped
            <4>2. <<e>> # <<>> /\ <<e>>[1] = e OBVIOUS
            <4> QED BY <1>9, <2>4, <4>1, <4>2
        <3>2. /\ \A i \in 1..Len(Sent) : Sent[i].type = "event" => Sent[i].event.at.seq \in Nat
              /\ last # <<>> => last[1].seq \in Nat
            BY <1>1, StreamTyped
        <3>3. Ordered'
            <4>1. ASSUME NEW i \in 1..Len(Sent'), Sent'[i].type = "event"
                  PROVE  /\ Sent'[i].event.at.inst = inst /\ Sent'[i].event.at.seq <= Base
                         /\ \A j \in 1..i - 1 :
                              Sent'[j].type = "event" => Sent'[j].event.at.seq < Sent'[i].event.at.seq
                         /\ last' # <<>> => last'[1].seq < Sent'[i].event.at.seq
                <5>1. i + 1 \in 1..Len(Sent) /\ Sent'[i] = Sent[i + 1] /\ 1 \in 1..(i + 1) - 1 BY <1>2
                <5>2. \A j \in 1..i - 1 : j + 1 \in 1..(i + 1) - 1 /\ Sent'[j] = Sent[j + 1] BY <1>2
                <5> HIDE DEF e, Base
                <5>3. /\ Sent[i + 1].event.at.inst = inst /\ Sent[i + 1].event.at.seq <= Base
                      /\ \A j \in 1..(i + 1) - 1 :
                           Sent[j].type = "event" => Sent[j].event.at.seq < Sent[i + 1].event.at.seq
                      /\ last # <<>> => last[1].seq < Sent[i + 1].event.at.seq
                    BY <2>1, <2>4, <4>1, <5>1 DEF Ordered
                <5> QED BY <3>1, <5>1, <5>2, <5>3 DEF e
            <4>2. last' # <<>> => last'[1].inst = inst /\ last'[1].seq <= Base
                <5> HIDE DEF Base
                <5> QED BY <1>2, <2>1, <2>4, <3>1 DEF Ordered
            <4> HIDE DEF Base
            <4> QED BY <1>3, <4>1, <4>2 DEF Ordered
        <3>4. ASSUME NEW r \in due
              PROVE  \/ r \in records'
                     \/ \E i \in 1..Len(Sent') : Sent'[i].type = "event" /\ Sent'[i].event.at.seq = r
                     \/ r > Base
                     \/ Missed(r)'
            <4>1. CASE \E i \in 1..Len(Sent) : Sent[i].type = "event" /\ Sent[i].event.at.seq = r
                <5>1. PICK i \in 1..Len(Sent) : Sent[i].type = "event" /\ Sent[i].event.at.seq = r BY <4>1
                <5>2. CASE i = 1
                    <6>1. Sent[1].type = "event" /\ e.seq = r BY <5>1, <5>2
                    <6>2. Sent[1].event.log BY <1>2, <2>1, <6>1 DEF Marked
                    <6> QED BY <3>1, <6>1, <6>2
                <5>3. CASE i # 1
                    <6>1. i - 1 \in 1..Len(Sent') /\ Sent'[i - 1] = Sent[i] BY <1>2, <5>3
                    <6> QED BY <5>1, <6>1
                <5> QED BY <5>2, <5>3
            <4>2. CASE Missed(r) BY <1>2, <3>1, <4>2 DEF Missed
            <4> QED BY <2>1, <3>1, <4>1, <4>2 DEF Complete
        <3>5. Complete' BY <1>3, <3>4 DEF Complete
        <3> QED BY <2>2, <3>3, <3>5
    <2> QED BY <2>3, <2>4
<1> QED BY <1>4, <1>5, <1>6, <1>7, <1>8, <1>9 DEF StreamInv

\* The first frame answers the request.
LEMMA StreamAnswer ==
    ASSUME Stream!LimitAssumption, Stream!UserAssumption, StreamInv, Stream!Answer
    PROVE  StreamInv'
<1>1. /\ Stream!TypeOK /\ Together /\ Answers /\ Past /\ Forwards /\ shown.owner # Other
    BY DEF StreamInv
<1>2. /\ client = "asked" /\ wire # <<>> /\ client' = "following" /\ wire' = Tail(wire)
      /\ UNCHANGED <<inst, seq, slot, lastOwner, logs, handler, ring, lagged, hand, wanted, due>>
    BY DEF Stream!Answer
<1>3. 1 \in 1..Len(Sent) /\ Sent[1] = Head(wire) /\ Sent[1] \in Stream!Frames /\ Sent # <<>>
    BY <1>1, <1>2, StreamPops, Len(<<>>) = 0
<1>4. last = <<>> /\ records = {} BY <1>1, <1>2 DEF Together
<1>5. CASE wanted = "logs"
    <2>1. Sent[1].type = "logs" BY <1>1, <1>2, <1>3, <1>5 DEF Answers
    <2>2. records' = Sent[1].backlog /\ UNCHANGED <<shown, last>> BY <1>3, <1>5 DEF Stream!Answer
    <2>3. records' \subseteq 0..MaxSeq BY <1>3, <2>1, <2>2, StreamFrames
    <2>4. /\ last' \in {<<>>} \cup {Stream!Some(p) : p \in Stream!Places}
          /\ shown' \in [at : Stream!Places, owner : Stream!Owners]
          /\ shown'.owner # Other /\ ~Before(Stream!Here, shown'.at)
        BY <1>1, <2>2 DEF Stream!TypeOK, Forwards
    <2> QED BY <1>2, <1>4, <1>5, <2>1, <2>2, <2>3, <2>4, StreamTakes
<1>6. CASE wanted # "logs"
    <2> DEFINE e == Sent[1].event
    <2>1. wanted = "snapshots" /\ Sent[1].type = "event" BY <1>1, <1>2, <1>3, <1>6 DEF Answers, Stream!TypeOK
    <2>2. e \in Stream!Events /\ e.owner # Other /\ ~Before(Stream!Here, e.at)
        BY <1>1, <1>3, <2>1, StreamFrames DEF Answers, Past
    <2>3. e.at \in Stream!Places /\ e.owner \in Stream!Owners BY <2>2, StreamEvents
    <2> HIDE DEF e
    <2>4. shown' = [at |-> e.at, owner |-> e.owner] /\ last' = <<e.at>> /\ records' = records
        BY <1>3, <1>6 DEF Stream!Answer, Stream!Show, Stream!Some, e
    <2>5. last' # <<>> /\ last'[1] = e.at /\ ~Before(e.at, e.at)
        <3>0. e.at.inst \in Nat /\ e.at.seq \in Nat BY <2>2, StreamEvents
        <3>1. ~Before(e.at, e.at) BY <3>0 DEF Before
        <3>2. <<e.at>> # <<>> /\ <<e.at>>[1] = e.at OBVIOUS
        <3> QED BY <2>4, <3>1, <3>2
    <2>6. /\ last' \in {<<>>} \cup {Stream!Some(p) : p \in Stream!Places} /\ records' \subseteq 0..MaxSeq
          /\ shown' \in [at : Stream!Places, owner : Stream!Owners]
          /\ shown'.owner # Other /\ ~Before(Stream!Here, shown'.at)
          /\ last' # <<>> /\ ~Before(last'[1], shown'.at)
        BY <1>1, <2>2, <2>3, <2>4, <2>5 DEF Stream!TypeOK, Stream!Some
    <2> QED BY <1>2, <1>6, <2>1, <2>6, StreamTakes
<1> QED BY <1>5, <1>6

\* What the client reads next is an event, and follows what it has if the
\* stream is of the service that is there.
LEMMA StreamReads ==
    ASSUME Stream!LimitAssumption, Stream!UserAssumption, StreamInv, Stream!Reads
    PROVE  /\ client = "following" /\ wire # <<>> /\ UNCHANGED <<inst, seq, slot, lastOwner, logs, wanted>>
           /\ Stream!Incoming = Sent[1].event /\ Sent[1].type = "event" /\ Stream!Incoming \in Stream!Events
           /\ Stream!Incoming.owner # Other /\ ~Before(Stream!Here, Stream!Incoming.at)
           /\ wanted = "snapshots" => last # <<>> /\ ~Before(last[1], shown.at)
           /\ wanted = "logs" /\ (Stream!Receiving \/ due # {}) /\ last # <<>> =>
                last[1].seq < Stream!Incoming.at.seq
<1>1. /\ Stream!TypeOK /\ Together /\ Answers /\ Past /\ Forwards /\ (wanted = "logs" => Ordered)
    BY DEF StreamInv
<1>2. client = "following" /\ wire # <<>> /\ UNCHANGED <<inst, seq, slot, lastOwner, logs, wanted>>
    BY DEF Stream!Reads
<1>3. 1 \in 1..Len(Sent) /\ Sent[1] = Head(wire) /\ Sent[1] \in Stream!Frames
    <2>1. wire \in Seq(Stream!Frames) BY <1>1 DEF Stream!TypeOK
    <2>2. 1 \in 1..Len(wire) /\ Head(wire) = wire[1] BY <1>2, <2>1
    <2> QED BY <1>1, <2>2, StreamSent
<1>4. Sent[1].type = "event" BY <1>1, <1>2, <1>3 DEF Answers
<1>5. Sent[1].event \in Stream!Events BY <1>3, <1>4, StreamFrames
<1> QED BY <1>1, <1>2, <1>3, <1>4, <1>5 DEF Stream!Incoming, Answers, Past, Forwards, Together, Ordered

\* An event that is known already is skipped: in a log stream there is none.
LEMMA StreamSkip ==
    ASSUME Stream!LimitAssumption, Stream!UserAssumption, StreamInv, Stream!Skip
    PROVE  StreamInv'
<1>1. /\ Stream!TypeOK /\ Together /\ Forwards /\ shown.owner # Other
    BY DEF StreamInv
<1>2. /\ Stream!Known /\ wire' = Tail(wire) /\ UNCHANGED <<handler, ring, lagged, hand, due>>
      /\ UNCHANGED <<client, last, shown, records>>
    BY DEF Stream!Skip, Stream!Pops
<1>3. ~(wanted = "logs" /\ (Stream!Receiving \/ due # {}))
    <2>1. last # <<>> /\ Stream!Incoming.at.seq <= last[1].seq /\ last[1].seq \in Nat
        BY <1>1, <1>2, StreamTyped DEF Stream!Known
    <2>2. Stream!Incoming.at.seq \in Nat BY StreamReads, StreamEvents DEF Stream!Skip
    <2> QED BY <2>1, <2>2, StreamReads DEF Stream!Skip
<1>4. /\ last' \in {<<>>} \cup {Stream!Some(p) : p \in Stream!Places}
      /\ shown' \in [at : Stream!Places, owner : Stream!Owners] /\ records' \subseteq 0..MaxSeq
      /\ shown'.owner # Other /\ ~Before(Stream!Here, shown'.at)
    BY <1>1, <1>2 DEF Stream!TypeOK, Forwards
<1>5. wanted = "snapshots" => last' # <<>> /\ ~Before(last'[1], shown'.at)
    BY <1>2, StreamReads DEF Stream!Skip
<1>6. client = "following" /\ wire # <<>> /\ UNCHANGED <<inst, seq, slot, lastOwner, logs, wanted>>
    BY StreamReads DEF Stream!Skip
<1> QED BY <1>2, <1>3, <1>4, <1>5, <1>6, StreamTakes

\* The next event is taken.
LEMMA StreamAccept ==
    ASSUME Stream!LimitAssumption, Stream!UserAssumption, StreamInv, Stream!Accept
    PROVE  StreamInv' /\ ~Before(shown'.at, shown.at)
<1> DEFINE e == Stream!Incoming
<1>1. /\ Stream!TypeOK /\ Together /\ Forwards /\ shown.owner # Other /\ records \subseteq 0..MaxSeq
      /\ shown \in [at : Stream!Places, owner : Stream!Owners]
    BY DEF StreamInv, Stream!TypeOK
<1>2. /\ client = "following" /\ wire # <<>> /\ UNCHANGED <<inst, seq, slot, lastOwner, logs, wanted>>
      /\ e = Sent[1].event /\ Sent[1].type = "event" /\ e \in Stream!Events
      /\ e.owner # Other /\ ~Before(Stream!Here, e.at)
      /\ wanted = "snapshots" => last # <<>> /\ ~Before(last[1], shown.at)
    BY StreamReads DEF Stream!Accept
<1>3. /\ e.at \in Stream!Places /\ e.owner \in Stream!Owners /\ e.log \in BOOLEAN
      /\ e.at.inst \in Nat /\ e.at.seq \in Nat /\ e.at.seq \in 0..MaxSeq
    BY <1>2, StreamEvents
<1>4. last # <<>> => e.at = [last[1] EXCEPT !.seq = @ + 1] BY DEF Stream!Accept, Stream!Follows
<1>5. /\ wire' = Tail(wire) /\ UNCHANGED <<handler, ring, lagged, hand, due, client>>
      /\ last' = <<e.at>>
      /\ \/ e.log /\ wanted = "logs" /\ records' = records \cup {e.at.seq} /\ UNCHANGED shown
         \/ ~e.log /\ wanted = "snapshots" /\ shown' = [at |-> e.at, owner |-> e.owner] /\ UNCHANGED records
         \/ e.log # (wanted = "logs") /\ UNCHANGED <<shown, records>>
    BY DEF Stream!Accept, Stream!Pops, Stream!Show, Stream!Some
<1> HIDE DEF e
<1>6. last' # <<>> /\ last'[1] = e.at
    <2>1. <<e.at>> # <<>> /\ <<e.at>>[1] = e.at OBVIOUS
    <2> QED BY <1>5, <2>1
<1>7. wanted = "snapshots" => ~Before(e.at, shown.at)
    <2> SUFFICES ASSUME wanted = "snapshots" PROVE ~Before(e.at, shown.at) OBVIOUS
    <2>1. last[1] \in Stream!Places /\ last[1].seq \in Nat /\ last[1].inst \in Nat BY <1>1, <1>2, StreamTyped
    <2>2. e.at.inst = last[1].inst /\ e.at.seq = last[1].seq + 1 BY <1>2, <1>4, <2>1 DEF Stream!Places
    <2>3. shown.at.inst \in Nat /\ shown.at.seq \in Nat BY <1>1, StreamTyped
    <2> QED BY <1>2, <2>1, <2>2, <2>3 DEF Before
<1>8. ~Before(e.at, e.at) /\ ~Before(shown.at, shown.at)
    BY <1>1, <1>3, StreamTyped DEF Before
<1>9. /\ last' \in {<<>>} \cup {Stream!Some(p) : p \in Stream!Places}
      /\ shown' \in [at : Stream!Places, owner : Stream!Owners] /\ records' \subseteq 0..MaxSeq
      /\ shown'.owner # Other
    <2>1. last' \in {<<>>} \cup {Stream!Some(p) : p \in Stream!Places} BY <1>3, <1>5 DEF Stream!Some
    <2>2. shown' = shown \/ shown' = [at |-> e.at, owner |-> e.owner] BY <1>5
    <2>3. records' = records \/ records' = records \cup {e.at.seq} BY <1>5
    <2>4. records' \subseteq 0..MaxSeq BY <1>1, <1>3, <2>3
    <2>5. /\ shown' \in [at : Stream!Places, owner : Stream!Owners] /\ shown'.owner # Other
        <3>1. CASE shown' = shown BY <1>1, <3>1
        <3>2. CASE shown' = [at |-> e.at, owner |-> e.owner] BY <1>2, <1>3, <3>2
        <3> QED BY <2>2, <3>1, <3>2
    <2> QED BY <2>1, <2>4, <2>5
<1>10. ~Before(Stream!Here, shown'.at)
    BY <1>1, <1>2, <1>5 DEF Forwards
<1>11. wanted = "snapshots" => ~Before(e.at, shown'.at) BY <1>5, <1>7, <1>8
<1>12. wanted = "logs" => records \subseteq records' /\ (e.log => e.at.seq \in records')
    BY <1>3, <1>5
<1>13. StreamInv'
    BY <1>2, <1>5, <1>6, <1>9, <1>10, <1>11, <1>12, StreamTakes
<1> QED BY <1>5, <1>7, <1>8, <1>13

\* An event is missing: the stream ends, or the client asks what is current.
LEMMA StreamGap ==
    ASSUME Stream!LimitAssumption, Stream!UserAssumption, StreamInv, Stream!Gap
    PROVE  StreamInv' /\ UNCHANGED shown
<1>1. /\ Stream!TypeOK /\ Together /\ Forwards /\ shown.owner # Other /\ records \subseteq 0..MaxSeq
      /\ shown \in [at : Stream!Places, owner : Stream!Owners]
      /\ last \in {<<>>} \cup {Stream!Some(p) : p \in Stream!Places} /\ wanted \in {"snapshots", "logs"}
    BY DEF StreamInv, Stream!TypeOK
<1>2. /\ client = "following" /\ wire # <<>> /\ UNCHANGED <<inst, seq, slot, lastOwner, logs, wanted>>
      /\ wanted = "snapshots" => last # <<>> /\ ~Before(last[1], shown.at)
    BY StreamReads DEF Stream!Gap
<1>3. CASE wanted = "logs" BY <1>2, <1>3, StreamDropped DEF Stream!Gap
<1>4. CASE wanted # "logs"
    <2>1. /\ wire' = Tail(wire) /\ UNCHANGED <<handler, ring, lagged, hand, due>>
          /\ client' = "fetching" /\ UNCHANGED <<last, shown, records>>
        BY <1>4 DEF Stream!Gap, Stream!Pops
    <2> QED BY <1>1, <1>2, <1>4, <2>1, StreamTakes DEF Forwards
<1> QED BY <1>3, <1>4

\* The current snapshot is fetched.
LEMMA StreamFetch ==
    ASSUME Stream!LimitAssumption, Stream!UserAssumption, StreamInv, Stream!Fetch
    PROVE  StreamInv' /\ ~Before(shown'.at, shown.at)
<1>1. /\ Stream!TypeOK /\ Together /\ Answers /\ Past /\ Forwards /\ Numbered
    BY DEF StreamInv
<1>2. /\ client = "fetching" /\ client' = "following" /\ Stream!Authorized
      /\ shown' = [at |-> Stream!Here, owner |-> Stream!Visible] /\ last' = <<Stream!Here>>
      /\ UNCHANGED <<inst, seq, slot, lastOwner, logs, handler, ring, lagged, hand, wire, wanted, records, due>>
    BY DEF Stream!Fetch, Stream!Show, Stream!Some
<1>3. wanted = "snapshots" BY <1>1, <1>2 DEF Together
<1>4. Stream!Visible \in Stream!Owners /\ Stream!Visible # Other /\ Stream!Here \in Stream!Places
    BY <1>1, <1>2, StreamSnapshot
<1>5. Sent' = Sent /\ (Stream!Receiving' <=> Stream!Receiving) BY <1>2 DEF Sent, Stream!Receiving
<1>6. ~Before(Stream!Here, Stream!Here) BY <1>1, StreamTyped DEF Before
<1>7. Stream!Here' = Stream!Here BY <1>2
<1> HIDE DEF Stream!Here
<1>8. last' # <<>> /\ last'[1] = Stream!Here /\ shown'.at = Stream!Here /\ shown'.owner = Stream!Visible
    <2>1. <<Stream!Here>> # <<>> /\ <<Stream!Here>>[1] = Stream!Here OBVIOUS
    <2> QED BY <1>2, <2>1
<1>9. Stream!TypeOK'
    <2>1. /\ last' \in {<<>>} \cup {Stream!Some(p) : p \in Stream!Places}
          /\ shown' \in [at : Stream!Places, owner : Stream!Owners]
        BY <1>2, <1>4 DEF Stream!Some
    <2> QED BY <1>1, <1>2, <2>1 DEF Stream!TypeOK
<1>10. Together' BY <1>1, <1>2, <1>3, <1>5, <1>8 DEF Together
<1>11. Answers' /\ Past' /\ Numbered'
    BY <1>1, <1>2, <1>5, <1>7 DEF Answers, Past, Numbered, Base, Before
<1>12. Forwards' BY <1>2, <1>6, <1>7, <1>8 DEF Forwards, Before
<1>13. ~Before(Stream!Here, shown.at) BY <1>1 DEF Forwards
<1> QED BY <1>2, <1>3, <1>4, <1>8, <1>9, <1>10, <1>11, <1>12, <1>13 DEF StreamInv

\* What the answer to the request shows.
LEMMA StreamShows ==
    ASSUME Stream!LimitAssumption, Stream!UserAssumption, StreamInv, Stream!Answer
    PROVE  UNCHANGED shown \/ ~Before(shown'.at, shown.at)
<1>1. Stream!TypeOK /\ Forwards BY DEF StreamInv
<1>2. client = "asked" /\ wire # <<>> BY DEF Stream!Answer
<1>3. Sent[1] = Head(wire) /\ Sent # <<>>
    <2>1. wire \in Seq(Stream!Frames) BY <1>1 DEF Stream!TypeOK
    <2>2. 1 \in 1..Len(wire) /\ Head(wire) = wire[1] BY <1>2, <2>1
    <2>3. 1 \in 1..Len(Sent) /\ Sent[1] = wire[1] BY <1>1, <2>2, StreamSent
    <2> QED BY <2>2, <2>3, Len(<<>>) = 0
<1>4. UNCHANGED shown \/ (wanted = "snapshots" /\ shown'.at = Sent[1].event.at)
    BY <1>1, <1>3 DEF Stream!Answer, Stream!Show, Stream!TypeOK
<1> QED BY <1>1, <1>2, <1>3, <1>4 DEF Forwards

\* A service that has just started, and nobody who follows.
LEMMA StreamInit ==
    ASSUME Stream!LimitAssumption, Stream!UserAssumption, Stream!Init
    PROVE  StreamInv
<1> USE DEF Stream!Init, Stream!LimitAssumption, Stream!UserAssumption
<1>1. /\ <<>> \in Seq(Stream!Events) /\ <<>> \in Seq(Stream!Frames) /\ Len(<<>>) = 0
      /\ 0 <= RingLimit /\ 0 <= WireLimit /\ inst \in 1..MaxInst /\ seq \in 0..MaxSeq
    OBVIOUS
<1>2. Sent = <<>> /\ ~Stream!Receiving BY DEF Sent, Stream!Receiving
<1>3. shown \in [at : Stream!Places, owner : Stream!Owners]
    <2>1. [inst |-> 1, seq |-> 0] \in Stream!Places BY DEF Stream!Places
    <2> QED BY <2>1 DEF Stream!Owners
<1>4. Stream!TypeOK BY <1>1, <1>3 DEF Stream!TypeOK, Stream!Owners
<1>5. Together /\ Answers /\ Past /\ Numbered BY <1>1, <1>2 DEF Together, Answers, Past, Numbered
<1>6. Forwards BY <1>1, <1>2 DEF Forwards, Before
<1>7. Ordered /\ Marked /\ Complete BY <1>1, <1>2 DEF Ordered, Marked, Complete
<1> QED BY <1>4, <1>5, <1>6, <1>7 DEF StreamInv

\* Steps of the service, the handler and the client keep them together, and none
\* of them shows what is older.
LEMMA StreamNext ==
    ASSUME Stream!LimitAssumption, Stream!UserAssumption, StreamInv, [Stream!Next]_Stream!vars
    PROVE  StreamInv' /\ (UNCHANGED shown \/ ~Before(shown'.at, shown.at))
<1>1. CASE Stream!Service
    BY <1>1, StreamService, StreamRestart
    DEF Stream!Service, Stream!Reserve, Stream!Changes, Stream!Releases, Stream!Publish, Stream!Traffic, Stream!Restart
<1>2. CASE Stream!Handler
    BY <1>2, StreamRegister, StreamDispatch, StreamForward, StreamForwardLagged, StreamWrite
    DEF Stream!Handler, Stream!Register, Stream!Dispatch, Stream!Forward, Stream!ForwardLagged, Stream!Write
<1>3. CASE Stream!WriteFails
    BY <1>3, StreamCloses DEF Stream!WriteFails, Stream!Receiving
<1>4. CASE Stream!Answer BY <1>4, StreamAnswer, StreamShows
<1>5. CASE Stream!Skip BY <1>5, StreamSkip DEF Stream!Skip
<1>6. CASE Stream!Accept \/ Stream!Gap \/ Stream!Fetch BY <1>6, StreamAccept, StreamGap, StreamFetch
<1>7. CASE Stream!Broken \/ Stream!Leaves \/ Stream!FetchFails
    BY <1>7, StreamDropped DEF Stream!Broken, Stream!Leaves, Stream!FetchFails
<1>8. CASE Stream!Subscribe BY <1>8, StreamSubscribe DEF Stream!Subscribe
<1>9. CASE UNCHANGED Stream!vars
    <2>1. /\ UNCHANGED <<inst, seq, slot, lastOwner, logs, handler, ring, lagged, hand, wire, wanted>>
          /\ UNCHANGED <<client, last, shown, records, due>>
        BY <1>9
    <2>2. Sent' = Sent /\ Base' = Base /\ (Stream!Receiving' <=> Stream!Receiving)
        BY <2>1 DEF Sent, Base, Stream!Receiving
    <2>3. Stream!TypeOK' BY <2>1 DEF StreamInv, Stream!TypeOK
    <2>4. Together' /\ Answers' /\ Past' /\ Forwards' /\ Numbered'
        BY <2>1, <2>2 DEF StreamInv, Together, Answers, Past, Forwards, Numbered, Before
    <2>5. wanted = "logs" => Ordered' /\ Marked' /\ Complete'
        BY <2>1, <2>2 DEF StreamInv, Ordered, Marked, Complete, Missed
    <2> QED BY <2>1, <2>3, <2>4, <2>5 DEF StreamInv
<1> QED BY <1>1, <1>2, <1>3, <1>4, <1>5, <1>6, <1>7, <1>8, <1>9 DEF Stream!Next, Stream!Client

\* The service, the handler and the client of a stream fit together at all times.
THEOREM StreamInvariant ==
    ASSUME Stream!LimitAssumption, Stream!UserAssumption
    PROVE  Stream!Spec => []StreamInv
<1>1. Stream!Init => StreamInv BY StreamInit
<1>2. StreamInv /\ [Stream!Next]_Stream!vars => StreamInv' BY StreamNext
<1> QED BY <1>1, <1>2, PTL DEF Stream!Spec

\* A log stream has no holes, and a subscriber sees its own sessions only.
THEOREM StreamLogFaithful ==
    ASSUME Stream!LimitAssumption, Stream!UserAssumption
    PROVE  Stream!Spec => []LogFaithful
<1>1. StreamInv => NoHoles
    <2> SUFFICES ASSUME StreamInv, client = "following", wanted = "logs", last # <<>>, last[1].inst = inst,
                        NEW r \in due, r <= last[1].seq
                 PROVE  r \in records
        BY DEF NoHoles
    <2>1. Stream!TypeOK /\ Ordered /\ Complete BY DEF StreamInv
    <2>2. r \in Nat /\ last[1].seq \in Nat BY <2>1, StreamTyped
    <2>3. last[1].seq <= Base BY <2>1 DEF Ordered
    <2>4. ~Missed(r) BY <2>2 DEF Missed
    <2>5. ~(\E i \in 1..Len(Sent) : Sent[i].type = "event" /\ Sent[i].event.at.seq = r)
        BY <2>1, <2>2 DEF Ordered
    <2>6. ~(r > Base)
        <3>1. Base \in Int BY <2>1, StreamTyped DEF Base, Stream!TypeOK
        <3> QED BY <2>2, <2>3, <3>1
    <2> QED BY <2>1, <2>4, <2>5, <2>6 DEF Complete
<1>2. StreamInv => OwnSessionsOnly
    <2> SUFFICES ASSUME StreamInv, NEW i \in 1..Len(wire), wire[i].type = "event"
                 PROVE  wire[i].event.owner # Other
        BY DEF StreamInv, OwnSessionsOnly
    <2>1. i \in 1..Len(Sent) /\ Sent[i] = wire[i] BY StreamSent DEF StreamInv
    <2> QED BY <2>1 DEF StreamInv, Answers
<1> QED BY <1>1, <1>2, StreamInvariant, PTL DEF LogFaithful

\* What is shown never goes back: over gaps, snapshots fetched meanwhile, new
\* subscriptions and restarts of the service.
THEOREM StreamNeverBackwards ==
    ASSUME Stream!LimitAssumption, Stream!UserAssumption
    PROVE  Stream!Spec => NeverBackwards
<1>1. StreamInv /\ [Stream!Next]_Stream!vars => [~Before(shown'.at, shown.at)]_shown
    <2> SUFFICES ASSUME StreamInv, Stream!Next PROVE ~Before(shown'.at, shown.at) OBVIOUS
    <2>1. ~Before(shown.at, shown.at) BY StreamTyped DEF StreamInv, Before
    <2> QED BY <2>1, StreamNext
<1> QED BY <1>1, StreamInvariant, PTL DEF Stream!Spec, NeverBackwards
=============================================================================
