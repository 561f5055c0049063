------------------------------ MODULE Lifetime ------------------------------
(***************************************************************************)
(* Who may touch the network across crashes and restarts of the service    *)
(* (crates/service/src/lifetime.rs with the start of run_with_ready in     *)
(* daemon.rs, on Unix).                                                    *)
(*                                                                         *)
(* Three lock files are locked with flock.  A lock belongs to an open file *)
(* description: it is held as long as any process has a descriptor of that *)
(* description, a child inherits every descriptor that is not close-on-    *)
(* exec, and nobody ever unlocks explicitly.  A lock is therefore the set  *)
(* of live processes that share the locked description.                    *)
(*                                                                         *)
(* A process is a pair of its role and the instance it descends from:      *)
(*   "main"   the service, or the uninstaller that recovers offline        *)
(*   "worker" the private tunnel worker,  "helper" its descendants         *)
(*   "tool"   a program a restoration runs, and its descendants            *)
(* Any process can die at any time; nothing else is known to die with it.  *)
(***************************************************************************)
EXTENDS Naturals, FiniteSets

CONSTANTS
    Instances,   \* starts of the service and of the uninstaller
    Installers   \* those that are offline_recover_all

ASSUME InstallerAssumption == Installers \subseteq Instances

Roles == {"main", "worker", "helper", "tool"}
Procs == Roles \X Instances

VARIABLES
    phase,      \* phase[i]: what the main process of i is doing
    rec,        \* rec[i]: its call of recover(): "none", "locking" or "running"
    uncertain,  \* uncertain[i]: Session.quiescence_blocked
    live,       \* the live processes other than the main ones
    mutator,    \* holders of mutator-lifetime.lock
    recovery,   \* holders of recovery-lifetime.lock
    lease,      \* holders of worker-lifetime.lock
    journal     \* some journal is on disk

locks == <<mutator, recovery, lease>>
vars == <<phase, rec, uncertain, live, locks, journal>>

Main(i) == <<"main", i>>
Serving(i) == phase[i] \notin {"absent", "acquiring", "gone"}

\* The processes that exist and may have a descriptor of a lock file.
Alive == live \cup {Main(i) : i \in {j \in Instances : Serving(j)}}

Phases == {"absent", "acquiring", "startup", "open", "tunnel", "settling", "quiescing", "closed", "gone"}

\* A lock is held by processes that exist, and by nothing else.
TypeOK ==
    /\ phase \in [Instances -> Phases]
    /\ rec \in [Instances -> {"none", "locking", "running"}]
    /\ uncertain \in [Instances -> BOOLEAN]
    /\ live \subseteq {p \in Procs : p[1] # "main"}
    /\ mutator \subseteq Alive /\ recovery \subseteq Alive /\ lease \subseteq Alive
    /\ journal \in BOOLEAN

Init ==
    /\ phase = [i \in Instances |-> "absent"] /\ rec = [i \in Instances |-> "none"]
    /\ uncertain = [i \in Instances |-> FALSE]
    /\ live = {} /\ mutator = {} /\ recovery = {} /\ lease = {}
    /\ journal \in BOOLEAN

\* Fault: the descriptor stays close-on-exec, so children do not share the lock.
InheritedNot(holders, parent, child) == holders

\* exec with the descriptor inheritable: the child shares its parent's lock.
Inherited(holders, parent, child) ==
    IF parent \in holders THEN holders \cup {child} ELSE holders

----------------------------------------------------------------------------
(* Start                                                                   *)

\* The service manager or the uninstaller starts an instance, at any time.
Launch(i) ==
    /\ phase[i] = "absent" /\ phase' = [phase EXCEPT ![i] = "acquiring"]
    /\ UNCHANGED <<rec, uncertain, live, locks, journal>>

\* DaemonLease::acquire, and the head of offline_recover_all: the lock within
\* thirty seconds, or the instance ends.  Recovery starts at once.
AcquireMutator(i) ==
    /\ phase[i] = "acquiring"
    /\ \/ /\ mutator = {} /\ mutator' = {Main(i)}
          /\ phase' = [phase EXCEPT ![i] = "startup"] /\ rec' = [rec EXCEPT ![i] = "locking"]
       \/ phase' = [phase EXCEPT ![i] = "gone"] /\ UNCHANGED <<mutator, rec>>
    /\ UNCHANGED <<uncertain, live, recovery, lease, journal>>

----------------------------------------------------------------------------
(* recover()                                                               *)

\* Where the caller goes when recover() returns.  A tunnel whose own error asks
\* for recovery closes the service even if its journal could be restored.
After(i, clean) ==
    IF i \in Installers THEN {"gone"}
    ELSE {next \in {"open", "closed"} :
            /\ next = "open" => clean /\ phase[i] # "quiescing"
            /\ next = "closed" => ~(clean /\ phase[i] = "startup")}

\* The main process of i ends: its descriptors are closed.
Close(i) ==
    /\ mutator' = mutator \ {Main(i)} /\ recovery' = recovery \ {Main(i)} /\ lease' = lease \ {Main(i)}

\* recover() returns: the recovery description is closed, and for the
\* uninstaller, whose process ends, the other one too.
Return(i, clean) ==
    /\ rec' = [rec EXCEPT ![i] = "none"]
    /\ \E next \in After(i, clean) : phase' = [phase EXCEPT ![i] = next]
    /\ recovery' = recovery \ {Main(i)}
    /\ mutator' = IF i \in Installers THEN mutator \ {Main(i)} ELSE mutator
    /\ UNCHANGED lease

\* A fresh description is locked within thirty seconds, or recovery fails.
LockRecovery(i) ==
    /\ rec[i] = "locking"
    /\ \/ /\ recovery = {} /\ recovery' = {Main(i)}
          /\ rec' = [rec EXCEPT ![i] = "running"]
          /\ UNCHANGED <<phase, mutator, lease>>
       \/ Return(i, FALSE)
    /\ UNCHANGED <<uncertain, live, journal>>

\* A restoration runs a program; it inherits what the main process shares.
RunTool(i) ==
    /\ rec[i] = "running" /\ <<"tool", i>> \notin live
    /\ live' = live \cup {<<"tool", i>>}
    /\ mutator' = Inherited(mutator, Main(i), <<"tool", i>>)
    /\ recovery' = Inherited(recovery, Main(i), <<"tool", i>>)
    /\ UNCHANGED <<phase, rec, uncertain, lease, journal>>

\* The probe, after the main process closed its own descriptor, can be locked.
ToolsGone(i) == recovery \ {Main(i)} = {}

\* The operation ends, with the journals gone or not; a program that is still
\* alive makes the recovery fail whatever its result was.
Restored(i) ==
    /\ rec[i] = "running"
    /\ \E clean \in BOOLEAN :
        /\ journal' \in IF clean THEN {FALSE} ELSE {journal, FALSE}
        /\ Return(i, clean /\ ToolsGone(i))
    /\ UNCHANGED <<uncertain, live>>

----------------------------------------------------------------------------
(* A tunnel of the service                                                 *)

\* supervise_inner: WorkerLease::prepare and the launch.  The worker inherits
\* the lease and the service's own lock; the service drops its copy of the lease.
StartTunnel(i) ==
    /\ phase[i] = "open" /\ lease = {}
    /\ phase' = [phase EXCEPT ![i] = "tunnel"]
    /\ live' = live \cup {<<"worker", i>>}
    /\ lease' = {<<"worker", i>>}
    /\ mutator' = Inherited(mutator, Main(i), <<"worker", i>>)
    /\ recovery' = Inherited(recovery, Main(i), <<"worker", i>>)
    /\ UNCHANGED <<rec, uncertain, journal>>

\* The lease is taken, or the launch fails: supervise goes on to recovery.
StartRefused(i) ==
    /\ phase[i] = "open"
    /\ phase' = [phase EXCEPT ![i] = "settling"] /\ rec' = [rec EXCEPT ![i] = "locking"]
    /\ UNCHANGED <<uncertain, live, locks, journal>>

\* The worker or a helper launches a helper, with every descriptor it has.
RunHelper(i, p) ==
    /\ p \in live /\ p \in {<<"worker", i>>, <<"helper", i>>} /\ <<"helper", i>> \notin live
    /\ live' = live \cup {<<"helper", i>>}
    /\ mutator' = Inherited(mutator, p, <<"helper", i>>)
    /\ recovery' = Inherited(recovery, p, <<"helper", i>>)
    /\ lease' = Inherited(lease, p, <<"helper", i>>)
    /\ UNCHANGED <<phase, rec, uncertain, journal>>

\* A helper applies or undoes its transaction (module Journal).
HelperConfigures(i) ==
    /\ <<"helper", i>> \in live /\ journal' \in BOOLEAN
    /\ UNCHANGED <<phase, rec, uncertain, live, locks>>

\* Fault: the exit of the worker is enough.
TreeGoneLeader(i) == <<"worker", i>> \notin live

\* WorkerExit::wait_quiet: the lease can be locked.
TreeGone(i) == lease = {}

\* The tree is gone: its transaction is recovered.  Or that could not be
\* established within the deadlines: the service closes, without recovery.
TunnelEnds(i) ==
    /\ phase[i] = "tunnel"
    /\ \/ /\ TreeGone(i)
          /\ phase' = [phase EXCEPT ![i] = "settling"] /\ rec' = [rec EXCEPT ![i] = "locking"]
          /\ UNCHANGED uncertain
       \/ /\ phase' = [phase EXCEPT ![i] = "closed"] /\ uncertain' = [uncertain EXCEPT ![i] = TRUE]
          /\ UNCHANGED rec
    /\ UNCHANGED <<live, locks, journal>>

\* AdminQuiesce on a drained service; it never opens again.
Quiesce(i) ==
    /\ phase[i] \in {"open", "closed"} /\ ~uncertain[i]
    /\ phase' = [phase EXCEPT ![i] = "quiescing"] /\ rec' = [rec EXCEPT ![i] = "locking"]
    /\ UNCHANGED <<uncertain, live, locks, journal>>

----------------------------------------------------------------------------
(* Death                                                                   *)

\* The main process exits or is killed: its locks pass to who shares them.
MainDies(i) ==
    /\ phase[i] \notin {"absent", "gone"}
    /\ phase' = [phase EXCEPT ![i] = "gone"] /\ rec' = [rec EXCEPT ![i] = "none"]
    /\ Close(i)
    /\ UNCHANGED <<uncertain, live, journal>>

Dies(p) ==
    /\ p \in live /\ live' = live \ {p}
    /\ mutator' = mutator \ {p} /\ recovery' = recovery \ {p} /\ lease' = lease \ {p}
    /\ UNCHANGED <<phase, rec, uncertain, journal>>

----------------------------------------------------------------------------
Instance(i) ==
    \/ Launch(i) \/ AcquireMutator(i) \/ LockRecovery(i) \/ RunTool(i) \/ Restored(i)
    \/ (i \notin Installers /\ (StartTunnel(i) \/ StartRefused(i) \/ TunnelEnds(i) \/ Quiesce(i)))
    \/ (\E p \in {<<"worker", i>>, <<"helper", i>>} : RunHelper(i, p))
    \/ HelperConfigures(i)
    \/ MainDies(i)

AllGone == live = {} /\ (\A i \in Instances : phase[i] = "gone") /\ UNCHANGED vars

Next == (\E i \in Instances : Instance(i)) \/ (\E p \in Procs : Dies(p)) \/ AllGone

Spec == Init /\ [][Next]_vars

----------------------------------------------------------------------------
(* Properties                                                              *)

\* A restoration or a process of i that may change the network.
Mutating(i) == rec[i] = "running" \/ \E r \in Roles : <<r, i>> \in live

\* Instances take turns: as long as one serves, or a process of it that may
\* still change the network is alive, no other instance has started working,
\* even if the service was killed and started again at once.
OneGeneration ==
    \A i, j \in Instances :
        (Serving(i) \/ Mutating(i)) /\ (Serving(j) \/ Mutating(j)) => i = j

\* Journals are restored with no tunnel worker or helper alive, and with no
\* program of an earlier, failed restoration left.
RestoresAlone ==
    \A i \in Instances : rec[i] = "running" =>
        \A p \in live : p = <<"tool", i>> /\ p \in recovery

\* A service that admits users found the machine as it should be: nothing an
\* earlier instance did is pending, and nothing of it is alive.
OpenIsClean ==
    \A i \in Instances : phase[i] = "open" => ~journal /\ live = {}

\* The machine is quiet when somebody relies on it: a restoration has no process
\* of a tunnel beside it, and a service admits users to a clean machine only.
\* (recover() probes the locks a crashed instance's descendants inherited.)
MachineQuiet == RestoresAlone /\ OpenIsClean
=============================================================================
