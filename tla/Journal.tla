------------------------------ MODULE Journal ------------------------------
(***************************************************************************)
(* The network transaction of a tunnel on Unix (crates/net/src/journal.rs, *)
(* with plan, apply_one, read, write and vanished of unix.rs and the       *)
(* lockstep script protocol of unix/lifecycle.rs).                         *)
(*                                                                         *)
(* The privileged helper changes routes, addresses and resolver settings   *)
(* (keys) and undoes them from a journal on disk.  It can be killed at any *)
(* step, the machine can reboot, the tunnel interface can disappear, the   *)
(* administrator can change any key at any time, and the read that allows  *)
(* a write and the write itself are separate steps.                        *)
(*                                                                         *)
(* The kernel acts too.  A route through the tunnel device goes with the   *)
(* device, or with the address or the link state it needs, although its    *)
(* key does not name the interface; what it had replaced does not come     *)
(* back.  And the kernel makes a connected route of its own when the       *)
(* address is set, beside the routes that are already there.               *)
(*                                                                         *)
(* base, raced and lost are history variables: base[k] is the value the    *)
(* key would have if the helper had never run.  raced[k] records that      *)
(* somebody changed k where no journal can see it: between the helper's    *)
(* check and its write, or just before the kernel made the very route that *)
(* was planned there.  lost holds the keys, of those that read as None,    *)
(* whose route the kernel took although it had replaced another.           *)
(***************************************************************************)
EXTENDS Naturals

CONSTANTS
    N,            \* number of mutations a configuration plans
    Bound,        \* the keys that name the tunnel interface by its index
    Carried,      \* the routes through the tunnel device
    Needs,        \* Needs[r]: the keys of the interface that route r stands on
    Implied,      \* the connected routes: the kernel makes them for the address
    Listed,       \* the routes of Linux, read as a list and so never as None
    Txns,         \* transactions
    Configs,      \* the negotiated configurations: what each key shall become
    Foreign,      \* values the administrator or the system gives a key
    Absent,       \* the key has no value
    Mixed,        \* read of a list that holds a route of the kernel beside others
    NoJournal,    \* no journal file
    MaxChanges, MaxBoots, MaxIfaces   \* bounds on the environment

Keys == 1..N
Targets == UNION {{cfg[k] : k \in Keys} : cfg \in Configs}
Values == Foreign \cup Targets \cup {Absent}

ASSUME NAssumption == N \in Nat
ASSUME BoundAssumption == Bound \subseteq Keys
ASSUME RouteAssumption ==
    /\ Carried \subseteq Keys \ Bound /\ Listed \subseteq Keys \ Bound
    /\ Implied \subseteq Carried \cap Listed /\ Needs \in [Carried -> SUBSET Bound]
ASSUME ConfigAssumption == Configs \subseteq [Keys -> Values \ {Absent}]
ASSUME ForeignAssumption == Foreign \cap Targets = {} /\ Absent \notin Foreign \cup Targets
ASSUME MixedAssumption == Mixed \notin Values
ASSUME LimitAssumption == MaxChanges \in Nat /\ MaxBoots \in Nat /\ MaxIfaces \in Nat

\* struct Journal.  `applied' is Absent until a result was observed; `pending'
\* is 0 for None; `iface' is the interface index in the names of bound keys.
Journals == [boot : 0..MaxBoots, iface : 1..MaxIfaces,
             before : [Keys -> Values], intended : [Keys -> Values],
             applied : [Keys -> Values], pending : 0..N]
ASSUME NoJournalAssumption == NoJournal \notin Journals

VARIABLES
    net,       \* net[k]: the operating system's value of key k
    base,      \* history: the value of k without the helper
    raced,     \* history: k was changed where no journal can see it
    lost,      \* history: keys whose route went with the device and had replaced one
    extra,     \* the keys with a route of the kernel beside what net[k] says
    boot,      \* boot id
    iface,     \* index of the tunnel interface, 0 when there is none
    made,      \* interfaces created so far
    changes,   \* administrator changes so far
    disk,      \* disk[t]: the journal file of transaction t
    phase,     \* what the helper that holds the lock is doing
    goal,      \* why: "recover", "all", "disconnect", "connect" or "undo"
    txn,       \* the transaction it works on
    mem,       \* its Journal
    at,        \* the mutation it is at, 0 for none
    visited,   \* mutations the script has visited
    warned,    \* restore has collected a warning
    queue      \* journals recover_all has still to read

envVars    == <<net, base, raced, lost, extra, boot, iface, made, changes>>
helperVars == <<phase, goal, txn, mem, at, visited, warned, queue>>
vars == <<envVars, disk, helperVars>>

Phases == {"idle", "pick", "undo_script", "script_write", "undo_loop", "loop_write",
           "plan", "preflight", "apply", "check", "write", "record", "verify"}

TypeOK ==
    /\ net \in [Keys -> Values] /\ base \in [Keys -> Values] /\ raced \in [Keys -> BOOLEAN]
    /\ lost \subseteq Carried \ Listed /\ extra \subseteq Implied
    /\ boot \in 0..MaxBoots /\ iface \in 0..MaxIfaces /\ made \in 0..MaxIfaces
    /\ iface <= made /\ changes \in 0..MaxChanges
    /\ disk \in [Txns -> Journals \cup {NoJournal}]
    /\ phase \in Phases /\ goal \in {"recover", "all", "disconnect", "connect", "undo"}
    /\ txn \in Txns /\ mem \in Journals \cup {NoJournal}
    /\ at \in 0..N /\ visited \subseteq Keys /\ warned \in BOOLEAN /\ queue \subseteq Txns

Init ==
    /\ net \in [Keys -> Foreign \cup {Absent}] /\ \A k \in Bound : net[k] = Absent
    /\ base = net /\ raced = [k \in Keys |-> FALSE] /\ lost = {} /\ extra = {}
    /\ boot = 0 /\ iface = 0 /\ made = 0 /\ changes = 0
    /\ disk = [t \in Txns |-> NoJournal]
    /\ phase = "idle" /\ goal = "recover" /\ txn \in Txns /\ mem = NoJournal
    /\ at = 0 /\ visited = {} /\ warned = FALSE /\ queue = {}

----------------------------------------------------------------------------
(* The operating system                                                    *)

\* read: a key of an interface that is gone has no value.
Missing(j, k) == k \in Bound /\ iface # j.iface
Read(j, k) == IF Missing(j, k) THEN Absent ELSE IF k \in extra THEN Mixed ELSE net[k]

\* Fault: an empty list of routes counts as None.
NothingAtAll(k, value) == value = Absent

\* read has returned None: a list of routes is there even when it is empty.
Nothing(k, value) == value = Absent /\ k \notin Listed

\* The helper stands between the read that allowed a write and the write.
InWindow(k) == phase \in {"write", "script_write", "loop_write"} /\ at = k

\* The kernel takes the routes in `gone' away.  In a slot of `beside' they stood
\* next to others, which stay; in another one they had replaced what was there.
Fallen(f, gone, beside) ==
    [k \in Keys |-> IF k \in gone /\ net[k] \in Targets
                    THEN IF k \in beside THEN base[k] ELSE Absent
                    ELSE f[k]]

\* Where that does not show as an empty list, what was replaced is lost.
Losing(gone) ==
    {r \in lost \cup {k \in gone \ Listed : net[k] \in Targets} : net'[r] # base'[r]}

\* A key gets a value that is not the helper's: of the routes that stand on the
\* key any may go.
Put(k, v) ==
    \E gone \in SUBSET {r \in Carried : k \in Needs[r]} : \E beside \in SUBSET (gone \cap Listed) :
        /\ net' = Fallen([net EXCEPT ![k] = v], gone, beside)
        /\ extra' = extra \ (gone \cup {k}) /\ lost' = Losing(gone)

\* The administrator, DHCP or another program changes a key.
Change(k, v) ==
    /\ changes < MaxChanges /\ (net[k] # v \/ k \in extra)
    /\ k \in Bound => iface # 0
    /\ changes' = changes + 1
    /\ base' = [base EXCEPT ![k] = v] /\ Put(k, v)
    /\ raced' = [raced EXCEPT ![k] = InWindow(k)]
    /\ UNCHANGED <<boot, iface, made, disk, helperVars>>

\* A tunnel device appears with a new index, or goes away with its settings and
\* with the routes through it.
Appear ==
    /\ iface = 0 /\ made < MaxIfaces
    /\ made' = made + 1 /\ iface' = made + 1
    /\ UNCHANGED <<net, base, raced, lost, extra, boot, changes, disk, helperVars>>

Clear(f, v) == [k \in Keys |-> IF k \in Bound THEN v ELSE f[k]]

Vanish ==
    /\ iface # 0
    /\ iface' = 0
    /\ \E beside \in SUBSET (Carried \cap Listed) : net' = Fallen(Clear(net, Absent), Carried, beside)
    /\ base' = Clear(base, Absent) /\ raced' = Clear(raced, FALSE)
    /\ lost' = Losing(Carried) /\ extra' = {}
    /\ UNCHANGED <<boot, made, changes, disk, helperVars>>

\* What is left of a helper that has ended.
Idle ==
    /\ phase' = "idle" /\ goal' = "recover" /\ mem' = NoJournal /\ at' = 0
    /\ visited' = {} /\ warned' = FALSE /\ queue' = {}
    /\ UNCHANGED txn

\* The helper is killed: the kernel drops its lock, files and settings stay.
Crash == phase # "idle" /\ Idle /\ UNCHANGED <<envVars, disk>>

\* The machine restarts: nothing the helper set survives, and a key may come
\* back with any value, even the one a journal intended; only a route through
\* the tunnel device cannot.
Reboot ==
    /\ boot < MaxBoots
    /\ boot' = boot + 1 /\ iface' = 0
    /\ net' \in [Keys -> Values] /\ \A k \in Bound : net'[k] = Absent
    /\ \A k \in Carried : net'[k] \notin Targets
    /\ base' = net' /\ raced' = [k \in Keys |-> FALSE] /\ lost' = {} /\ extra' = {}
    /\ Idle
    /\ UNCHANGED <<made, changes, disk>>

----------------------------------------------------------------------------
(* restore                                                                 *)

\* restore(j) begins with the disconnect script when the boot is the journal's.
StartRestore(j) ==
    /\ mem' = j /\ warned' = FALSE /\ visited' = {}
    /\ IF j.boot = boot THEN phase' = "undo_script" /\ at' = 0
                        ELSE phase' = "undo_loop" /\ at' = N

\* What restore_one finds: nothing to do, a state to keep, or its own value.
Verdict(j, k) ==
    LET current == Read(j, k)
        owned == IF j.applied[k] # Absent THEN j.applied[k] ELSE j.intended[k]
    IN  IF Missing(j, k) \/ current = j.before[k] THEN "done"
        ELSE IF j.pending = k /\ current # j.intended[k] THEN "keep"
        ELSE IF Nothing(k, current) /\ j.intended[k] # Absent THEN "done"
        ELSE IF j.boot # boot THEN IF Nothing(k, current) THEN "done" ELSE "keep"
        ELSE IF current = owned THEN "write" ELSE "keep"

\* Fault: a mutation that failed is tried until it succeeds.
NextRetries(k) == IF warned THEN k ELSE k - 1

\* The loop over the mutations runs in reverse.
NextDown(k) == k - 1

\* Back from restore_one: a failure is a warning; it ends the script and
\* starts the loop, which goes on whatever happens.
Returned(script, k, failed) ==
    /\ warned' = (warned \/ failed)
    /\ IF script /\ ~failed
         THEN phase' = "undo_script" /\ at' = 0 /\ visited' = visited \cup {k}
         ELSE phase' = "undo_loop" /\ at' = (IF script THEN N ELSE NextDown(k)) /\ UNCHANGED visited

\* restore_one up to its write; any read may fail, which is a failure like a
\* state to keep.  The script visits each mutation at most once.
RestoreCheck(k) ==
    /\ \/ phase = "undo_script" /\ k \notin visited
       \/ phase = "undo_loop" /\ k = at
    /\ \/ /\ Verdict(mem, k) = "write"
          /\ phase' = IF phase = "undo_script" THEN "script_write" ELSE "loop_write"
          /\ at' = k
          /\ UNCHANGED <<visited, warned>>
       \/ Verdict(mem, k) = "done" /\ Returned(phase = "undo_script", k, FALSE)
       \/ Returned(phase = "undo_script", k, TRUE)
    /\ UNCHANGED <<envVars, disk, goal, txn, mem, queue>>

\* A native write by the owner of journal j takes effect or not; it cannot reach
\* the key of an interface that is gone, and route_args refuses a route whose
\* device has another index by now.
Reaches(j, k, v) ==
    ~Missing(j, k) /\ (k \in Carried /\ v \in Targets => iface = j.iface)

\* write of the value of before the plan.
WriteBefore(j, k) ==
    /\ UNCHANGED <<base, raced, boot, iface, made, changes>>
    /\ \/ Reaches(j, k, j.before[k]) /\ Put(k, j.before[k])
       \/ UNCHANGED <<net, extra, lost>>

\* write of the intended value.  With a value of the interface the connected
\* routes that stand on it may come: beside what is there, or, where the slot is
\* as planned or empty, as the very state the plan intends.
WriteIntended(j, k) ==
    /\ \/ /\ Reaches(j, k, j.intended[k])
          /\ \E came \in SUBSET {r \in Implied : k \in Needs[r] /\ net[r] \notin Targets} :
             \E exact \in SUBSET {r \in came : net[r] \in {j.before[r], Absent}} :
                /\ net' = [i \in Keys |-> IF i \in exact \cup {k} THEN j.intended[i] ELSE net[i]]
                /\ extra' = ((extra \cup came) \ exact) \ {k}
                /\ raced' = [i \in Keys |-> raced[i] \/ (i \in exact /\ base[i] # j.before[i])]
       \/ UNCHANGED <<net, extra, raced>>
    /\ UNCHANGED <<base, lost, boot, iface, made, changes>>

\* write and the read that verifies it: a failure may be reported either way.
RestoreWrite ==
    /\ phase \in {"script_write", "loop_write"}
    /\ WriteBefore(mem, at)
    /\ \E failed \in BOOLEAN :
        /\ failed \/ (~Missing(mem, at) /\ at \notin extra' /\ net'[at] = mem.before[at])
        /\ Returned(phase = "script_write", at, failed)
    /\ UNCHANGED <<disk, goal, txn, mem, queue>>

\* The script ends; it fails unless it visited every mutation.
RestoreScriptEnds ==
    /\ phase = "undo_script"
    /\ \E failed \in BOOLEAN :
        /\ failed \/ visited = Keys
        /\ warned' = (warned \/ failed)
    /\ phase' = "undo_loop" /\ at' = N
    /\ UNCHANGED <<envVars, disk, goal, txn, mem, visited, queue>>

\* restore removes the journal only without a warning.
Clean == ~warned

\* What follows a restore: lifecycle goes on to plan, recover_all to the next
\* journal (also after warnings), everything else ends.
Continue(removed) ==
    \/ /\ goal = "connect" /\ removed
       /\ phase' = "plan" /\ mem' = NoJournal /\ at' = 0 /\ visited' = {} /\ warned' = FALSE
       /\ UNCHANGED <<goal, txn, queue>>
    \/ /\ goal = "all" /\ (removed \/ warned)
       /\ phase' = "pick" /\ mem' = NoJournal /\ at' = 0 /\ visited' = {} /\ warned' = FALSE
       /\ UNCHANGED <<goal, txn, queue>>
    \/ /\ ~(goal = "connect" /\ removed) /\ ~(goal = "all" /\ (removed \/ warned))
       /\ Idle

\* The end of restore; remove_file may fail.
RestoreEnds ==
    /\ phase = "undo_loop" /\ at = 0
    /\ \E removed \in BOOLEAN :
        /\ removed => Clean
        /\ disk' = IF removed THEN [disk EXCEPT ![txn] = NoJournal] ELSE disk
        /\ Continue(removed)
    /\ UNCHANGED envVars

----------------------------------------------------------------------------
(* Entry points; the lock file admits one helper at a time                 *)

\* recover(t), and lifecycle(t) for Disconnect, Connect and Reconnect.
Begin(t, g) ==
    /\ phase = "idle"
    /\ goal' = g /\ txn' = t /\ queue' = {}
    /\ \/ disk[t] # NoJournal /\ StartRestore(disk[t])
       \/ /\ disk[t] = NoJournal /\ g = "connect"
          /\ phase' = "plan" /\ UNCHANGED <<mem, at, visited, warned>>
    /\ UNCHANGED <<envVars, disk>>

\* recover_all reads the directory.
BeginAll ==
    /\ phase = "idle"
    /\ queue' = {t \in Txns : disk[t] # NoJournal} /\ queue' # {}
    /\ phase' = "pick" /\ goal' = "all"
    /\ UNCHANGED <<envVars, disk, txn, mem, at, visited, warned>>

Pick(t) ==
    /\ phase = "pick" /\ t \in queue
    /\ queue' = queue \ {t} /\ txn' = t
    /\ StartRestore(disk[t])
    /\ UNCHANGED <<envVars, disk, goal>>

PickEnds == phase = "pick" /\ queue = {} /\ Idle /\ UNCHANGED <<envVars, disk>>

----------------------------------------------------------------------------
(* lifecycle                                                               *)

\* save replaces the file atomically; when it fails the new contents may be
\* there or not.
Save(j, saved) ==
    disk' \in IF saved THEN {[disk EXCEPT ![txn] = j]} ELSE {disk, [disk EXCEPT ![txn] = j]}

\* The rest of lifecycle failed: what was done is undone from memory.
Undo(j) == goal' = "undo" /\ StartRestore(j) /\ UNCHANGED <<txn, queue>>

\* lifecycle looks for the journals of all transactions.
Others == \E t \in Txns : disk[t] # NoJournal

\* Refused while any journal exists or without an interface; otherwise the
\* whole intent is saved before anything is changed.
Plan ==
    /\ phase = "plan"
    /\ \/ (Others \/ iface = 0) /\ Idle /\ UNCHANGED disk
       \/ /\ ~Others /\ iface # 0
          /\ \E cfg \in Configs, saved \in BOOLEAN :
              LET j == [boot |-> boot, iface |-> iface, before |-> net, intended |-> cfg,
                        applied |-> [k \in Keys |-> Absent], pending |-> 0]
              IN  /\ Save(j, saved)
                  /\ IF saved THEN /\ phase' = "preflight" /\ mem' = j
                                   /\ UNCHANGED <<goal, txn, at, visited, warned, queue>>
                              ELSE Idle
    /\ UNCHANGED envVars

\* Nothing may have changed since planning; a read may fail, here and below.
Preflight ==
    /\ phase = "preflight"
    /\ \/ /\ \A k \in Keys : Read(mem, k) = mem.before[k]
          /\ phase' = "apply" /\ UNCHANGED <<goal, txn, mem, at, visited, warned, queue>>
       \/ Undo(mem)
    /\ UNCHANGED <<envVars, disk>>

\* The script asks for a mutation: it becomes the pending one, durably.
ApplyIntent(k) ==
    /\ phase = "apply" /\ k \notin visited
    /\ LET j == [mem EXCEPT !.pending = k]
       IN \E saved \in BOOLEAN :
            /\ Save(j, saved)
            /\ IF saved THEN /\ phase' = "check" /\ mem' = j /\ at' = k
                             /\ UNCHANGED <<goal, txn, visited, warned, queue>>
                        ELSE Undo(j)
    /\ UNCHANGED envVars

\* Fault: what stands beside the kernel's route is not looked at.
ImplicitAny(k) == k \in extra

\* implicit_address_route: the kernel put a connected route of its own beside
\* what the plan saw.
Implicit(k) == k \in extra /\ net[k] = mem.before[k]

\* apply_one up to its write: only the planned state, with or without the route
\* of the kernel, and the intended one are touched.
ApplyCheck ==
    /\ phase = "check"
    /\ \/ /\ Read(mem, at) \in {mem.before[at], mem.intended[at]} \/ Implicit(at)
          /\ phase' = IF Read(mem, at) = mem.intended[at] THEN "record" ELSE "write"
          /\ UNCHANGED <<goal, txn, mem, at, visited, warned, queue>>
       \/ Undo(mem)
    /\ UNCHANGED <<envVars, disk>>

ApplyWrite ==
    /\ phase = "write"
    /\ WriteIntended(mem, at)
    /\ \/ /\ phase' = "record" /\ UNCHANGED <<goal, txn, mem, at, visited, warned, queue>>
       \/ Undo(mem)
    /\ UNCHANGED disk

\* The observed result is saved before the script is told to go on.
ApplyRecord ==
    /\ phase = "record"
    /\ \/ Undo(mem) /\ UNCHANGED disk
       \/ /\ Read(mem, at) = mem.intended[at]
          /\ LET j == [mem EXCEPT !.applied[at] = mem.intended[at], !.pending = 0]
             IN \E saved \in BOOLEAN :
                  /\ Save(j, saved)
                  /\ IF saved THEN /\ phase' = "apply" /\ mem' = j /\ at' = 0
                                   /\ visited' = visited \cup {at}
                                   /\ UNCHANGED <<goal, txn, warned, queue>>
                              ELSE Undo(j)
    /\ UNCHANGED envVars

\* The script ends; it succeeds only after visiting every mutation.
ApplyEnds ==
    /\ phase = "apply"
    /\ \/ visited = Keys /\ phase' = "verify" /\ UNCHANGED <<goal, txn, mem, at, visited, warned, queue>>
       \/ Undo(mem)
    /\ UNCHANGED <<envVars, disk>>

\* Every key must have its intended value; then the connection is reported.
Verify ==
    /\ phase = "verify"
    /\ \/ /\ \A k \in Keys : Read(mem, k) = mem.intended[k]
          /\ LET j == [mem EXCEPT !.applied = mem.intended]
             IN \E saved \in BOOLEAN :
                  /\ Save(j, saved)
                  /\ (saved /\ Idle) \/ Undo(j)
       \/ Undo(mem) /\ UNCHANGED disk
    /\ UNCHANGED envVars

----------------------------------------------------------------------------
Helper ==
    \/ \E k \in Keys : RestoreCheck(k) \/ ApplyIntent(k)
    \/ RestoreWrite \/ RestoreScriptEnds \/ RestoreEnds
    \/ \E t \in Txns : Pick(t)
    \/ PickEnds \/ Plan \/ Preflight \/ ApplyCheck \/ ApplyWrite \/ ApplyRecord \/ ApplyEnds
    \/ Verify

Next ==
    \/ Helper
    \/ \E t \in Txns, g \in {"recover", "disconnect", "connect"} : Begin(t, g)
    \/ BeginAll
    \/ \E k \in Keys, v \in Foreign \cup {Absent} : Change(k, v)
    \/ Appear \/ Vanish \/ Crash \/ Reboot

Spec == Init /\ [][Next]_vars

\* Every call the helper makes is bounded by a deadline.
FairSpec == Spec /\ WF_vars(Helper)

----------------------------------------------------------------------------
(* Properties                                                              *)

\* From any point, a crash in the middle of a mutation included, the journal
\* on disk undoes every change of the helper: where the network differs from
\* what it would be without the helper, recovery of that journal would find
\* its own value and write that very value back.  In particular no journal is
\* ever dropped before its changes are undone.  The one exception is a route
\* through the tunnel device that had replaced another and went with the device:
\* restore_one never writes the replaced route back.  On Linux the journal that
\* knows it stays and asks for a repair; where a route that is gone reads as
\* None (macOS) nothing is said.  And while a connected route of the kernel
\* stands beside others, a journal is left.  (save before apply_script,
\* pending_operation, and `if warnings.is_empty()' in restore.)
Knows(t, k, verdict) ==
    disk[t] # NoJournal /\ Verdict(disk[t], k) = verdict /\ disk[t].before[k] = base[k]
Restorable ==
    /\ \A k \in Keys : net[k] # base[k] /\ ~raced[k] /\ k \notin lost =>
          \E t \in Txns : \/ Knows(t, k, "write")
                          \/ Knows(t, k, "keep") /\ k \in Carried \cap Listed /\ net[k] = Absent
    /\ extra # {} => Others

\* The helper moves a key only from the value it has without the helper, which
\* is the one the journal remembers, to the intended one, or back; a change
\* somebody else made is preserved unless it fell between a check and its write.
\* A route through the tunnel device also comes and goes with the interface, not
\* by a write to its own key.  (apply_one's accepted states and restore_one.)
ForeignPreserved ==
    [][\A k \in Keys : base'[k] = base[k] /\ net'[k] # net[k] /\ ~raced[k] /\ k \notin lost =>
        \/ net[k] = base[k] /\ net[k] = mem.before[k] /\ net'[k] = mem.intended[k]
        \/ net'[k] = base[k]
        \/ /\ k \in Carried /\ (InWindow(k) => phase' = phase)
           /\ \/ net[k] \in Targets /\ net'[k] = Absent
              \/ net[k] = Absent /\ net'[k] = mem.intended[k]]_vars

\* The helper ends, whatever fails.
HelperEnds == phase # "idle" ~> phase = "idle"
=============================================================================
