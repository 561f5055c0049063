--------------------------- MODULE NetworkProofs ---------------------------
(***************************************************************************)
(* Proofs about the network transaction (Journal), for any number of keys  *)
(* and transactions, any negotiated configurations and any limits on what  *)
(* the environment does; and about the route policy (Routes), for any      *)
(* configuration and any width of an address.                              *)
(*                                                                         *)
(* Restorable says that a journal on disk undoes what the helper did; it   *)
(* is not inductive.  JInv adds what the code relies on without saying so: *)
(* there is one journal at a time, the journal in memory and the one on    *)
(* disk agree on the plan whatever save did, the value a write relies on   *)
(* can change under it only in a way that is seen (the interface went, the *)
(* kernel took the route, or somebody else wrote), a loop that has no      *)
(* warning left every key behind it as it would be without the helper, and *)
(* without a journal no route stands that the helper or the kernel made.   *)
(*                                                                         *)
(* PlanFaithful says that the planned routes send every address where the  *)
(* policy wants it.  RouteInv says what the loops have made of the         *)
(* configuration so far; the rest is arithmetic: two prefixes are nested   *)
(* or apart, and of several that match an address one is the longest.      *)
(***************************************************************************)
EXTENDS Journal, RoutePolicy, FiniteSetTheorems, SequenceTheorems, TLAPS

Restoring == {"undo_script", "script_write", "undo_loop", "loop_write"}
Applying == {"preflight", "apply", "check", "write", "record", "verify"}

\* The lifecycle lock and `Others' keep one journal at a time.
OneJournal == \A t, u \in Txns : disk[t] # NoJournal /\ disk[u] # NoJournal => t = u

\* What every journal, on disk or in memory, says: it was planned on an earlier
\* or this boot for an interface that has existed, a result it recorded is the
\* intended one, no route through the device stood before, and a key whose own
\* value is one the helper might write (it can be, after a reboot) is recorded
\* with that value.
Planned(j) ==
    /\ j.intended \in Configs /\ j.boot <= boot /\ j.iface <= made
    /\ \A k \in Keys : j.applied[k] \in {Absent, j.intended[k]}
    /\ \A k \in Carried : j.before[k] \notin Targets
    /\ j.boot = boot => \A k \in Keys : base[k] \in Targets => j.before[k] = base[k]

WellPlanned == \A t \in Txns : disk[t] # NoJournal => Planned(disk[t])

\* Two journals of one plan: they differ in what was applied and is pending.
SamePlan(i, j) ==
    i.boot = j.boot /\ i.iface = j.iface /\ i.before = j.before /\ i.intended = j.intended

\* Journal j undoes key k, or keeps the route that the helper's had replaced.
Undoable(j, k) ==
    /\ ~Missing(j, k) /\ j.boot = boot /\ j.before[k] = base[k]
    /\ net[k] = j.intended[k] \/ (k \in Carried \cap Listed /\ net[k] = Absent)

Settled(k) == net[k] = base[k] \/ raced[k] \/ k \in lost

\* Some journal on disk undoes every key that is not settled.
Undone ==
    \A k \in Keys : Settled(k) \/ \E t \in Txns : disk[t] # NoJournal /\ Undoable(disk[t], k)

\* A key that was changed inside a window has a value the helper never writes.
RacedForeign == \A k \in Keys : raced[k] => base[k] \in Foreign \cup {Absent}

\* A route through the device is never a key's own value; a route is lost only
\* where there was one; the kernel puts a route only beside others' routes.
RoutesForeign ==
    /\ \A k \in Carried : base[k] \notin Targets
    /\ \A k \in lost : base[k] \notin {Absent, net[k]}
    /\ \A k \in extra : net[k] \notin Targets

\* Nothing of the helper or of the kernel is left at key k.
Behind(k) == Settled(k) /\ k \notin extra /\ (k \in Carried => net[k] \notin Targets)

\* Without a journal nothing is left anywhere.
Journalled == (\A t \in Txns : disk[t] = NoJournal) => \A k \in Keys : Behind(k)

World == OneJournal /\ WellPlanned /\ Undone /\ RacedForeign /\ RoutesForeign /\ Journalled

\* While the helper works, its journal is on disk, or a version of it of the
\* same plan; it changes the network only in the boot it planned in.
HelperHolds ==
    /\ phase \in Restoring \cup Applying =>
          mem \in Journals /\ Planned(mem) /\ disk[txn] # NoJournal /\ SamePlan(mem, disk[txn])
    /\ phase \in Applying => mem.boot = boot
    /\ phase \in {"script_write", "loop_write", "check", "write", "record"} => at \in Keys

\* The kernel took the route at k, which the journal in memory would have undone.
Dropped(k) == k \in Carried /\ net[k] \notin Targets /\ (k \in lost \/ mem.before[k] = base[k])

\* What a write relies on still holds, or the key's interface has gone, or the
\* kernel took the route, or somebody else changed the key.
WindowHolds ==
    /\ phase \in {"script_write", "loop_write"} =>
          /\ mem.boot = boot
          /\ \/ raced[at] \/ Missing(mem, at) \/ Dropped(at)
             \/ net[at] = mem.intended[at] /\ net[at] # mem.before[at]
    /\ phase = "write" => raced[at] \/ Missing(mem, at) \/ net[at] = mem.before[at]

\* A loop without a warning has left nothing at any key it has passed.
LoopSettles ==
    phase \in {"undo_loop", "loop_write"} /\ ~warned => \A k \in Keys : k > at => Behind(k)

\* recover_all still has journals to read; the one it works on is not among them.
QueueHolds ==
    /\ \A t \in queue : disk[t] # NoJournal
    /\ phase # "pick" => txn \notin queue

Inside == HelperHolds /\ WindowHolds /\ LoopSettles /\ QueueHolds

JInv == TypeOK /\ World /\ Inside

----------------------------------------------------------------------------
(* What the pieces say together                                            *)

\* The values of a configuration are targets, and none of them is Absent.
LEMMA ConfigTargets ==
  ASSUME NEW cfg \in Configs, NEW k \in Keys
  PROVE  cfg[k] \in Targets /\ cfg[k] \in Values /\ cfg[k] # Absent /\ cfg[k] \notin Foreign
<1>1. cfg[k] \in {cfg[i] : i \in Keys}
  OBVIOUS
<1>2. cfg[k] \in Targets
  BY <1>1 DEF Targets
<1>3. cfg[k] \in Values \ {Absent}
  BY ConfigAssumption
<1> QED BY <1>2, <1>3, ForeignAssumption

\* A key that is not settled is undone by the journal the helper works on.
LEMMA HelperUndoes ==
  ASSUME JInv, phase \in Restoring \cup Applying, NEW k \in Keys
  PROVE  Settled(k) \/ Undoable(mem, k)
<1> SUFFICES ASSUME ~Settled(k) PROVE Undoable(mem, k)
  OBVIOUS
<1>1. PICK t \in Txns : disk[t] # NoJournal /\ Undoable(disk[t], k)
  BY DEF JInv, World, Undone
<1>2. disk[txn] # NoJournal /\ SamePlan(mem, disk[txn]) /\ txn \in Txns
  BY DEF JInv, Inside, HelperHolds, TypeOK
<1>3. t = txn
  BY <1>1, <1>2 DEF JInv, World, OneJournal
<1> QED BY <1>1, <1>2, <1>3 DEF Undoable, SamePlan, Missing

\* A key that shows its value of before the plan is settled.
LEMMA BeforeSettled ==
  ASSUME JInv, phase \in Restoring \cup Applying, NEW k \in Keys, net[k] = mem.before[k]
  PROVE  Settled(k)
BY HelperUndoes DEF Undoable, Settled

\* restore_one's "nothing to do" is said of a key at which nothing is left.
LEMMA DoneSettled ==
  ASSUME JInv, phase \in Restoring, NEW k \in Keys, Verdict(mem, k) = "done"
  PROVE  Behind(k)
<1>1. /\ mem \in Journals /\ mem.intended \in Configs /\ extra \subseteq Implied
      /\ \A i \in Carried : mem.before[i] \notin Targets
  BY DEF JInv, Inside, HelperHolds, Planned, TypeOK
<1>2. mem.intended[k] # Absent /\ mem.before[k] \in Values /\ Absent \notin Targets
  BY <1>1, ConfigTargets, ForeignAssumption DEF Journals
<1>3. CASE Missing(mem, k)
  <2>1. k \notin Carried /\ k \notin extra
    BY <1>1, <1>3, RouteAssumption DEF Missing
  <2>2. Settled(k)
    BY <1>3, HelperUndoes DEF Undoable
  <2> QED BY <2>1, <2>2 DEF Behind
<1>4. CASE ~Missing(mem, k) /\ Read(mem, k) = mem.before[k]
  <2>1. k \notin extra /\ net[k] = mem.before[k]
    BY <1>2, <1>4, MixedAssumption DEF Read
  <2> QED BY <2>1, <1>1, BeforeSettled DEF Behind, Restoring
<1>5. CASE ~Missing(mem, k) /\ Read(mem, k) # mem.before[k]
  <2>1. k \notin Listed /\ Read(mem, k) = Absent
    BY <1>5 DEF Verdict, Nothing
  <2>2. k \notin extra /\ net[k] = Absent
    BY <2>1, <1>1, <1>5, RouteAssumption DEF Read
  <2>3. Settled(k)
    BY <2>1, <2>2, <1>2, HelperUndoes DEF Undoable
  <2> QED BY <2>2, <2>3, <1>2 DEF Behind
<1> QED BY <1>3, <1>4, <1>5

\* restore_one writes only over its own value, in the boot of the plan.
LEMMA WriteOwned ==
  ASSUME JInv, phase \in Restoring, NEW k \in Keys, Verdict(mem, k) = "write"
  PROVE  /\ mem.boot = boot /\ ~Missing(mem, k)
         /\ net[k] = mem.intended[k] /\ net[k] # mem.before[k]
<1>1. /\ mem.applied[k] \in {Absent, mem.intended[k]} /\ mem.intended[k] # Absent
      /\ mem.intended[k] # Mixed
  <2>1. mem.intended \in Configs /\ mem.applied[k] \in {Absent, mem.intended[k]}
    BY DEF JInv, Inside, HelperHolds, Planned
  <2> QED BY <2>1, ConfigTargets, MixedAssumption
<1>2. /\ mem.boot = boot /\ ~Missing(mem, k) /\ Read(mem, k) # mem.before[k]
      /\ Read(mem, k) = mem.intended[k]
  BY <1>1 DEF Verdict
<1> QED BY <1>1, <1>2 DEF Read

\* A key that shows the intended value and another one before was changed by the
\* helper: a value of a configuration is the key's own only since before the plan.
LEMMA OwnValue ==
  ASSUME JInv, phase \in Restoring \cup Applying, mem.boot = boot, NEW k \in Keys,
         net[k] = mem.intended[k], net[k] # mem.before[k], ~raced[k], k \notin lost
  PROVE  mem.before[k] = base[k]
<1>1. mem.intended \in Configs /\ Planned(mem)
  BY DEF JInv, Inside, HelperHolds, Planned
<1>2. mem.intended[k] \in Targets
  BY <1>1, ConfigTargets
<1>3. CASE net[k] = base[k]
  BY <1>1, <1>2, <1>3 DEF Planned
<1>4. CASE net[k] # base[k]
  BY <1>4, HelperUndoes DEF Settled, Undoable
<1> QED BY <1>3, <1>4

\* Nothing on disk and nothing in the network changes: the world is as it was.
LEMMA SameWorld == World /\ UNCHANGED <<envVars, disk>> => World'
BY DEF World, OneJournal, WellPlanned, Planned, Undone, Undoable, Settled, Missing, RacedForeign,
       RoutesForeign, Journalled, Behind, envVars

\* The types of what a step leaves alone.
EnvTypes ==
    /\ net \in [Keys -> Values] /\ base \in [Keys -> Values] /\ raced \in [Keys -> BOOLEAN]
    /\ lost \subseteq Carried \ Listed /\ extra \subseteq Implied
    /\ boot \in 0..MaxBoots /\ iface \in 0..MaxIfaces /\ made \in 0..MaxIfaces
    /\ iface <= made /\ changes \in 0..MaxChanges
DiskType == disk \in [Txns -> Journals \cup {NoJournal}]
HelperTypes ==
    /\ phase \in Phases /\ goal \in {"recover", "all", "disconnect", "connect", "undo"}
    /\ txn \in Txns /\ mem \in Journals \cup {NoJournal}
    /\ at \in 0..N /\ visited \subseteq Keys /\ warned \in BOOLEAN /\ queue \subseteq Txns

\* The type invariant in three parts: the environment, the disk, the helper.
LEMMA Types ==
  /\ TypeOK => EnvTypes /\ DiskType /\ HelperTypes
  /\ EnvTypes' /\ DiskType' /\ HelperTypes' => TypeOK'
BY DEF TypeOK, EnvTypes, DiskType, HelperTypes

\* Each part depends on its own variables alone.
LEMMA SameTypes ==
  /\ EnvTypes /\ UNCHANGED envVars => EnvTypes'
  /\ DiskType /\ UNCHANGED disk => DiskType'
  /\ HelperTypes /\ UNCHANGED helperVars => HelperTypes'
BY DEF EnvTypes, DiskType, HelperTypes, envVars, helperVars

\* A helper that has ended holds nothing.
LEMMA IdleHolds == ASSUME HelperTypes, Idle PROVE HelperTypes' /\ Inside'
<1>1. /\ phase' = "idle" /\ goal' = "recover" /\ mem' = NoJournal /\ at' = 0
      /\ visited' = {} /\ warned' = FALSE /\ queue' = {} /\ txn' = txn
  BY DEF Idle
<1>2. HelperTypes'
  <2>1. 0 \in 0..N /\ "idle" \in Phases
    BY NAssumption DEF Phases
  <2> QED BY <1>1, <2>1 DEF HelperTypes
<1>3. HelperHolds' /\ WindowHolds' /\ LoopSettles' /\ QueueHolds'
  BY <1>1 DEF HelperHolds, WindowHolds, LoopSettles, QueueHolds, Restoring, Applying
<1> QED BY <1>2, <1>3 DEF Inside

\* A step that ends the helper and changes nothing else.
LEMMA IdleStep == ASSUME JInv, Idle, UNCHANGED <<envVars, disk>> PROVE JInv'
<1>1. TypeOK'
  BY Types, SameTypes, IdleHolds DEF JInv
<1> QED BY <1>1, Types, IdleHolds, SameWorld DEF JInv

----------------------------------------------------------------------------
(* restore                                                                 *)

\* A restore begins with a journal of the plan that is on disk, from memory
\* or read from the file.
LEMMA StartRestoreHolds ==
  ASSUME NEW j \in Journals, StartRestore(j),
         txn' \in Txns, goal' \in {"recover", "all", "disconnect", "connect", "undo"},
         queue' \subseteq Txns, Planned(j)', disk'[txn'] # NoJournal, SamePlan(j, disk'[txn']),
         \A t \in queue' : disk'[t] # NoJournal, txn' \notin queue'
  PROVE  HelperTypes' /\ Inside'
<1>1. /\ mem' = j /\ warned' = FALSE /\ visited' = {}
      /\ \/ phase' = "undo_script" /\ at' = 0
         \/ phase' = "undo_loop" /\ at' = N
  BY DEF StartRestore
<1>2. HelperTypes'
  <2>1. 0 \in 0..N /\ N \in 0..N
    BY NAssumption
  <2> QED BY <1>1, <2>1 DEF HelperTypes, Phases
<1>3. HelperHolds'
  BY <1>1 DEF HelperHolds, Restoring, Applying, SamePlan, Planned
<1>4. WindowHolds' /\ QueueHolds'
  BY <1>1 DEF WindowHolds, QueueHolds
<1>5. LoopSettles'
  BY <1>1, NAssumption DEF LoopSettles, Keys
<1> QED BY <1>2, <1>3, <1>4, <1>5 DEF Inside

\* save of another version of the journal in memory, whether it succeeds or
\* leaves the old contents: a journal of the plan is on disk.
LEMMA SaveKeeps ==
  ASSUME JInv, phase \in Applying, UNCHANGED envVars,
         NEW j \in Journals, Planned(j), SamePlan(j, mem), NEW saved, Save(j, saved)
  PROVE  /\ DiskType' /\ World' /\ Planned(j)'
         /\ disk'[txn] # NoJournal /\ SamePlan(j, disk'[txn])
         /\ \A t \in queue : disk'[t] # NoJournal
<1>1. disk' = disk \/ disk' = [disk EXCEPT ![txn] = j]
  BY DEF Save
<1>2. txn \in Txns /\ disk \in [Txns -> Journals \cup {NoJournal}] /\ j # NoJournal /\ queue \subseteq Txns
  BY NoJournalAssumption DEF JInv, TypeOK
<1>3. /\ disk[txn] # NoJournal /\ SamePlan(j, disk[txn])
      /\ \A t \in queue : disk[t] # NoJournal
  BY DEF JInv, Inside, HelperHolds, QueueHolds, SamePlan
<1>4. /\ net' = net /\ base' = base /\ raced' = raced /\ boot' = boot /\ iface' = iface /\ made' = made
      /\ lost' = lost /\ extra' = extra
  BY DEF envVars
<1>5. Planned(j)'
  BY <1>4 DEF Planned
<1>6. disk'[txn] # NoJournal /\ SamePlan(j, disk'[txn]) /\ DiskType'
  BY <1>1, <1>2, <1>3 DEF SamePlan, DiskType
<1>7. \A t \in Txns : (disk'[t] # NoJournal <=> disk[t] # NoJournal)
                      /\ (t # txn => disk'[t] = disk[t])
  BY <1>1, <1>2, <1>3
<1>8. World'
  <2>1. OneJournal'
    BY <1>7 DEF JInv, World, OneJournal
  <2>2. WellPlanned'
    <3> SUFFICES ASSUME NEW t \in Txns, disk'[t] # NoJournal PROVE Planned(disk[t])' 
      BY DEF WellPlanned
    <3>1. CASE disk'[t] = disk[t]
      BY <3>1, <1>4 DEF JInv, World, WellPlanned, Planned
    <3>2. CASE disk'[t] = j
      BY <3>2, <1>5 DEF Planned
    <3> QED BY <3>1, <3>2, <1>1, <1>2
  <2>3. Undone'
    <3> SUFFICES ASSUME NEW k \in Keys, ~Settled(k)
                 PROVE  \E t \in Txns : disk'[t] # NoJournal /\ Undoable(disk[t], k)'
      BY <1>4 DEF Undone, Settled
    <3>1. Undoable(j, k)
      BY HelperUndoes DEF SamePlan, Undoable, Missing
    <3>2. \A t \in Txns : t = txn => Undoable(disk[t], k)'
      BY <3>1, <1>4, <1>6 DEF SamePlan, Undoable, Missing
    <3> QED BY <3>2, <1>2, <1>6
  <2>4. RacedForeign' /\ RoutesForeign' /\ Journalled'
    BY <1>2, <1>4, <1>6 DEF JInv, World, RacedForeign, RoutesForeign, Journalled
  <2> QED BY <2>1, <2>2, <2>3, <2>4 DEF World
<1> QED BY <1>3, <1>5, <1>6, <1>7, <1>8, <1>2

\* The rest of lifecycle failed: a version of the journal is undone from memory.
LEMMA UndoKeeps ==
  ASSUME JInv, phase \in Applying, UNCHANGED envVars,
         NEW j \in Journals, Planned(j)', Undo(j), DiskType', World',
         disk'[txn] # NoJournal, SamePlan(j, disk'[txn]), \A t \in queue : disk'[t] # NoJournal
  PROVE  JInv'
<1>1. txn \in Txns /\ queue \subseteq Txns /\ txn \notin queue
  BY DEF JInv, TypeOK, Inside, QueueHolds, Applying
<1>2. StartRestore(j) /\ goal' = "undo" /\ txn' = txn /\ queue' = queue
  BY DEF Undo
<1>3. HelperTypes' /\ Inside'
  BY <1>1, <1>2, StartRestoreHolds
<1>4. TypeOK'
  BY <1>3, Types, SameTypes DEF JInv
<1> QED BY <1>3, <1>4 DEF JInv

\* The same when nothing was saved.
LEMMA UndoMemKeeps ==
  ASSUME JInv, phase \in Applying, UNCHANGED <<envVars, disk>>, Undo(mem) PROVE JInv'
<1>1. PICK j \in Journals : j = mem
  BY DEF JInv, Inside, HelperHolds
<1>2. World' /\ DiskType'
  BY SameWorld, Types, SameTypes DEF JInv
<1>3. /\ \A t \in queue : disk'[t] # NoJournal
      /\ disk'[txn] # NoJournal /\ SamePlan(j, disk'[txn])
  BY <1>1 DEF JInv, Inside, QueueHolds, HelperHolds
<1>4. Planned(j)'
  BY <1>1 DEF JInv, Inside, HelperHolds, Planned, envVars
<1> QED BY <1>1, <1>2, <1>3, <1>4, UndoKeeps

----------------------------------------------------------------------------
(* The operating system                                                    *)

\* A key that a step does not set: it stays, or the kernel takes the route at it.
Follows(i) ==
    /\ base'[i] = base[i] /\ raced'[i] = raced[i] /\ extra' \subseteq extra
    /\ i \in lost => i \in lost' \/ net'[i] = base'[i]
    /\ \/ net'[i] = net[i]
       \/ /\ i \in Carried /\ net[i] \in Targets
          /\ net'[i] = Absent \/ (i \in Listed /\ net'[i] = base[i])
          /\ i \in Listed \/ net'[i] = base'[i] \/ i \in lost'

\* Such a key stays settled, or what undoes it stays on disk.
LEMMA FollowsKeeps ==
  ASSUME RoutesForeign, NEW i \in Keys, Follows(i)
  PROVE  /\ Settled(i) => Settled(i)'
         /\ Behind(i) => Behind(i)'
         /\ i \in Carried /\ net[i] \notin Targets => net'[i] \notin Targets
         /\ \A j : j.intended \in Configs /\ Undoable(j, i) =>
                (/\ ~Missing(j, i) /\ j.boot = boot /\ j.before[i] = base'[i]
                 /\ net'[i] = j.intended[i] \/ (i \in Carried \cap Listed /\ net'[i] = Absent))
                \/ Settled(i)'
<1>1. Settled(i) => Settled(i)'
  BY DEF RoutesForeign, Follows, Settled
<1>2. i \in Carried /\ net[i] \notin Targets => net'[i] \notin Targets
  BY DEF Follows
<1>3. Behind(i) => Behind(i)'
  BY <1>1, <1>2 DEF Behind, Follows
<1>4. ASSUME NEW j, j.intended \in Configs, Undoable(j, i)
      PROVE  (/\ ~Missing(j, i) /\ j.boot = boot /\ j.before[i] = base'[i]
              /\ net'[i] = j.intended[i] \/ (i \in Carried \cap Listed /\ net'[i] = Absent))
             \/ Settled(i)'
  <2>1. j.before[i] = base[i] /\ base'[i] = base[i] /\ ~Missing(j, i) /\ j.boot = boot
    BY <1>4 DEF Undoable, Follows
  <2>2. CASE net'[i] = net[i]
    BY <1>4, <2>1, <2>2 DEF Undoable
  <2>3. CASE i \in Carried /\ net'[i] = Absent /\ i \in Listed
    BY <2>1, <2>3
  <2>4. CASE net'[i] = base'[i] \/ i \in lost'
    BY <2>4 DEF Settled
  <2> QED BY <2>2, <2>3, <2>4, <2>1 DEF Follows
<1> QED BY <1>1, <1>2, <1>3, <1>4

\* A write that was allowed stays so while the kernel takes routes.
LEMMA WindowFollows ==
  ASSUME JInv, phase \in {"script_write", "loop_write", "write"}, NEW i \in Keys, i = at, Follows(i),
         boot' = boot, iface' = iface \/ i \notin Bound, UNCHANGED helperVars
  PROVE  WindowHolds'
<1>1. phase \in Restoring \cup Applying
  BY DEF Restoring, Applying
<1>2. /\ mem.intended \in Configs /\ (i \in Carried => mem.before[i] \notin Targets)
      /\ RoutesForeign
  BY <1>1 DEF JInv, Inside, HelperHolds, Planned, World
<1>3. phase' = phase /\ at' = at /\ mem' = mem /\ (Missing(mem, at)' = Missing(mem, at))
  BY DEF helperVars, Missing
<1>4. raced'[i] = raced[i] /\ base'[i] = base[i]
  BY DEF Follows
<1>5. CASE phase = "write"
  <2>1. raced[i] \/ Missing(mem, i) \/ net[i] = mem.before[i]
    BY <1>5 DEF JInv, Inside, WindowHolds
  <2>2. raced'[i] \/ Missing(mem, i)' \/ net'[i] = mem.before[i]
    BY <2>1, <1>2, <1>3, <1>4 DEF Follows
  <2> QED BY <2>2, <1>3, <1>5 DEF WindowHolds
<1>6. CASE phase \in {"script_write", "loop_write"}
  <2>1. /\ mem.boot = boot
        /\ \/ raced[i] \/ Missing(mem, i) \/ Dropped(i)
           \/ net[i] = mem.intended[i] /\ net[i] # mem.before[i]
    BY <1>6 DEF JInv, Inside, WindowHolds
  <2>2. CASE raced[i] \/ Missing(mem, i)
    BY <2>1, <2>2, <1>3, <1>4, <1>6 DEF WindowHolds
  <2>3. CASE Dropped(i)
    <3>1. i \in Carried /\ net'[i] = net[i] /\ net'[i] \notin Targets
      BY <2>3 DEF Dropped, Follows
    <3>2. i \in lost => i \in lost'
      BY <3>1, <1>2, <1>4 DEF Follows, RoutesForeign
    <3>3. Dropped(i)'
      BY <3>1, <3>2, <2>3, <1>3, <1>4 DEF Dropped
    <3> QED BY <3>3, <2>1, <1>3, <1>6 DEF WindowHolds, Dropped
  <2>4. CASE net[i] = mem.intended[i] /\ net[i] # mem.before[i] /\ ~raced[i]
    <3>1. CASE net'[i] = net[i]
      BY <3>1, <2>1, <2>4, <1>3, <1>6 DEF WindowHolds
    <3>2. CASE net'[i] # net[i]
      <4>1. i \in Carried /\ net'[i] \in {Absent, base[i]} /\ net'[i] \notin Targets
        BY <3>2, <1>2, ForeignAssumption DEF Follows, RoutesForeign
      <4>2. i \notin lost => mem.before[i] = base[i]
        BY <2>1, <2>4, <1>1, OwnValue
      <4>3. i \in lost => i \in lost'
        <5>1. i \in lost => net'[i] = Absent /\ base[i] # Absent
          BY <3>2, <1>2 DEF Follows, RoutesForeign, JInv, TypeOK
        <5> QED BY <5>1, <1>4 DEF Follows
      <4>4. Dropped(i)'
        BY <4>1, <4>2, <4>3, <1>3, <1>4 DEF Dropped
      <4> QED BY <4>4, <2>1, <1>3, <1>6 DEF WindowHolds, Dropped
    <3> QED BY <3>1, <3>2
  <2> QED BY <2>1, <2>2, <2>3, <2>4
<1> QED BY <1>5, <1>6

\* What the kernel takes with the routes in `gone'.
LEMMA FallenEffect ==
  ASSUME TypeOK, RoutesForeign, NEW f, NEW gone \in SUBSET Carried, NEW beside \in SUBSET (gone \cap Listed),
         net' = Fallen(f, gone, beside), lost' = Losing(gone), NEW i \in Keys,
         f[i] = net[i], base'[i] = base[i], raced'[i] = raced[i], extra' \subseteq extra
  PROVE  Follows(i)
<1>1. net'[i] = IF i \in gone /\ net[i] \in Targets THEN IF i \in beside THEN base[i] ELSE Absent ELSE f[i]
  BY DEF Fallen
<1>2. i \in lost => i \in lost' \/ net'[i] = base'[i]
  BY DEF Losing
<1>3. i \in gone /\ net[i] \in Targets => i \in Listed \/ net'[i] = base'[i] \/ i \in lost'
  BY DEF Losing
<1>4. i \in gone => i \in Carried
  OBVIOUS
<1> QED BY <1>1, <1>2, <1>3, <1>4 DEF Follows

\* What is lost was there.
LEMMA LosingForeign ==
  ASSUME TypeOK, RoutesForeign, NEW gone \in SUBSET Carried, lost' = Losing(gone),
         \A i \in Keys : base'[i] # base[i] => net'[i] = base'[i],
         \A i \in gone \ Listed : net[i] \in Targets => net'[i] = Absent
  PROVE  lost' \subseteq Carried \ Listed /\ \A i \in lost' : base'[i] \notin {Absent, net'[i]}
<1> SUFFICES ASSUME NEW i \in lost' PROVE i \in Carried \ Listed /\ base'[i] \notin {Absent, net'[i]}
  OBVIOUS
<1>1. net'[i] # base'[i] /\ (i \in lost \/ (i \in gone \ Listed /\ net[i] \in Targets))
  BY DEF Losing
<1>2. i \in Carried \ Listed /\ i \in Keys
  BY <1>1, RouteAssumption DEF TypeOK
<1>3. base'[i] = base[i]
  BY <1>1, <1>2
<1> QED BY <1>1, <1>2, <1>3 DEF RoutesForeign

\* A key gets a value of others; the rest follows.
LEMMA PutEffect ==
  ASSUME TypeOK, RoutesForeign, NEW k \in Keys, NEW v \in Values, Put(k, v),
         base' = base \/ base' = [base EXCEPT ![k] = v], base' \in [Keys -> Values],
         \A i \in Keys : i # k => raced'[i] = raced[i]
  PROVE  /\ net' \in [Keys -> Values] /\ extra' \subseteq Implied
         /\ lost' \subseteq Carried \ Listed /\ \A i \in lost' : base'[i] \notin {Absent, net'[i]}
         /\ net'[k] = v /\ k \notin extra' /\ extra' \subseteq extra
         /\ k \in lost => k \in lost' \/ net'[k] = base'[k]
         /\ k \in lost' => k \in lost
         /\ \A i \in Keys : i # k => Follows(i)
<1>1. PICK gone \in SUBSET {r \in Carried : k \in Needs[r]} : \E beside \in SUBSET (gone \cap Listed) :
        /\ net' = Fallen([net EXCEPT ![k] = v], gone, beside)
        /\ extra' = extra \ (gone \cup {k}) /\ lost' = Losing(gone)
  BY DEF Put
<1>2. PICK beside \in SUBSET (gone \cap Listed) :
        /\ net' = Fallen([net EXCEPT ![k] = v], gone, beside)
        /\ extra' = extra \ (gone \cup {k}) /\ lost' = Losing(gone)
  BY <1>1
<1>3. gone \in SUBSET Carried /\ k \notin gone
  <2>1. \A r \in gone : r \in Carried /\ k \in Bound /\ r \notin Bound
    BY RouteAssumption
  <2> QED BY <2>1
<1>4. /\ net \in [Keys -> Values] /\ base \in [Keys -> Values]
      /\ lost \subseteq Carried \ Listed /\ extra \subseteq Implied
  BY DEF TypeOK
<1>5. \A i \in Keys : net'[i] = IF i \in gone /\ net[i] \in Targets
                                THEN IF i \in beside THEN base[i] ELSE Absent
                                ELSE IF i = k THEN v ELSE net[i]
  BY <1>2, <1>4 DEF Fallen
<1>6. net' \in [Keys -> Values]
  <2>1. Absent \in Values
    BY DEF Values
  <2>2. \A i \in Keys : [net EXCEPT ![k] = v][i] \in Values /\ base[i] \in Values
    BY <1>4
  <2> QED BY <1>2, <2>1, <2>2 DEF Fallen
<1>7. net'[k] = v
  BY <1>3, <1>5
<1>8. \A i \in Keys : i # k => base'[i] = base[i]
  BY <1>4
<1>9. ASSUME NEW i \in Keys, i # k PROVE Follows(i)
  <2>1. [net EXCEPT ![k] = v][i] = net[i]
    BY <1>9, <1>4
  <2>2. base'[i] = base[i] /\ raced'[i] = raced[i] /\ extra' \subseteq extra
    BY <1>2, <1>8, <1>9
  <2> QED BY <1>2, <1>3, <2>1, <2>2, FallenEffect
<1>10. lost' \subseteq Carried \ Listed /\ \A i \in lost' : base'[i] \notin {Absent, net'[i]}
  <2>1. \A i \in Keys : base'[i] # base[i] => net'[i] = base'[i]
    BY <1>4, <1>7, <1>8
  <2>2. \A i \in gone \ Listed : net[i] \in Targets => net'[i] = Absent
    BY <1>3, <1>5, RouteAssumption
  <2> QED BY <1>2, <1>3, <2>1, <2>2, LosingForeign
<1>11. (k \in lost => k \in lost' \/ net'[k] = base'[k]) /\ (k \in lost' => k \in lost)
  BY <1>2, <1>3 DEF Losing
<1> QED BY <1>2, <1>4, <1>6, <1>7, <1>9, <1>10, <1>11

\* Somebody changes a key: it is settled, and a write that was allowed before
\* is known to be raced.
LEMMA ChangeKeeps ==
  ASSUME JInv, NEW k \in Keys, NEW v \in Foreign \cup {Absent}, Change(k, v) PROVE JInv'
<1>1. /\ Put(k, v) /\ base' = [base EXCEPT ![k] = v]
      /\ raced' = [raced EXCEPT ![k] = InWindow(k)] /\ changes < MaxChanges /\ changes' = changes + 1
      /\ boot' = boot /\ iface' = iface /\ made' = made /\ disk' = disk /\ UNCHANGED helperVars
  BY DEF Change
<1>2. /\ net \in [Keys -> Values] /\ base \in [Keys -> Values] /\ raced \in [Keys -> BOOLEAN]
      /\ changes \in 0..MaxChanges /\ boot \in 0..MaxBoots /\ TypeOK /\ RoutesForeign
  BY DEF JInv, TypeOK, World
<1>3. v \in Values /\ v \notin Targets
  BY ForeignAssumption DEF Values
<1>5. /\ base'[k] = v /\ raced'[k] = InWindow(k)
      /\ \A i \in Keys : i # k => base'[i] = base[i] /\ raced'[i] = raced[i]
  BY <1>1, <1>2
<1>6. /\ net' \in [Keys -> Values] /\ extra' \subseteq Implied
      /\ lost' \subseteq Carried \ Listed /\ \A i \in lost' : base'[i] \notin {Absent, net'[i]}
      /\ net'[k] = v /\ k \notin extra' /\ extra' \subseteq extra
      /\ \A i \in Keys : i # k => Follows(i)
  <2>1. base' \in [Keys -> Values]
    BY <1>1, <1>2, <1>3
  <2> QED BY <1>1, <1>2, <1>3, <1>5, <2>1, PutEffect
<1>4. TypeOK'
  <2>1. raced' \in [Keys -> BOOLEAN] /\ base' \in [Keys -> Values]
    BY <1>1, <1>2, <1>3 DEF InWindow
  <2>2. changes' \in 0..MaxChanges
    BY <1>1, <1>2, LimitAssumption
  <2>3. EnvTypes'
    BY <1>1, <1>6, <2>1, <2>2, Types DEF JInv, EnvTypes
  <2> QED BY <1>1, <2>3, Types, SameTypes DEF JInv
<1>7. ASSUME NEW j \in Journals, Planned(j) PROVE Planned(j)'
  BY <1>1, <1>3, <1>5, <1>7 DEF Planned
<1>8. \A i \in Keys : (Settled(i) => Settled(i)') /\ (Behind(i) => Behind(i)')
  <2>1. Settled(k)' /\ Behind(k)'
    BY <1>3, <1>5, <1>6 DEF Settled, Behind
  <2> QED BY <2>1, <1>2, <1>6, FollowsKeeps
<1>9. World'
  <2>1. OneJournal'
    BY <1>1 DEF JInv, World, OneJournal
  <2>2. WellPlanned'
    <3> SUFFICES ASSUME NEW t \in Txns, disk[t] # NoJournal PROVE Planned(disk[t])'
      BY <1>1 DEF WellPlanned
    <3>1. PICK j \in Journals : j = disk[t]
      BY DEF JInv, TypeOK
    <3>2. Planned(j)'
      BY <3>1, <1>7 DEF JInv, World, WellPlanned
    <3> QED BY <3>1, <3>2, <1>1 DEF Planned
  <2>3. Undone'
    <3> SUFFICES ASSUME NEW i \in Keys, ~Settled(i)'
                 PROVE  \E t \in Txns : disk'[t] # NoJournal /\ Undoable(disk[t], i)'
      BY DEF Undone
    <3>1. i # k /\ ~Settled(i)
      BY <1>5, <1>6, <1>8 DEF Settled
    <3>2. PICK t \in Txns : disk[t] # NoJournal /\ Undoable(disk[t], i)
      BY <3>1 DEF JInv, World, Undone
    <3>3. disk[t].intended \in Configs
      BY <3>2 DEF JInv, World, WellPlanned, Planned
    <3>4. Undoable(disk[t], i)'
      BY <3>1, <3>2, <3>3, <1>1, <1>2, <1>6, FollowsKeeps DEF Undoable, Missing
    <3> QED BY <3>2, <3>4, <1>1
  <2>4. RacedForeign'
    BY <1>5 DEF JInv, World, RacedForeign
  <2>5. RoutesForeign'
    <3>1. \A i \in Carried : base'[i] \notin Targets
      BY <1>2, <1>3, <1>5, RouteAssumption DEF RoutesForeign
    <3>2. ASSUME NEW i \in extra' PROVE net'[i] \notin Targets
      <4>1. i \in extra /\ i # k /\ i \in Keys /\ i \in Carried /\ net[i] \notin Targets
        BY <3>2, <1>2, <1>6, RouteAssumption DEF RoutesForeign, TypeOK
      <4> QED BY <4>1, <1>2, <1>6, FollowsKeeps
    <3> QED BY <3>1, <3>2, <1>6 DEF RoutesForeign
  <2>6. Journalled'
    BY <1>1, <1>8 DEF JInv, World, Journalled
  <2> QED BY <2>1, <2>2, <2>3, <2>4, <2>5, <2>6 DEF World
<1>10. HelperHolds'
  <2>1. phase \in Restoring \cup Applying => Planned(mem)'
    <3> SUFFICES ASSUME phase \in Restoring \cup Applying PROVE Planned(mem)'
      OBVIOUS
    <3>1. PICK j \in Journals : j = mem
      BY DEF JInv, Inside, HelperHolds
    <3>2. Planned(j)'
      BY <3>1, <1>7 DEF JInv, Inside, HelperHolds
    <3> QED BY <3>1, <3>2, <1>1 DEF helperVars, Planned
  <2> QED BY <1>1, <2>1 DEF JInv, Inside, HelperHolds, SamePlan, helperVars
<1>11. WindowHolds'
  <2>1. CASE phase \in {"script_write", "loop_write", "write"}
    <3>1. PICK i \in Keys : i = at
      BY <2>1 DEF JInv, Inside, HelperHolds
    <3>2. CASE i = k
      BY <3>1, <3>2, <2>1, <1>1, <1>5 DEF InWindow, JInv, Inside, WindowHolds, helperVars
    <3>3. CASE i # k
      BY <3>1, <3>3, <2>1, <1>1, <1>2, <1>6, WindowFollows DEF JInv
    <3> QED BY <3>2, <3>3
  <2>2. CASE phase \notin {"script_write", "loop_write", "write"}
    BY <2>2, <1>1 DEF WindowHolds, helperVars
  <2> QED BY <2>1, <2>2
<1>12. LoopSettles' /\ QueueHolds'
  BY <1>1, <1>8 DEF JInv, Inside, LoopSettles, QueueHolds, helperVars
<1> QED BY <1>4, <1>9, <1>10, <1>11, <1>12 DEF JInv, Inside

\* An interface with a new index appears: the keys of the old one stay missing.
LEMMA AppearKeeps == ASSUME JInv, Appear PROVE JInv'
<1>1. /\ iface = 0 /\ made < MaxIfaces /\ made' = made + 1 /\ iface' = made + 1
      /\ net' = net /\ base' = base /\ raced' = raced /\ boot' = boot /\ disk' = disk
      /\ lost' = lost /\ extra' = extra /\ changes' = changes /\ UNCHANGED helperVars
  BY DEF Appear
<1>2. made \in 0..MaxIfaces /\ boot \in 0..MaxBoots
  BY DEF JInv, TypeOK
<1>3. TypeOK'
  <2>1. made' \in 0..MaxIfaces /\ iface' \in 0..MaxIfaces /\ iface' <= made'
    BY <1>1, <1>2, LimitAssumption
  <2>2. EnvTypes'
    BY <1>1, <2>1, Types DEF JInv, EnvTypes
  <2> QED BY <1>1, <2>2, Types, SameTypes DEF JInv
<1>4. ASSUME NEW j \in Journals, Planned(j)
      PROVE  /\ Planned(j)'
             /\ \A k \in Keys : Missing(j, k)' <=> Missing(j, k)
  <2>1. j.iface \in 1..MaxIfaces /\ j.iface <= made
    BY <1>4 DEF Planned, Journals
  <2>2. j.iface # iface /\ j.iface # iface' /\ j.iface <= made'
    BY <1>1, <1>2, <2>1, LimitAssumption
  <2> QED BY <1>1, <1>4, <2>2 DEF Planned, Missing
<1>5. World'
  <2>1. OneJournal' /\ RacedForeign' /\ RoutesForeign' /\ Journalled'
    BY <1>1 DEF JInv, World, OneJournal, RacedForeign, RoutesForeign, Journalled, Behind, Settled
  <2>2. ASSUME NEW t \in Txns, disk[t] # NoJournal
        PROVE  Planned(disk[t])' /\ \A k \in Keys : Undoable(disk[t], k) => Undoable(disk[t], k)'
    <3>1. PICK j \in Journals : j = disk[t]
      BY <2>2 DEF JInv, TypeOK
    <3>2. Planned(j)' /\ \A k \in Keys : Missing(j, k)' <=> Missing(j, k)
      BY <3>1, <1>4, <2>2 DEF JInv, World, WellPlanned
    <3> QED BY <3>1, <3>2, <1>1 DEF Planned, Undoable, Missing
  <2>3. WellPlanned'
    BY <1>1, <2>2 DEF WellPlanned
  <2>4. Undone'
    BY <1>1, <2>2 DEF JInv, World, Undone, Settled
  <2> QED BY <2>1, <2>3, <2>4 DEF World
<1>6. HelperHolds' /\ WindowHolds'
  <2>1. CASE phase \notin Restoring \cup Applying
    BY <1>1, <2>1 DEF helperVars, HelperHolds, WindowHolds, Restoring, Applying
  <2>2. CASE phase \in Restoring \cup Applying
    <3>1. PICK j \in Journals : j = mem /\ Planned(j)
      BY <2>2 DEF JInv, Inside, HelperHolds
    <3>2. Planned(j)' /\ \A k \in Keys : Missing(j, k)' <=> Missing(j, k)
      BY <3>1, <1>4
    <3>3. Planned(mem)' /\ \A k \in Keys : Missing(mem, k)' <=> Missing(mem, k)
      BY <3>1, <3>2, <1>1 DEF helperVars, Planned, Missing
    <3>4. HelperHolds'
      BY <3>3, <1>1 DEF JInv, Inside, HelperHolds, SamePlan, helperVars
    <3>5. phase \in {"script_write", "loop_write", "write"} => (Missing(mem, at)' <=> Missing(mem, at))
      BY <3>3, <1>1 DEF JInv, Inside, HelperHolds, helperVars, Missing
    <3>6. WindowHolds'
      BY <3>5, <1>1 DEF JInv, Inside, WindowHolds, Dropped, helperVars
    <3> QED BY <3>4, <3>6
  <2> QED BY <2>1, <2>2
<1>7. LoopSettles' /\ QueueHolds'
  BY <1>1 DEF JInv, Inside, LoopSettles, Behind, Settled, QueueHolds, helperVars
<1> QED BY <1>3, <1>5, <1>6, <1>7 DEF JInv, Inside

\* The interface goes with its settings and the routes through it: its keys are
\* settled and missing, and the routes follow.
LEMMA VanishKeeps == ASSUME JInv, Vanish PROVE JInv'
<1>1. /\ iface' = 0 /\ base' = Clear(base, Absent) /\ lost' = Losing(Carried) /\ extra' = {}
      /\ raced' = Clear(raced, FALSE) /\ boot' = boot /\ made' = made /\ disk' = disk
      /\ changes' = changes /\ UNCHANGED helperVars
  BY DEF Vanish
<1>2. /\ net \in [Keys -> Values] /\ base \in [Keys -> Values] /\ raced \in [Keys -> BOOLEAN]
      /\ made \in 0..MaxIfaces /\ boot \in 0..MaxBoots /\ TypeOK /\ RoutesForeign
  BY DEF JInv, TypeOK, World
<1>3. PICK beside \in SUBSET (Carried \cap Listed) : net' = Fallen(Clear(net, Absent), Carried, beside)
  BY DEF Vanish
<1>4. /\ \A k \in Bound : net'[k] = Absent /\ base'[k] = Absent /\ ~raced'[k]
      /\ \A k \in Keys : k \notin Bound => Follows(k)
      /\ \A k \in Keys : k \notin Bound => base'[k] = base[k] /\ raced'[k] = raced[k]
  <2>1. \A k \in Bound : k \in Keys /\ k \notin Carried
    BY BoundAssumption, RouteAssumption
  <2>2. \A k \in Bound : net'[k] = Absent /\ base'[k] = Absent /\ ~raced'[k]
    BY <2>1, <1>1, <1>3 DEF Fallen, Clear
  <2>3. ASSUME NEW k \in Keys, k \notin Bound
        PROVE  Follows(k) /\ base'[k] = base[k] /\ raced'[k] = raced[k]
    <3>1. Clear(net, Absent)[k] = net[k] /\ base'[k] = base[k] /\ raced'[k] = raced[k]
      BY <2>3, <1>1 DEF Clear
    <3>2. extra' \subseteq extra /\ Carried \in SUBSET Carried
      BY <1>1
    <3> QED BY <3>1, <3>2, <1>1, <1>2, <1>3, FallenEffect
  <2> QED BY <2>2, <2>3
<1>5. net' \in [Keys -> Values]
  <2>1. Absent \in Values
    BY DEF Values
  <2>2. \A i \in Keys : Clear(net, Absent)[i] \in Values /\ base[i] \in Values
    BY <1>2, <2>1 DEF Clear
  <2> QED BY <1>3, <2>1, <2>2 DEF Fallen
<1>6. lost' \subseteq Carried \ Listed /\ \A i \in lost' : base'[i] \notin {Absent, net'[i]}
  <2>1. \A i \in Keys : base'[i] # base[i] => net'[i] = base'[i]
    BY <1>4
  <2>2. \A i \in Carried \ Listed : net[i] \in Targets => net'[i] = Absent
    BY <1>3, RouteAssumption DEF Fallen
  <2>3. Carried \in SUBSET Carried
    OBVIOUS
  <2> QED BY <1>1, <1>2, <2>1, <2>2, <2>3, LosingForeign
<1>7. TypeOK'
  <2>1. raced' \in [Keys -> BOOLEAN] /\ base' \in [Keys -> Values]
    BY <1>1, <1>2 DEF Clear, Values
  <2>2. iface' \in 0..MaxIfaces /\ iface' <= made' /\ extra' \subseteq Implied
    BY <1>1, <1>2, LimitAssumption
  <2>3. EnvTypes'
    BY <1>1, <1>5, <1>6, <2>1, <2>2, Types DEF JInv, EnvTypes
  <2> QED BY <1>1, <2>3, Types, SameTypes DEF JInv
<1>8. ASSUME NEW j \in Journals, Planned(j)
      PROVE  /\ Planned(j)'
             /\ \A k \in Keys : Missing(j, k)' <=> k \in Bound
  <2>1. j.iface # 0
    BY DEF Journals
  <2>2. Absent \notin Targets
    BY ForeignAssumption
  <2> QED BY <1>1, <1>4, <1>8, <2>1, <2>2 DEF Planned, Missing
<1>9. \A i \in Keys : (Settled(i) => Settled(i)') /\ (Behind(i) => Behind(i)')
  <2>1. \A i \in Bound : Settled(i)' /\ Behind(i)'
    BY <1>1, <1>4, RouteAssumption DEF Settled, Behind
  <2> QED BY <2>1, <1>2, <1>4, FollowsKeeps
<1>10. World'
  <2>1. OneJournal' /\ RacedForeign'
    BY <1>1, <1>4 DEF JInv, World, OneJournal, RacedForeign
  <2>2. WellPlanned'
    <3> SUFFICES ASSUME NEW t \in Txns, disk[t] # NoJournal PROVE Planned(disk[t])'
      BY <1>1 DEF WellPlanned
    <3>1. PICK j \in Journals : j = disk[t]
      BY DEF JInv, TypeOK
    <3>2. Planned(j)'
      BY <3>1, <1>8 DEF JInv, World, WellPlanned
    <3> QED BY <3>1, <3>2, <1>1 DEF Planned
  <2>3. Undone'
    <3> SUFFICES ASSUME NEW i \in Keys, ~Settled(i)'
                 PROVE  \E t \in Txns : disk'[t] # NoJournal /\ Undoable(disk[t], i)'
      BY DEF Undone
    <3>1. i \notin Bound /\ ~Settled(i)
      BY <1>4, <1>9 DEF Settled
    <3>2. PICK t \in Txns : disk[t] # NoJournal /\ Undoable(disk[t], i)
      BY <3>1 DEF JInv, World, Undone
    <3>3. disk[t].intended \in Configs
      BY <3>2 DEF JInv, World, WellPlanned, Planned
    <3>4. Undoable(disk[t], i)'
      BY <3>1, <3>2, <3>3, <1>1, <1>2, <1>4, FollowsKeeps DEF Undoable, Missing
    <3> QED BY <3>2, <3>4, <1>1
  <2>4. RoutesForeign'
    <3>1. \A i \in Carried : base'[i] \notin Targets
      BY <1>2, <1>4, RouteAssumption DEF RoutesForeign
    <3> QED BY <3>1, <1>1, <1>6 DEF RoutesForeign
  <2>5. Journalled'
    BY <1>1, <1>9 DEF JInv, World, Journalled
  <2> QED BY <2>1, <2>2, <2>3, <2>4, <2>5 DEF World
<1>11. HelperHolds' /\ WindowHolds'
  <2>1. CASE phase \notin Restoring \cup Applying
    BY <1>1, <2>1 DEF helperVars, HelperHolds, WindowHolds, Restoring, Applying
  <2>2. CASE phase \in Restoring \cup Applying
    <3>1. PICK j \in Journals : j = mem /\ Planned(j)
      BY <2>2 DEF JInv, Inside, HelperHolds
    <3>2. Planned(j)' /\ \A k \in Keys : Missing(j, k)' <=> k \in Bound
      BY <3>1, <1>8
    <3>3. Planned(mem)' /\ \A k \in Keys : k \in Bound => Missing(mem, k)'
      BY <3>1, <3>2, <1>1 DEF helperVars, Planned, Missing
    <3>4. HelperHolds'
      BY <3>3, <1>1 DEF JInv, Inside, HelperHolds, SamePlan, helperVars
    <3> SUFFICES WindowHolds'
      BY <3>4
    <3>5. CASE phase \in {"script_write", "loop_write", "write"}
      <4>1. PICK i \in Keys : i = at
        BY <3>5 DEF JInv, Inside, HelperHolds
      <4>2. CASE i \in Bound
        <5>1. Missing(mem, at)'
          BY <4>1, <4>2, <3>3, <1>1 DEF Missing, helperVars
        <5>2. phase' = phase /\ mem' = mem /\ boot' = boot
          BY <1>1 DEF helperVars
        <5>3. phase \in {"script_write", "loop_write"} => mem.boot = boot
          BY DEF JInv, Inside, WindowHolds
        <5> QED BY <5>1, <5>2, <5>3 DEF WindowHolds
      <4>3. CASE i \notin Bound
        <5>1. Follows(i)
          BY <4>3, <1>4
        <5> QED BY <4>1, <4>3, <3>5, <5>1, <1>1, WindowFollows
      <4> QED BY <4>2, <4>3
    <3>6. CASE phase \notin {"script_write", "loop_write", "write"}
      <4>1. phase' = phase
        BY <1>1 DEF helperVars
      <4> QED BY <3>6, <4>1 DEF WindowHolds
    <3> QED BY <3>5, <3>6
  <2> QED BY <2>1, <2>2
<1>12. LoopSettles' /\ QueueHolds'
  BY <1>1, <1>9 DEF JInv, Inside, LoopSettles, QueueHolds, helperVars
<1> QED BY <1>7, <1>10, <1>11, <1>12 DEF JInv, Inside

\* After a restart every journal is of an earlier boot and undoes nothing.
LEMMA RebootKeeps == ASSUME JInv, Reboot PROVE JInv'
<1>1. /\ boot < MaxBoots /\ boot' = boot + 1 /\ iface' = 0 /\ base' = net'
      /\ net' \in [Keys -> Values] /\ raced' = [k \in Keys |-> FALSE] /\ Idle
      /\ lost' = {} /\ extra' = {} /\ \A k \in Carried : net'[k] \notin Targets
      /\ made' = made /\ changes' = changes /\ disk' = disk
  BY DEF Reboot
<1>2. boot \in 0..MaxBoots /\ made \in 0..MaxIfaces
  BY DEF JInv, TypeOK
<1>3. EnvTypes'
  <2>1. boot' \in 0..MaxBoots /\ iface' \in 0..MaxIfaces /\ iface' <= made'
    BY <1>1, <1>2, LimitAssumption
  <2> QED BY <1>1, <2>1 DEF JInv, TypeOK, EnvTypes
<1>4. TypeOK' /\ Inside'
  BY <1>1, <1>3, Types, SameTypes, IdleHolds DEF JInv
<1>5. WellPlanned'
  <2> SUFFICES ASSUME NEW t \in Txns, disk[t] # NoJournal PROVE Planned(disk[t])'
    BY <1>1 DEF WellPlanned
  <2>1. disk[t] \in Journals /\ Planned(disk[t])
    BY DEF JInv, TypeOK, World, WellPlanned
  <2>2. disk[t].boot \in 0..MaxBoots
    BY <2>1 DEF Journals
  <2>3. disk[t].boot <= boot' /\ disk[t].boot # boot'
    BY <1>1, <1>2, <2>1, <2>2, LimitAssumption DEF Planned
  <2> QED BY <1>1, <2>1, <2>3 DEF Planned
<1>6. OneJournal' /\ Undone' /\ RacedForeign' /\ RoutesForeign' /\ Journalled'
  BY <1>1 DEF JInv, World, OneJournal, Undone, Settled, RacedForeign, RoutesForeign, Journalled, Behind
<1> QED BY <1>4, <1>5, <1>6 DEF JInv, World

----------------------------------------------------------------------------
(* restore, step by step                                                   *)

\* restore_one's write gives the key back the value it would have; whatever
\* stands on the key follows, and the journal stays.
LEMMA RestoreWriteSettles ==
  ASSUME JInv, phase \in {"script_write", "loop_write"}, NEW k \in Keys, k = at,
         WriteBefore(mem, k), disk' = disk
  PROVE  /\ base' = base /\ raced' = raced /\ boot' = boot /\ iface' = iface /\ made' = made
         /\ EnvTypes' /\ World'
         /\ \A i \in Keys : Behind(i) => Behind(i)'
         /\ k \notin extra' /\ net'[k] = mem.before[k] => Behind(k)'
         /\ net'[k] # net[k] => net'[k] = base'[k] \/ raced'[k] \/ k \in lost
         /\ \A i \in Keys : i # k /\ net'[i] # net[i] => Follows(i)
<1>1. phase \in Restoring /\ phase \in Restoring \cup Applying
  BY DEF Restoring
<1>2. /\ mem \in Journals /\ mem.intended \in Configs /\ RoutesForeign /\ TypeOK
      /\ (k \in Carried => mem.before[k] \notin Targets)
      /\ txn \in Txns /\ disk[txn] # NoJournal
  BY <1>1 DEF JInv, World, TypeOK, Inside, HelperHolds, Planned
<1>3. mem.before[k] \in Values
  BY <1>2 DEF Journals
<1>4. base' = base /\ raced' = raced /\ boot' = boot /\ iface' = iface /\ made' = made /\ changes' = changes
  BY DEF WriteBefore
<1>5. CASE UNCHANGED <<net, extra, lost>>
  <2>1. UNCHANGED envVars
    BY <1>4, <1>5 DEF envVars
  <2>2. World' /\ EnvTypes'
    BY <2>1, SameWorld, Types, SameTypes DEF JInv
  <2>3. \A i \in Keys : (Behind(i) => Behind(i)') /\ (Settled(i) => Settled(i)')
    BY <2>1 DEF envVars, Behind, Settled
  <2>4. k \notin extra' /\ net'[k] = mem.before[k] => Behind(k)'
    BY <1>1, <1>2, <1>5, <2>3, BeforeSettled DEF Behind
  <2> QED BY <1>4, <1>5, <2>2, <2>3, <2>4
<1>6. CASE Reaches(mem, k, mem.before[k]) /\ Put(k, mem.before[k])
  <2>1. /\ net' \in [Keys -> Values] /\ extra' \subseteq Implied
        /\ lost' \subseteq Carried \ Listed /\ \A i \in lost' : base'[i] \notin {Absent, net'[i]}
        /\ net'[k] = mem.before[k] /\ k \notin extra' /\ extra' \subseteq extra
        /\ k \in lost => k \in lost' \/ net'[k] = base'[k]
        /\ k \in lost' => k \in lost
        /\ \A i \in Keys : i # k => Follows(i)
    <3>1. base' = base /\ base' \in [Keys -> Values] /\ \A i \in Keys : i # k => raced'[i] = raced[i]
      BY <1>2, <1>4 DEF TypeOK
    <3>2. PICK v \in Values : v = mem.before[k]
      BY <1>3
    <3>3. Put(k, v)
      BY <3>2, <1>6
    <3> HIDE DEF Put
    <3> QED BY <3>1, <3>2, <3>3, <1>2, PutEffect
  <2>2. Settled(k)' /\ (net'[k] = base'[k] \/ raced'[k] \/ k \in lost)
    <3>1. ~Missing(mem, k)
      BY <1>6 DEF Reaches
    <3>2. \/ raced[k] \/ Dropped(k)
          \/ mem.boot = boot /\ net[k] = mem.intended[k] /\ net[k] # mem.before[k]
      BY <3>1 DEF JInv, Inside, WindowHolds
    <3>3. raced[k] \/ k \in lost \/ mem.before[k] = base[k]
      BY <3>2, <1>1, OwnValue DEF Dropped
    <3> QED BY <3>3, <2>1, <1>4 DEF Settled
  <2>3. Behind(k)'
    BY <2>1, <2>2, <1>2 DEF Behind
  <2>4. EnvTypes'
    BY <1>2, <1>4, <2>1, Types DEF JInv, EnvTypes
  <2>5. \A i \in Keys : Behind(i) => Behind(i)'
    BY <2>1, <2>3, <1>2, FollowsKeeps
  <2>6. World'
    <3>1. OneJournal' /\ RacedForeign' /\ WellPlanned'
      BY <1>4 DEF JInv, World, OneJournal, RacedForeign, WellPlanned, Planned
    <3>2. Undone'
      <4> SUFFICES ASSUME NEW i \in Keys, ~Settled(i)'
                   PROVE  \E t \in Txns : disk'[t] # NoJournal /\ Undoable(disk[t], i)'
        BY DEF Undone
      <4>1. i # k /\ ~Settled(i)
        BY <2>1, <2>2, <1>2, FollowsKeeps
      <4>2. PICK t \in Txns : disk[t] # NoJournal /\ Undoable(disk[t], i)
        BY <4>1 DEF JInv, World, Undone
      <4>3. disk[t].intended \in Configs
        BY <4>2 DEF JInv, World, WellPlanned, Planned
      <4>4. Undoable(disk[t], i)'
        BY <4>1, <4>2, <4>3, <1>2, <1>4, <2>1, FollowsKeeps DEF Undoable, Missing
      <4> QED BY <4>2, <4>4
    <3>3. RoutesForeign'
      <4>1. ASSUME NEW i \in extra' PROVE net'[i] \notin Targets
        <5>1. i \in extra /\ i # k /\ i \in Keys /\ i \in Carried /\ net[i] \notin Targets
          BY <4>1, <1>2, <2>1, RouteAssumption DEF RoutesForeign, TypeOK
        <5> QED BY <5>1, <1>2, <2>1, FollowsKeeps
      <4> QED BY <4>1, <1>2, <1>4, <2>1 DEF RoutesForeign
    <3>4. Journalled'
      BY <1>2 DEF Journalled
    <3> QED BY <3>1, <3>2, <3>3, <3>4 DEF World
  <2> QED BY <1>4, <2>1, <2>2, <2>3, <2>4, <2>5, <2>6
<1> QED BY <1>5, <1>6 DEF WriteBefore

\* restore_one has dealt with key k; unless it failed, nothing is left at k.
LEMMA ReturnedKeeps ==
  ASSUME JInv, World', EnvTypes', base' = base, boot' = boot, made' = made,
         UNCHANGED <<disk, goal, txn, mem, queue>>,
         NEW k \in Keys, NEW failed \in BOOLEAN,
         phase \in Restoring,
         phase \in {"undo_loop", "loop_write"} => at = k,
         failed \/ Behind(k)',
         \A i \in Keys : Behind(i) => Behind(i)',
         Returned(phase \in {"undo_script", "script_write"}, k, failed)
  PROVE  JInv'
<1>0. /\ at \in 0..N /\ visited \subseteq Keys /\ warned \in BOOLEAN /\ k \in 1..N
      /\ 0 \in 0..N /\ N \in 0..N /\ k - 1 \in 0..N
  BY NAssumption DEF JInv, TypeOK, Keys
<1>1. /\ warned' = (warned \/ failed)
      /\ \/ phase' = "undo_script" /\ at' = 0 /\ visited' = visited \cup {k}
         \/ phase' = "undo_loop" /\ at' = N /\ visited' = visited
         \/ /\ phase \in {"undo_loop", "loop_write"} /\ phase' = "undo_loop"
            /\ at' = k - 1 /\ visited' = visited
  BY DEF Returned, NextDown, Restoring
<1>2. TypeOK'
  <2>1. HelperTypes'
    BY <1>0, <1>1, Types DEF JInv, HelperTypes, Phases
  <2> QED BY <2>1, Types, SameTypes DEF JInv
<1>3. HelperHolds'
  <2>1. Planned(mem)'
    BY DEF JInv, Inside, HelperHolds, Planned
  <2> QED BY <1>1, <2>1 DEF JInv, Inside, HelperHolds, Restoring, Applying
<1>4. WindowHolds' /\ QueueHolds'
  BY <1>1 DEF JInv, Inside, WindowHolds, QueueHolds, Restoring
<1>5. LoopSettles'
  <2> SUFFICES ASSUME phase' = "undo_loop", ~warned, ~failed, NEW i \in Keys, i > at' PROVE Behind(i)'
    BY <1>1, <1>0 DEF LoopSettles
  <2>1. phase \in {"undo_loop", "loop_write"} /\ at' = k - 1
    BY <1>1, NAssumption DEF Keys
  <2>2. i = k \/ i > at
    BY <2>1, <1>0 DEF Keys
  <2> QED BY <2>1, <2>2 DEF JInv, Inside, LoopSettles
<1> QED BY <1>2, <1>3, <1>4, <1>5 DEF JInv, Inside

\* restore_one up to its write.
LEMMA RestoreCheckKeeps == ASSUME JInv, NEW k \in Keys, RestoreCheck(k) PROVE JInv'
<1>1. /\ phase \in {"undo_script", "undo_loop"} /\ (phase = "undo_loop" => at = k)
      /\ UNCHANGED <<envVars, disk, goal, txn, mem, queue>>
  BY DEF RestoreCheck
<1>2. World' /\ EnvTypes' /\ \A i \in Keys : Behind(i) => Behind(i)'
  BY <1>1, SameWorld, Types, SameTypes DEF JInv, envVars, Behind, Settled
<1>3. CASE /\ Verdict(mem, k) = "write" /\ at' = k /\ UNCHANGED <<visited, warned>>
           /\ phase' = IF phase = "undo_script" THEN "script_write" ELSE "loop_write"
  <2>1. /\ mem.boot = boot /\ net[k] = mem.intended[k] /\ net[k] # mem.before[k]
    BY <1>1, <1>3, WriteOwned DEF Restoring
  <2>2. TypeOK'
    <3>1. k \in 0..N
      BY NAssumption DEF Keys
    <3>2. HelperTypes'
      BY <1>1, <1>3, <3>1, Types DEF JInv, HelperTypes, Phases
    <3> QED BY <1>1, <1>2, <3>2, Types, SameTypes DEF JInv
  <2>3. HelperHolds'
    <3>1. Planned(mem)'
      BY <1>1 DEF JInv, Inside, HelperHolds, Planned, Restoring, envVars
    <3> QED BY <1>1, <1>3, <3>1 DEF JInv, Inside, HelperHolds, Restoring, Applying
  <2>4. WindowHolds' /\ QueueHolds'
    BY <1>1, <1>3, <2>1 DEF JInv, Inside, WindowHolds, QueueHolds, envVars
  <2>5. LoopSettles'
    BY <1>1, <1>2, <1>3 DEF JInv, Inside, LoopSettles
  <2> QED BY <1>2, <2>2, <2>3, <2>4, <2>5 DEF JInv, Inside
<1>4. ASSUME NEW failed \in BOOLEAN, failed \/ Verdict(mem, k) = "done",
             Returned(phase = "undo_script", k, failed)
      PROVE  JInv'
  <2>1. failed \/ Behind(k)'
    BY <1>1, <1>2, <1>4, DoneSettled DEF Restoring
  <2>2. (phase = "undo_script") = (phase \in {"undo_script", "script_write"})
    BY <1>1
  <2>3. Returned(phase \in {"undo_script", "script_write"}, k, failed)
    BY <1>4, <2>2
  <2>4. base' = base /\ boot' = boot /\ made' = made /\ phase \in Restoring
    BY <1>1 DEF envVars, Restoring
  <2>5. phase \in {"undo_loop", "loop_write"} => at = k
    BY <1>1
  <2> QED BY <1>1, <1>2, <2>1, <2>3, <2>4, <2>5, ReturnedKeeps
<1> QED BY <1>3, <1>4 DEF RestoreCheck

\* restore_one's write, and the read that verifies it.
LEMMA RestoreWriteKeeps == ASSUME JInv, RestoreWrite PROVE JInv'
<1>1. /\ phase \in {"script_write", "loop_write"} /\ WriteBefore(mem, at)
      /\ UNCHANGED <<disk, goal, txn, mem, queue>>
  BY DEF RestoreWrite
<1>2. PICK failed \in BOOLEAN :
        /\ failed \/ (~Missing(mem, at) /\ at \notin extra' /\ net'[at] = mem.before[at])
        /\ Returned(phase = "script_write", at, failed)
  BY DEF RestoreWrite
<1>3. PICK k \in Keys : k = at
  BY <1>1 DEF JInv, Inside, HelperHolds
<1>4. /\ base' = base /\ boot' = boot /\ made' = made /\ EnvTypes' /\ World'
      /\ \A i \in Keys : Behind(i) => Behind(i)'
      /\ k \notin extra' /\ net'[k] = mem.before[k] => Behind(k)'
  BY <1>1, <1>3, RestoreWriteSettles
<1>5. phase \in Restoring /\ (failed \/ Behind(k)')
  BY <1>1, <1>2, <1>3, <1>4 DEF Restoring
<1>6. Returned(phase \in {"undo_script", "script_write"}, k, failed)
  <2>1. (phase = "script_write") = (phase \in {"undo_script", "script_write"})
    BY <1>1
  <2> QED BY <2>1, <1>2, <1>3
<1> QED BY <1>1, <1>3, <1>4, <1>5, <1>6, ReturnedKeeps

\* The disconnect script ends and the loop begins at the last mutation.
LEMMA RestoreScriptEndsKeeps == ASSUME JInv, RestoreScriptEnds PROVE JInv'
<1>1. /\ phase = "undo_script" /\ phase' = "undo_loop" /\ at' = N /\ warned' \in BOOLEAN
      /\ UNCHANGED <<envVars, disk, goal, txn, mem, visited, queue>>
  BY DEF RestoreScriptEnds, JInv, TypeOK
<1>2. N \in 0..N
  BY NAssumption
<1>3. TypeOK'
  <2>1. HelperTypes'
    BY <1>1, <1>2, Types DEF JInv, HelperTypes, Phases
  <2> QED BY <1>1, <2>1, Types, SameTypes DEF JInv
<1>4. HelperHolds'
  <2>1. Planned(mem)'
    BY <1>1 DEF JInv, Inside, HelperHolds, Planned, Restoring, envVars
  <2> QED BY <1>1, <2>1 DEF JInv, Inside, HelperHolds, Restoring, Applying
<1>5. WindowHolds' /\ QueueHolds'
  BY <1>1 DEF JInv, Inside, WindowHolds, QueueHolds
<1>6. LoopSettles'
  BY <1>1, NAssumption DEF LoopSettles, Keys
<1> QED BY <1>1, <1>3, <1>4, <1>5, <1>6, SameWorld DEF JInv, Inside

\* The helper goes on to plan, or to pick the next journal.
LEMMA GoesOnHolds ==
  ASSUME HelperTypes, phase' \in {"plan", "pick"}, mem' = NoJournal, at' = 0, visited' = {},
         warned' = FALSE, goal' = goal, txn' = txn, queue' = queue,
         txn \notin queue, \A t \in queue : disk'[t] # NoJournal
  PROVE  HelperTypes' /\ Inside'
<1>1. HelperTypes'
  <2>1. 0 \in 0..N /\ {"plan", "pick"} \subseteq Phases
    BY NAssumption DEF Phases
  <2> QED BY <2>1 DEF HelperTypes
<1>2. HelperHolds' /\ WindowHolds' /\ LoopSettles' /\ QueueHolds'
  BY DEF HelperHolds, WindowHolds, LoopSettles, QueueHolds, Restoring, Applying
<1> QED BY <1>1, <1>2 DEF Inside

\* The journal goes only when every key is settled.
LEMMA RestoreEndsKeeps == ASSUME JInv, RestoreEnds PROVE JInv'
<1>1. phase = "undo_loop" /\ at = 0 /\ UNCHANGED envVars
  BY DEF RestoreEnds
<1>2. PICK removed \in BOOLEAN :
        /\ removed => ~warned
        /\ disk' = IF removed THEN [disk EXCEPT ![txn] = NoJournal] ELSE disk
        /\ Continue(removed)
  BY DEF RestoreEnds, Clean
<1>3. /\ disk \in [Txns -> Journals \cup {NoJournal}] /\ txn \in Txns
      /\ queue \subseteq Txns /\ txn \notin queue /\ \A t \in queue : disk[t] # NoJournal
  BY <1>1 DEF JInv, TypeOK, Inside, QueueHolds
<1>4. DiskType' /\ (\A t \in Txns : disk'[t] # NoJournal => disk'[t] = disk[t])
      /\ (\A t \in queue : disk'[t] # NoJournal)
  BY <1>2, <1>3 DEF DiskType
<1>5. World'
  <2>1. CASE removed
    <3>1. \A k \in Keys : Behind(k)
      <4>1. \A k \in Keys : k > 0
        BY NAssumption DEF Keys
      <4> QED BY <4>1, <2>1, <1>1, <1>2 DEF JInv, Inside, LoopSettles
    <3>2. Undone' /\ RacedForeign' /\ RoutesForeign' /\ Journalled'
      BY <3>1, <1>1 DEF Undone, Behind, Settled, JInv, World, RacedForeign, RoutesForeign, Journalled, envVars
    <3>3. WellPlanned'
      <4> SUFFICES ASSUME NEW t \in Txns, disk'[t] # NoJournal PROVE Planned(disk[t])'
        BY DEF WellPlanned
      <4>1. disk'[t] = disk[t] /\ Planned(disk[t])
        BY <1>4 DEF JInv, World, WellPlanned
      <4> QED BY <4>1, <1>1 DEF Planned, envVars
    <3>4. OneJournal'
      BY <1>4 DEF JInv, World, OneJournal
    <3> QED BY <3>2, <3>3, <3>4 DEF World
  <2>2. CASE ~removed
    BY <2>2, <1>1, <1>2, SameWorld DEF JInv
  <2> QED BY <2>1, <2>2
<1>6. HelperTypes' /\ Inside'
  <2>1. HelperTypes
    BY Types DEF JInv
  <2> QED BY <2>1, <1>2, <1>3, <1>4, IdleHolds, GoesOnHolds DEF Continue
<1> QED BY <1>1, <1>4, <1>5, <1>6, Types, SameTypes DEF JInv

----------------------------------------------------------------------------
(* Entry points                                                            *)

\* A restore of a journal that was read from disk.
LEMMA RestoresFromDisk ==
  ASSUME JInv, UNCHANGED <<envVars, disk>>, NEW t \in Txns, disk[t] # NoJournal, txn' = t,
         goal' \in {"recover", "all", "disconnect", "connect", "undo"},
         queue' \subseteq queue, t \notin queue', StartRestore(disk[t])
  PROVE  JInv'
<1>1. PICK j \in Journals : j = disk[t]
  BY DEF JInv, TypeOK
<1>2. Planned(j)'
  BY <1>1 DEF JInv, World, WellPlanned, Planned, envVars
<1>3. /\ queue' \subseteq Txns /\ \A u \in queue' : disk'[u] # NoJournal
      /\ disk'[txn'] # NoJournal /\ SamePlan(j, disk'[txn'])
  BY <1>1 DEF JInv, TypeOK, Inside, QueueHolds, SamePlan
<1>4. HelperTypes' /\ Inside'
  BY <1>1, <1>2, <1>3, StartRestoreHolds
<1> QED BY <1>4, Types, SameTypes, SameWorld DEF JInv

\* recover(t) and lifecycle(t).
LEMMA BeginKeeps ==
  ASSUME JInv, NEW t \in Txns, NEW g \in {"recover", "disconnect", "connect"}, Begin(t, g) PROVE JInv'
<1>1. phase = "idle" /\ goal' = g /\ txn' = t /\ queue' = {} /\ UNCHANGED <<envVars, disk>>
  BY DEF Begin
<1>2. CASE disk[t] # NoJournal /\ StartRestore(disk[t])
  BY <1>1, <1>2, RestoresFromDisk
<1>3. CASE phase' = "plan" /\ UNCHANGED <<mem, at, visited, warned>>
  <2>1. HelperTypes'
    BY <1>1, <1>3, Types DEF JInv, HelperTypes, Phases
  <2>2. HelperHolds' /\ WindowHolds' /\ LoopSettles' /\ QueueHolds'
    BY <1>1, <1>3 DEF HelperHolds, WindowHolds, LoopSettles, QueueHolds, Restoring, Applying
  <2> QED BY <1>1, <2>1, <2>2, Types, SameTypes, SameWorld DEF JInv, Inside
<1> QED BY <1>2, <1>3 DEF Begin

\* recover_all reads the directory.
LEMMA BeginAllKeeps == ASSUME JInv, BeginAll PROVE JInv'
<1>1. /\ queue' = {t \in Txns : disk[t] # NoJournal} /\ phase' = "pick" /\ goal' = "all"
      /\ UNCHANGED <<envVars, disk, txn, mem, at, visited, warned>>
  BY DEF BeginAll
<1>2. HelperTypes'
  BY <1>1, Types DEF JInv, HelperTypes, Phases
<1>3. HelperHolds' /\ WindowHolds' /\ LoopSettles' /\ QueueHolds'
  BY <1>1 DEF HelperHolds, WindowHolds, LoopSettles, QueueHolds, Restoring, Applying
<1> QED BY <1>1, <1>2, <1>3, Types, SameTypes, SameWorld DEF JInv, Inside

\* recover_all takes the next journal.
LEMMA PickKeeps == ASSUME JInv, NEW t \in Txns, Pick(t) PROVE JInv'
<1>1. /\ t \in queue /\ queue' = queue \ {t} /\ txn' = t /\ StartRestore(disk[t])
      /\ UNCHANGED <<envVars, disk, goal>>
  BY DEF Pick
<1>2. disk[t] # NoJournal /\ goal' \in {"recover", "all", "disconnect", "connect", "undo"}
  BY <1>1 DEF JInv, Inside, QueueHolds, TypeOK
<1> QED BY <1>1, <1>2, RestoresFromDisk

----------------------------------------------------------------------------
(* lifecycle                                                               *)

\* A plan is made while no journal exists, so every key that is not raced has
\* its own value, and that is the value the plan records.
LEMMA PlanKeeps == ASSUME JInv, Plan PROVE JInv'
<1>1. phase = "plan" /\ UNCHANGED envVars
  BY DEF Plan
<1>2. CASE Idle /\ UNCHANGED disk
  BY <1>1, <1>2, IdleStep
<1>3. ASSUME ~Others, iface # 0, NEW cfg \in Configs, NEW saved \in BOOLEAN, NEW j,
             j = [boot |-> boot, iface |-> iface, before |-> net, intended |-> cfg,
                  applied |-> [k \in Keys |-> Absent], pending |-> 0],
             Save(j, saved),
             IF saved THEN /\ phase' = "preflight" /\ mem' = j
                           /\ UNCHANGED <<goal, txn, at, visited, warned, queue>>
                      ELSE Idle
      PROVE  JInv'
  <2>0. /\ net \in [Keys -> Values] /\ iface \in 0..MaxIfaces /\ boot \in 0..MaxBoots
        /\ made \in 0..MaxIfaces /\ iface <= made
        /\ disk \in [Txns -> Journals \cup {NoJournal}] /\ txn \in Txns /\ txn \notin queue
    BY <1>1 DEF JInv, TypeOK, Inside, QueueHolds
  <2>1. j \in Journals /\ j # NoJournal
    <3>1. cfg \in [Keys -> Values] /\ [k \in Keys |-> Absent] \in [Keys -> Values]
      BY ConfigTargets, ConfigAssumption DEF Values
    <3>2. iface \in 1..MaxIfaces /\ 0 \in 0..N
      BY <2>0, <1>3, NAssumption, LimitAssumption
    <3>3. j \in Journals
      BY <2>0, <3>1, <3>2, <1>3 DEF Journals
    <3> QED BY <3>3, NoJournalAssumption
  <2>2. \A t \in Txns : disk[t] = NoJournal
    BY <1>3 DEF Others
  <2>3. (\A k \in Keys : Settled(k)) /\ \A k \in Keys : Behind(k)
    BY <2>2 DEF JInv, World, Journalled, Behind
  <2>4. Planned(j)
    <3>1. ASSUME NEW k \in Keys, base[k] \in Targets PROVE net[k] = base[k]
      <4>1. ~raced[k] /\ k \notin lost
        BY <3>1, ForeignAssumption DEF JInv, World, RacedForeign, RoutesForeign, TypeOK
      <4> QED BY <4>1, <2>3 DEF Settled
    <3>2. \A k \in Carried : j.before[k] \notin Targets
      BY <2>3, <1>3, RouteAssumption DEF Behind
    <3> QED BY <3>1, <3>2, <2>0, <1>3 DEF Planned
  <2>5. Planned(j)'
    BY <2>4, <1>1 DEF Planned, envVars
  <2>6. /\ DiskType' /\ \A t \in Txns : disk'[t] # NoJournal => t = txn /\ disk'[t] = j
        /\ saved => disk'[txn] = j
    BY <1>3, <2>0, <2>1, <2>2 DEF Save, DiskType
  <2>7. World'
    <3>1. OneJournal'
      BY <2>6 DEF OneJournal
    <3>2. WellPlanned'
      BY <2>5, <2>6 DEF WellPlanned, Planned
    <3>3. Undone' /\ RacedForeign' /\ RoutesForeign' /\ Journalled'
      BY <2>3, <1>1 DEF JInv, World, Undone, Settled, RacedForeign, RoutesForeign, Journalled, Behind, envVars
    <3> QED BY <3>1, <3>2, <3>3 DEF World
  <2>8. HelperTypes' /\ Inside'
    <3>1. CASE ~saved
      BY <3>1, <1>3, IdleHolds, Types DEF JInv
    <3>2. CASE saved
      <4>1. /\ phase' = "preflight" /\ mem' = j
            /\ UNCHANGED <<goal, txn, at, visited, warned, queue>>
        BY <3>2, <1>3
      <4>2. HelperTypes'
        BY <4>1, <2>1, Types DEF JInv, HelperTypes, Phases
      <4>3. HelperHolds'
        <5>1. Planned(mem)' /\ mem'.boot = boot'
          BY <4>1, <2>5, <1>1, <1>3 DEF Planned, envVars
        <5>2. disk'[txn'] = j
          BY <4>1, <2>6, <3>2
        <5> QED BY <4>1, <5>1, <5>2, <2>1 DEF HelperHolds, SamePlan
      <4>4. WindowHolds' /\ LoopSettles'
        BY <4>1 DEF WindowHolds, LoopSettles
      <4>5. QueueHolds'
        BY <4>1, <2>0, <2>2 DEF JInv, Inside, QueueHolds, TypeOK
      <4> QED BY <4>2, <4>3, <4>4, <4>5 DEF Inside
    <3> QED BY <3>1, <3>2
  <2> QED BY <1>1, <2>6, <2>7, <2>8, Types, SameTypes DEF JInv
<1> QED BY <1>2, <1>3 DEF Plan

\* The helper moves on within lifecycle without a change on disk.
LEMMA MovesOn ==
  ASSUME JInv, World', EnvTypes', base' = base, boot' = boot, made' = made,
         phase \in Applying, phase' \in Applying,
         phase' \in {"check", "write", "record"} => at \in Keys,
         phase' = "write" => net'[at] = mem.before[at] \/ Missing(mem, at)',
         UNCHANGED <<disk, goal, txn, mem, at, visited, warned, queue>>
  PROVE  JInv'
<1>1. HelperTypes'
  BY Types DEF JInv, HelperTypes, Phases, Applying
<1>2. HelperHolds'
  <2>1. Planned(mem)'
    BY DEF JInv, Inside, HelperHolds, Planned
  <2> QED BY <2>1 DEF JInv, Inside, HelperHolds, SamePlan, Applying
<1>3. WindowHolds' /\ LoopSettles' /\ QueueHolds'
  BY DEF JInv, Inside, WindowHolds, LoopSettles, QueueHolds, Applying
<1> QED BY <1>1, <1>2, <1>3, Types, SameTypes DEF JInv, Inside

\* Nothing may have changed since planning.
LEMMA PreflightKeeps == ASSUME JInv, Preflight PROVE JInv'
<1>1. phase \in Applying /\ UNCHANGED <<envVars, disk>>
  BY DEF Preflight, Applying
<1>2. CASE phase' = "apply" /\ UNCHANGED <<goal, txn, mem, at, visited, warned, queue>>
  BY <1>1, <1>2, SameWorld, Types, SameTypes, MovesOn DEF JInv, Applying, envVars
<1> QED BY <1>1, <1>2, UndoMemKeeps DEF Preflight

\* The helper goes on with a version of its journal that was saved.
LEMMA SavedKeeps ==
  ASSUME JInv, phase \in Applying, UNCHANGED envVars, NEW j \in Journals, Planned(j),
         SamePlan(j, mem), DiskType', World', Planned(j)',
         disk'[txn] # NoJournal, SamePlan(j, disk'[txn]), \A t \in queue : disk'[t] # NoJournal,
         mem' = j, phase' \in {"apply", "check"}, at' \in 0..N, phase' = "check" => at' \in Keys,
         visited' \subseteq Keys, UNCHANGED <<goal, txn, warned, queue>>
  PROVE  JInv'
<1>1. HelperTypes'
  BY Types DEF JInv, HelperTypes, Phases
<1>2. HelperHolds'
  <2>1. Planned(mem)' /\ mem'.boot = boot'
    BY DEF JInv, Inside, HelperHolds, SamePlan, Planned, envVars
  <2> QED BY <2>1 DEF HelperHolds, SamePlan
<1>3. WindowHolds' /\ LoopSettles'
  BY DEF WindowHolds, LoopSettles
<1>4. QueueHolds'
  BY DEF JInv, Inside, QueueHolds, Applying
<1> QED BY <1>1, <1>2, <1>3, <1>4, Types, SameTypes DEF JInv, Inside

\* A mutation becomes the pending one.
LEMMA ApplyIntentKeeps == ASSUME JInv, NEW k \in Keys, ApplyIntent(k) PROVE JInv'
<1>1. phase \in Applying /\ UNCHANGED envVars
  BY DEF ApplyIntent, Applying
<1>2. PICK j : j = [mem EXCEPT !.pending = k]
  OBVIOUS
<1>3. PICK saved \in BOOLEAN :
        /\ Save(j, saved)
        /\ IF saved THEN /\ phase' = "check" /\ mem' = j /\ at' = k
                         /\ UNCHANGED <<goal, txn, visited, warned, queue>>
                    ELSE Undo(j)
  BY <1>2 DEF ApplyIntent
<1>4. mem \in Journals /\ Planned(mem) /\ k \in 0..N
  BY <1>1, NAssumption DEF JInv, Inside, HelperHolds, Keys
<1>5. j \in Journals /\ Planned(j) /\ SamePlan(j, mem)
  BY <1>2, <1>4 DEF Journals, Planned, SamePlan
<1>6. /\ DiskType' /\ World' /\ Planned(j)'
      /\ disk'[txn] # NoJournal /\ SamePlan(j, disk'[txn])
      /\ \A t \in queue : disk'[t] # NoJournal
  BY <1>1, <1>3, <1>5, SaveKeeps
<1>7. CASE saved
  <2>1. /\ phase' \in {"apply", "check"} /\ mem' = j /\ at' \in 0..N /\ at' \in Keys
        /\ visited' \subseteq Keys /\ UNCHANGED <<goal, txn, warned, queue>>
    BY <1>3, <1>4, <1>7 DEF JInv, TypeOK
  <2> QED BY <2>1, <1>1, <1>5, <1>6, SavedKeeps
<1>8. CASE ~saved
  BY <1>1, <1>3, <1>5, <1>6, <1>8, UndoKeeps
<1> QED BY <1>7, <1>8

\* apply_one up to its write.
LEMMA ApplyCheckKeeps == ASSUME JInv, ApplyCheck PROVE JInv'
<1>1. phase = "check" /\ phase \in Applying /\ UNCHANGED <<envVars, disk>>
  BY DEF ApplyCheck, Applying
<1>2. at \in Keys
  BY <1>1 DEF JInv, Inside, HelperHolds
<1>3. CASE /\ Read(mem, at) \in {mem.before[at], mem.intended[at]} \/ Implicit(at)
           /\ phase' = IF Read(mem, at) = mem.intended[at] THEN "record" ELSE "write"
           /\ UNCHANGED <<goal, txn, mem, at, visited, warned, queue>>
  <2>1. phase' = "write" => net[at] = mem.before[at] \/ Missing(mem, at)
    <3>1. mem \in Journals
      BY <1>1 DEF JInv, Inside, HelperHolds
    <3>2. mem.before[at] # Mixed
      BY <3>1, <1>2, MixedAssumption DEF Journals
    <3> QED BY <3>2, <1>3 DEF Read, Implicit
  <2>2. phase' = "write" => net'[at] = mem.before[at] \/ Missing(mem, at)'
    BY <2>1, <1>1, <1>3 DEF Missing, envVars
  <2>3. phase' \in Applying
    BY <1>3 DEF Applying
  <2> QED BY <1>1, <1>2, <1>3, <2>2, <2>3, SameWorld, Types, SameTypes, MovesOn DEF JInv, envVars
<1> QED BY <1>1, <1>3, UndoMemKeeps DEF ApplyCheck

\* apply_one's write moves the key from its own value, and the connected routes
\* that come with it from theirs.
LEMMA ApplyWriteWorld ==
  ASSUME JInv, phase = "write", NEW k \in Keys, k = at, disk' = disk, WriteIntended(mem, k)
  PROVE  /\ base' = base /\ boot' = boot /\ made' = made /\ EnvTypes' /\ World'
         /\ \A i \in Keys : net'[i] # net[i] /\ ~raced[i] /\ i \notin lost =>
                \/ net[i] = base[i] /\ net[i] = mem.before[i] /\ net'[i] = mem.intended[i]
                \/ i # k /\ i \in Carried /\ net[i] = Absent /\ net'[i] = mem.intended[i]
<1>1. phase \in Restoring \cup Applying /\ mem.boot = boot
  BY DEF Applying, JInv, Inside, HelperHolds
<1>2. /\ mem.intended \in Configs /\ TypeOK /\ RoutesForeign
      /\ txn \in Txns /\ disk[txn] # NoJournal /\ SamePlan(mem, disk[txn])
  BY <1>1 DEF JInv, World, TypeOK, Inside, HelperHolds, Planned
<1>3. \A i \in Keys : mem.intended[i] \in Values /\ mem.intended[i] \in Targets
  BY <1>2, ConfigTargets
<1>4. base' = base /\ lost' = lost /\ boot' = boot /\ iface' = iface /\ made' = made /\ changes' = changes
  BY DEF WriteIntended
<1>5. CASE UNCHANGED <<net, extra, raced>>
  <2>1. UNCHANGED envVars
    BY <1>4, <1>5 DEF envVars
  <2> QED BY <2>1, <1>4, <1>5, SameWorld, Types, SameTypes DEF JInv
<1>6. ASSUME Reaches(mem, k, mem.intended[k]),
             NEW came \in SUBSET {r \in Implied : k \in Needs[r] /\ net[r] \notin Targets},
             NEW exact \in SUBSET {r \in came : net[r] \in {mem.before[r], Absent}},
             net' = [i \in Keys |-> IF i \in exact \cup {k} THEN mem.intended[i] ELSE net[i]],
             extra' = ((extra \cup came) \ exact) \ {k},
             raced' = [i \in Keys |-> raced[i] \/ (i \in exact /\ base[i] # mem.before[i])]
      PROVE  /\ EnvTypes' /\ World'
             /\ \A i \in Keys : net'[i] # net[i] /\ ~raced[i] /\ i \notin lost =>
                    \/ net[i] = base[i] /\ net[i] = mem.before[i] /\ net'[i] = mem.intended[i]
                    \/ i # k /\ i \in Carried /\ net[i] = Absent /\ net'[i] = mem.intended[i]
  <2>1. \A r \in came : r \in Implied /\ r \in Carried /\ r \in Listed /\ r # k /\ r \in Keys
                        /\ r \notin Bound /\ net[r] \notin Targets
    BY RouteAssumption
  <2>2. \A r \in exact : r \in came /\ net[r] \in {mem.before[r], Absent}
    OBVIOUS
  <2>3. \A i \in Keys : /\ net'[i] = IF i \in exact \/ i = k THEN mem.intended[i] ELSE net[i]
                        /\ raced'[i] = (raced[i] \/ (i \in exact /\ base[i] # mem.before[i]))
    BY <1>6
  <2>4. k \notin exact /\ ~Missing(mem, k)
    BY <2>1, <2>2, <1>6 DEF Reaches
  <2>5. EnvTypes'
    <3>1. net' \in [Keys -> Values] /\ raced' \in [Keys -> BOOLEAN] /\ extra' \subseteq Implied
      BY <1>2, <1>3, <1>6, <2>1 DEF TypeOK
    <3> QED BY <3>1, <1>2, <1>4, Types DEF JInv, EnvTypes
  <2>6. raced[k] \/ net[k] = mem.before[k]
    BY <2>4 DEF JInv, Inside, WindowHolds
  <2>7. ASSUME NEW i \in Keys, net[i] = mem.before[i], ~raced[i], i \notin lost PROVE net[i] = base[i]
    BY <2>7, <1>1, BeforeSettled DEF Settled
  <2>8. ASSUME NEW i \in Keys, ~Settled(i)'
        PROVE  \E t \in Txns : disk'[t] # NoJournal /\ Undoable(disk[t], i)'
    <3>1. CASE i \in exact \/ i = k
      <4>1. ~Missing(mem, i)
        BY <3>1, <2>1, <2>2, <2>4 DEF Missing
      <4>2. ~raced[i] /\ i \notin lost
        BY <2>8, <2>3, <1>4 DEF Settled
      <4>3. mem.before[i] = base[i]
        BY <2>8, <3>1, <4>2, <2>3, <2>6, <2>7 DEF Settled
      <4>4. net'[i] = mem.intended[i]
        BY <3>1, <2>3
      <4>5. \A t \in Txns : t = txn => Undoable(disk[t], i)'
        BY <4>1, <4>3, <4>4, <1>1, <1>2, <1>4 DEF SamePlan, Undoable, Missing
      <4> QED BY <4>5, <1>2
    <3>2. CASE ~(i \in exact \/ i = k)
      <4>1. net'[i] = net[i] /\ raced'[i] = raced[i] /\ ~Settled(i)
        BY <3>2, <2>3, <2>8, <1>4 DEF Settled, JInv, TypeOK
      <4> QED BY <4>1, <1>4 DEF JInv, World, Undone, Undoable, Missing
    <3> QED BY <3>1, <3>2
  <2>9. World'
    <3>1. OneJournal' /\ WellPlanned' /\ Journalled'
      BY <1>2, <1>4 DEF JInv, World, OneJournal, WellPlanned, Planned, Journalled
    <3>2. Undone'
      BY <2>8 DEF Undone
    <3>3. RacedForeign'
      <4>1. \A i \in exact : base[i] \in Values /\ base[i] \notin Targets
        BY <1>2, <2>1, <2>2 DEF TypeOK, RoutesForeign
      <4> QED BY <4>1, <1>4, <2>3 DEF JInv, World, RacedForeign, Values
    <3>4. RoutesForeign'
      <4>1. ASSUME NEW i \in lost' PROVE base'[i] \notin {Absent, net'[i]}
        <5>1. i \in lost /\ i \in Carried /\ i \notin Listed /\ i \in Keys
          BY <4>1, <1>2, <1>4, RouteAssumption DEF TypeOK
        <5>2. i \notin exact
          BY <5>1, <2>1, <2>2
        <5> QED BY <5>1, <5>2, <1>2, <1>3, <1>4, <2>3 DEF RoutesForeign
      <4>2. ASSUME NEW i \in extra' PROVE net'[i] \notin Targets
        <5>1. i # k /\ i \notin exact /\ (i \in extra \/ i \in came)
          BY <4>2, <1>6
        <5>2. i \in Keys /\ net[i] \notin Targets
          BY <5>1, <1>2, <2>1, RouteAssumption DEF TypeOK, RoutesForeign
        <5> QED BY <5>1, <5>2, <2>3
      <4> QED BY <4>1, <4>2, <1>2, <1>4 DEF RoutesForeign
    <3> QED BY <3>1, <3>2, <3>3, <3>4 DEF World
  <2>10. ASSUME NEW i \in Keys, net'[i] # net[i], ~raced[i], i \notin lost
         PROVE  \/ net[i] = base[i] /\ net[i] = mem.before[i] /\ net'[i] = mem.intended[i]
                \/ i # k /\ i \in Carried /\ net[i] = Absent /\ net'[i] = mem.intended[i]
    <3>1. net'[i] = mem.intended[i] /\ (i \in exact \/ i = k)
      BY <2>3, <2>10
    <3>2. CASE net[i] = mem.before[i]
      BY <3>1, <3>2, <2>7, <2>10
    <3>3. CASE net[i] # mem.before[i]
      BY <3>1, <3>3, <2>1, <2>2, <2>4, <2>6, <2>10
    <3> QED BY <3>2, <3>3
  <2> QED BY <2>5, <2>9, <2>10
<1>7. /\ EnvTypes' /\ World'
      /\ \A i \in Keys : net'[i] # net[i] /\ ~raced[i] /\ i \notin lost =>
             \/ net[i] = base[i] /\ net[i] = mem.before[i] /\ net'[i] = mem.intended[i]
             \/ i # k /\ i \in Carried /\ net[i] = Absent /\ net'[i] = mem.intended[i]
  BY <1>5, <1>6 DEF WriteIntended
<1> QED BY <1>4, <1>7

\* apply_one's write, whatever becomes of it.
LEMMA ApplyWriteKeeps == ASSUME JInv, ApplyWrite PROVE JInv'
<1>1. phase = "write" /\ WriteIntended(mem, at) /\ disk' = disk /\ phase \in Applying
  BY DEF ApplyWrite, Applying
<1>2. PICK k \in Keys : k = at
  BY <1>1 DEF JInv, Inside, HelperHolds
<1>3. base' = base /\ boot' = boot /\ made' = made /\ EnvTypes' /\ World'
  BY <1>1, <1>2, ApplyWriteWorld
<1>4. CASE phase' = "record" /\ UNCHANGED <<goal, txn, mem, at, visited, warned, queue>>
  <2>1. phase' \in Applying /\ at \in Keys
    BY <1>2, <1>4 DEF Applying
  <2> QED BY <1>1, <1>3, <1>4, <2>1, MovesOn
<1>5. CASE Undo(mem)
  <2>1. PICK j \in Journals : j = mem
    BY <1>1 DEF JInv, Inside, HelperHolds
  <2>2. Planned(j)' /\ disk'[txn] # NoJournal /\ SamePlan(j, disk'[txn])
    BY <2>1, <1>1, <1>3 DEF JInv, Inside, HelperHolds, Planned
  <2>3. txn \in Txns /\ queue \subseteq Txns /\ txn \notin queue /\ \A t \in queue : disk'[t] # NoJournal
    BY <1>1 DEF JInv, TypeOK, Inside, QueueHolds
  <2>4. StartRestore(j) /\ goal' = "undo" /\ txn' = txn /\ queue' = queue
    BY <2>1, <1>5 DEF Undo
  <2>5. HelperTypes' /\ Inside'
    BY <2>2, <2>3, <2>4, StartRestoreHolds
  <2>6. DiskType'
    BY <1>1, Types, SameTypes DEF JInv
  <2> QED BY <1>3, <2>5, <2>6, Types DEF JInv
<1> QED BY <1>4, <1>5 DEF ApplyWrite

\* The observed result is recorded.
LEMMA ApplyRecordKeeps == ASSUME JInv, ApplyRecord PROVE JInv'
<1>1. phase = "record" /\ phase \in Applying /\ UNCHANGED envVars
  BY DEF ApplyRecord, Applying
<1>2. CASE Undo(mem) /\ UNCHANGED disk
  BY <1>1, <1>2, UndoMemKeeps
<1>3. PICK j : j = [mem EXCEPT !.applied[at] = mem.intended[at], !.pending = 0]
  OBVIOUS
<1>4. ASSUME NEW saved \in BOOLEAN, Save(j, saved),
             IF saved THEN /\ phase' = "apply" /\ mem' = j /\ at' = 0
                           /\ visited' = visited \cup {at}
                           /\ UNCHANGED <<goal, txn, warned, queue>>
                      ELSE Undo(j)
      PROVE  JInv'
  <2>1. mem \in Journals /\ Planned(mem) /\ at \in Keys /\ mem.intended \in Configs /\ 0 \in 0..N
    BY <1>1, NAssumption DEF JInv, Inside, HelperHolds, Planned
  <2>2. mem.intended[at] \in Values
    BY <2>1, ConfigTargets
  <2>3. j \in Journals /\ SamePlan(j, mem)
        /\ (\A k \in Keys : j.applied[k] = IF k = at THEN mem.intended[k] ELSE mem.applied[k])
    BY <1>3, <2>1, <2>2 DEF Journals, SamePlan
  <2>4. Planned(j)
    BY <2>1, <2>3 DEF Planned, SamePlan
  <2>5. /\ DiskType' /\ World' /\ Planned(j)'
        /\ disk'[txn] # NoJournal /\ SamePlan(j, disk'[txn])
        /\ \A t \in queue : disk'[t] # NoJournal
    BY <1>1, <1>4, <2>3, <2>4, SaveKeeps
  <2>6. CASE saved
    <3>1. /\ phase' = "apply" /\ mem' = j /\ at' \in 0..N
          /\ visited' \subseteq Keys /\ UNCHANGED <<goal, txn, warned, queue>>
      BY <1>4, <2>1, <2>6 DEF JInv, TypeOK
    <3> QED BY <3>1, <1>1, <2>3, <2>4, <2>5, SavedKeeps
  <2>7. CASE ~saved
    BY <1>1, <1>4, <2>3, <2>5, <2>7, UndoKeeps
  <2> QED BY <2>6, <2>7
<1> QED BY <1>2, <1>3, <1>4 DEF ApplyRecord

\* The script ends.
LEMMA ApplyEndsKeeps == ASSUME JInv, ApplyEnds PROVE JInv'
<1>1. phase \in Applying /\ UNCHANGED <<envVars, disk>>
  BY DEF ApplyEnds, Applying
<1>2. CASE phase' = "verify" /\ UNCHANGED <<goal, txn, mem, at, visited, warned, queue>>
  BY <1>1, <1>2, SameWorld, Types, SameTypes, MovesOn DEF JInv, Applying, envVars
<1> QED BY <1>1, <1>2, UndoMemKeeps DEF ApplyEnds

\* The connection is reported, or everything is undone.
LEMMA VerifyKeeps == ASSUME JInv, Verify PROVE JInv'
<1>1. phase \in Applying /\ UNCHANGED envVars
  BY DEF Verify, Applying
<1>2. CASE Undo(mem) /\ UNCHANGED disk
  BY <1>1, <1>2, UndoMemKeeps
<1>3. PICK j : j = [mem EXCEPT !.applied = mem.intended]
  OBVIOUS
<1>4. ASSUME NEW saved \in BOOLEAN, Save(j, saved), (saved /\ Idle) \/ Undo(j) PROVE JInv'
  <2>1. mem \in Journals /\ Planned(mem)
    BY <1>1 DEF JInv, Inside, HelperHolds
  <2>2. j \in Journals /\ SamePlan(j, mem) /\ j.applied = j.intended
    BY <1>3, <2>1 DEF Journals, SamePlan
  <2>3. Planned(j)
    BY <2>1, <2>2 DEF Planned, SamePlan
  <2>4. /\ DiskType' /\ World' /\ Planned(j)'
        /\ disk'[txn] # NoJournal /\ SamePlan(j, disk'[txn])
        /\ \A t \in queue : disk'[t] # NoJournal
    BY <1>1, <1>4, <2>2, <2>3, SaveKeeps
  <2>5. CASE Idle
    BY <2>5, <1>1, <2>4, IdleHolds, Types, SameTypes DEF JInv
  <2>6. CASE Undo(j)
    BY <1>1, <2>2, <2>4, <2>6, UndoKeeps
  <2> QED BY <1>4, <2>5, <2>6
<1> QED BY <1>2, <1>3, <1>4 DEF Verify

----------------------------------------------------------------------------
(* The theorems                                                            *)

\* The invariant holds before the first transaction.
LEMMA JInvInit == Init => JInv
<1> SUFFICES ASSUME Init PROVE JInv
  OBVIOUS
<1>1. TypeOK
  <2>1. Foreign \cup {Absent} \subseteq Values /\ 0 \in 0..N /\ 0 \in 0..MaxBoots
        /\ 0 \in 0..MaxIfaces /\ 0 \in 0..MaxChanges /\ 0 <= 0
    BY NAssumption, LimitAssumption DEF Values
  <2>2. net \in [Keys -> Values] /\ base \in [Keys -> Values] /\ raced \in [Keys -> BOOLEAN]
    BY <2>1 DEF Init
  <2>3. EnvTypes
    BY <2>1, <2>2 DEF Init, EnvTypes
  <2>4. HelperTypes
    BY <2>1 DEF Init, HelperTypes, Phases
  <2> QED BY <2>3, <2>4 DEF Init, TypeOK, EnvTypes, HelperTypes
<1>2. World
  <2>1. \A k \in Keys : net[k] \notin Targets /\ base[k] = net[k]
    BY ForeignAssumption DEF Init
  <2>2. RoutesForeign /\ Journalled
    BY <2>1, RouteAssumption DEF Init, RoutesForeign, Journalled, Behind, Settled
  <2> QED BY <2>2 DEF Init, World, OneJournal, WellPlanned, Undone, Settled, RacedForeign
<1>3. Inside
  BY DEF Init, Inside, HelperHolds, WindowHolds, LoopSettles, QueueHolds, Restoring, Applying
<1> QED BY <1>1, <1>2, <1>3 DEF JInv

\* Every step of the helper keeps the invariant.
LEMMA HelperKeeps == ASSUME JInv, Helper PROVE JInv'
<1>1. ASSUME NEW k \in Keys, RestoreCheck(k) \/ ApplyIntent(k) PROVE JInv'
  BY <1>1, RestoreCheckKeeps, ApplyIntentKeeps
<1>2. ASSUME NEW t \in Txns, Pick(t) PROVE JInv'
  BY <1>2, PickKeeps
<1>3. CASE PickEnds
  BY <1>3, IdleStep DEF PickEnds
<1> QED
  BY <1>1, <1>2, <1>3, RestoreWriteKeeps, RestoreScriptEndsKeeps, RestoreEndsKeeps, PlanKeeps,
     PreflightKeeps, ApplyCheckKeeps, ApplyWriteKeeps, ApplyRecordKeeps, ApplyEndsKeeps, VerifyKeeps
  DEF Helper

\* Every step of the system keeps it: a crash of the helper, a restart of the
\* machine, an interface that goes and a change by somebody else included.
LEMMA JInvNext == JInv /\ [Next]_vars => JInv'
<1> SUFFICES ASSUME JInv, [Next]_vars PROVE JInv'
  OBVIOUS
<1>1. ASSUME NEW t \in Txns, NEW g \in {"recover", "disconnect", "connect"}, Begin(t, g) PROVE JInv'
  BY <1>1, BeginKeeps
<1>2. ASSUME NEW k \in Keys, NEW v \in Foreign \cup {Absent}, Change(k, v) PROVE JInv'
  BY <1>2, ChangeKeeps
<1>3. CASE Crash
  BY <1>3, IdleStep DEF Crash
<1>4. CASE UNCHANGED vars
  <2>1. TypeOK'
    BY <1>4 DEF JInv, TypeOK, vars, envVars, helperVars
  <2>2. World'
    BY <1>4, SameWorld DEF JInv, vars
  <2>3. Inside'
    BY <1>4 DEF JInv, Inside, HelperHolds, Planned, SamePlan, WindowHolds, Missing, LoopSettles,
                Dropped, Behind, Settled, QueueHolds, vars, envVars, helperVars
  <2> QED BY <2>1, <2>2, <2>3 DEF JInv
<1> QED
  BY <1>1, <1>2, <1>3, <1>4, HelperKeeps, BeginAllKeeps, AppearKeeps, VanishKeeps, RebootKeeps DEF Next

\* JInv holds in every state, for any keys, transactions and configurations.
THEOREM JournalInvariant == Spec => []JInv
BY JInvInit, JInvNext, PTL DEF Spec

\* The types of the journal, the network and the helper.
THEOREM JournalTypes == Spec => []TypeOK
<1>1. JInv => TypeOK
  BY DEF JInv
<1> QED BY <1>1, JournalInvariant, PTL

\* From any point, a crash between any two steps included, the journal on disk
\* undoes every change of the helper: restore_one would find its own value
\* there and write the key's own value back.  Where the kernel took the helper's
\* route and that had replaced another, a journal of Linux still knows the
\* replaced one and stays.
\* (save before apply_script, pending_operation, `if warnings.is_empty()' in restore.)
THEOREM JournalRestorable == Spec => []Restorable
<1>1. JInv => Restorable
  <2> SUFFICES ASSUME JInv PROVE Restorable
    OBVIOUS
  <2>1. ASSUME NEW k \in Keys, net[k] # base[k], ~raced[k], k \notin lost
        PROVE  \E t \in Txns : \/ Knows(t, k, "write")
                               \/ Knows(t, k, "keep") /\ k \in Carried \cap Listed /\ net[k] = Absent
    <3>1. PICK t \in Txns : disk[t] # NoJournal /\ Undoable(disk[t], k)
      BY <2>1 DEF JInv, World, Undone, Settled
    <3>2. /\ disk[t].intended \in Configs
          /\ disk[t].applied[k] \in {Absent, disk[t].intended[k]}
      BY <3>1 DEF JInv, World, WellPlanned, Planned
    <3>3. /\ disk[t].intended[k] \in Targets /\ disk[t].intended[k] # Absent
          /\ disk[t].intended[k] # Mixed
      BY <3>2, ConfigTargets, MixedAssumption
    <3>4. disk[t].before[k] = base[k] /\ base[k] # Mixed /\ ~Missing(disk[t], k) /\ disk[t].boot = boot
      <4>1. base[k] \in Values
        BY DEF JInv, TypeOK
      <4> QED BY <4>1, <3>1, MixedAssumption DEF Undoable
    <3>5. CASE net[k] = disk[t].intended[k]
      <4>1. Read(disk[t], k) = net[k]
        BY <3>3, <3>4, <3>5 DEF Read, JInv, World, RoutesForeign
      <4>2. Verdict(disk[t], k) = "write"
        <5>1. Read(disk[t], k) # disk[t].before[k]
          BY <4>1, <2>1, <3>4
        <5>2. Read(disk[t], k) = disk[t].intended[k] /\ ~Nothing(k, Read(disk[t], k))
          BY <4>1, <3>3, <3>5 DEF Nothing
        <5> QED BY <5>1, <5>2, <3>2, <3>4 DEF Verdict
      <4> QED BY <4>2, <3>1, <3>4 DEF Knows
    <3>6. CASE k \in Carried \cap Listed /\ net[k] = Absent
      <4>1. Read(disk[t], k) \in {Absent, Mixed}
        BY <3>4, <3>6 DEF Read
      <4>2. Verdict(disk[t], k) = "keep"
        BY <4>1, <2>1, <3>2, <3>3, <3>4, <3>6 DEF Verdict, Nothing
      <4> QED BY <4>2, <3>1, <3>4, <3>6 DEF Knows
    <3> QED BY <3>1, <3>5, <3>6 DEF Undoable
  <2>2. extra # {} => Others
    <3>1. extra \subseteq Keys
      BY RouteAssumption DEF JInv, TypeOK
    <3> QED BY <3>1 DEF JInv, World, Journalled, Behind, Others
  <2> QED BY <2>1, <2>2 DEF Restorable
<1> QED BY <1>1, JournalInvariant, PTL

\* What ForeignPreserved says of one step.
Preserves ==
    \A k \in Keys : base'[k] = base[k] /\ net'[k] # net[k] /\ ~raced[k] /\ k \notin lost =>
        \/ net[k] = base[k] /\ net[k] = mem.before[k] /\ net'[k] = mem.intended[k]
        \/ net'[k] = base[k]
        \/ /\ k \in Carried /\ (InWindow(k) => phase' = phase)
           /\ \/ net[k] \in Targets /\ net'[k] = Absent
              \/ net[k] = Absent /\ net'[k] = mem.intended[k]

\* Every step that is not somebody else's moves a key away from its own value to
\* the intended one, or back to it, or the kernel moves a route.
LEMMA NextPreserves == JInv /\ [Next]_vars => [Preserves]_vars
<1> SUFFICES ASSUME JInv, Next, NEW i \in Keys, base'[i] = base[i], net'[i] # net[i], ~raced[i], i \notin lost
             PROVE  \/ net[i] = base[i] /\ net[i] = mem.before[i] /\ net'[i] = mem.intended[i]
                    \/ net'[i] = base[i]
                    \/ /\ i \in Carried /\ (InWindow(i) => phase' = phase)
                       /\ \/ net[i] \in Targets /\ net'[i] = Absent
                          \/ net[i] = Absent /\ net'[i] = mem.intended[i]
  BY DEF Preserves
<1> USE DEF envVars
<1>1. CASE RestoreWrite
  <2>1. PICK k \in Keys : k = at
    BY <1>1 DEF RestoreWrite, JInv, Inside, HelperHolds
  <2>2. phase \in {"script_write", "loop_write"} /\ WriteBefore(mem, k) /\ disk' = disk
    BY <1>1, <2>1 DEF RestoreWrite
  <2>3. /\ raced' = raced /\ (net'[k] # net[k] => net'[k] = base'[k] \/ raced'[k] \/ k \in lost)
        /\ i # k => Follows(i)
    BY <2>1, <2>2, RestoreWriteSettles
  <2>4. CASE i = k
    BY <2>3, <2>4
  <2>5. CASE i # k
    BY <2>1, <2>3, <2>5 DEF Follows, InWindow
  <2> QED BY <2>4, <2>5
<1>2. CASE ApplyWrite
  <2>1. PICK k \in Keys : k = at
    BY <1>2 DEF ApplyWrite, JInv, Inside, HelperHolds
  <2>2. phase = "write" /\ disk' = disk /\ WriteIntended(mem, k)
    BY <1>2, <2>1 DEF ApplyWrite
  <2>3. \/ net[i] = base[i] /\ net[i] = mem.before[i] /\ net'[i] = mem.intended[i]
        \/ i # k /\ i \in Carried /\ net[i] = Absent /\ net'[i] = mem.intended[i]
    BY <2>1, <2>2, ApplyWriteWorld
  <2> QED BY <2>1, <2>3 DEF InWindow
<1>3. ASSUME NEW k \in Keys, NEW v \in Foreign \cup {Absent}, Change(k, v)
      PROVE  net'[i] = base'[i] \/ (Follows(i) /\ phase' = phase)
  <2>1. /\ Put(k, v) /\ base' = [base EXCEPT ![k] = v]
        /\ raced' = [raced EXCEPT ![k] = InWindow(k)] /\ phase' = phase
    BY <1>3 DEF Change, helperVars
  <2>2. /\ base \in [Keys -> Values] /\ raced \in [Keys -> BOOLEAN] /\ TypeOK /\ RoutesForeign
        /\ v \in Values
    BY DEF JInv, TypeOK, World, Values
  <2>3. base' \in [Keys -> Values] /\ base'[k] = v /\ \A x \in Keys : x # k => raced'[x] = raced[x]
    BY <2>1, <2>2
  <2>4. net'[k] = v /\ \A x \in Keys : x # k => Follows(x)
    BY <2>1, <2>2, <2>3, PutEffect
  <2> QED BY <2>1, <2>3, <2>4
<1>4. CASE Vanish
  <2>1. /\ base' = Clear(base, Absent) /\ lost' = Losing(Carried) /\ extra' = {}
        /\ raced' = Clear(raced, FALSE) /\ phase' = phase
    BY <1>4 DEF Vanish, helperVars
  <2>2. PICK beside \in SUBSET (Carried \cap Listed) : net' = Fallen(Clear(net, Absent), Carried, beside)
    BY <1>4 DEF Vanish
  <2>3. CASE i \in Bound
    BY <2>1, <2>2, <2>3, RouteAssumption DEF Fallen, Clear
  <2>4. CASE i \notin Bound
    <3>1. /\ Clear(net, Absent)[i] = net[i] /\ raced'[i] = raced[i] /\ extra' \subseteq extra
          /\ Carried \in SUBSET Carried /\ TypeOK /\ RoutesForeign
      BY <2>1, <2>4 DEF Clear, JInv, World
    <3>2. Follows(i)
      BY <3>1, <2>1, <2>2, FallenEffect
    <3> QED BY <3>2, <2>1 DEF Follows
  <2> QED BY <2>3, <2>4
<1>5. CASE Reboot
  BY <1>5 DEF Reboot
<1>6. ASSUME NEW k \in Keys, RestoreCheck(k) \/ ApplyIntent(k) PROVE net' = net
  BY <1>6 DEF RestoreCheck, ApplyIntent
<1>7. ASSUME NEW t \in Txns, Pick(t) PROVE net' = net
  BY <1>7 DEF Pick
<1>8. ASSUME NEW t \in Txns, NEW g \in {"recover", "disconnect", "connect"}, Begin(t, g) PROVE net' = net
  BY <1>8 DEF Begin
<1>9. RestoreScriptEnds \/ RestoreEnds \/ PickEnds \/ Plan \/ Preflight \/ ApplyCheck \/ ApplyRecord
      \/ ApplyEnds \/ Verify \/ BeginAll \/ Appear \/ Crash => net' = net
  BY DEF RestoreScriptEnds, RestoreEnds, PickEnds, Plan, Preflight, ApplyCheck, ApplyRecord,
         ApplyEnds, Verify, BeginAll, Appear, Crash
<1>10. ASSUME NEW k \in Keys, NEW v \in Foreign \cup {Absent}, Change(k, v)
       PROVE  \/ net'[i] = base[i]
              \/ i \in Carried /\ phase' = phase /\ net[i] \in Targets /\ net'[i] = Absent
  BY <1>3, <1>10 DEF Follows
<1> QED BY <1>1, <1>2, <1>4, <1>5, <1>6, <1>7, <1>8, <1>9, <1>10 DEF Next, Helper

\* A change that somebody else made is preserved, whatever the helper was doing,
\* unless it fell between a check and its write.
\* (apply_one and restore_one read each key before they write it.)
THEOREM JournalForeignPreserved == Spec => ForeignPreserved
<1>1. JInv /\ [Next]_vars => [Preserves]_vars
  BY NextPreserves
<1> QED BY <1>1, JournalInvariant, PTL DEF Spec, ForeignPreserved, Preserves

----------------------------------------------------------------------------
(* The route policy.  Beside the variables of RoutePolicy the loops have   *)
(* the addresses that are still to come.                                   *)

CONSTANTS MaxIncludes, MaxExcludes, MaxAddresses, MaxEntries, Peers
VARIABLE rest

Policy == INSTANCE Routes

----------------------------------------------------------------------------
(* Powers and quotients                                                    *)

\* A set of numbers with 0 and with the successor of each member has them all:
\* otherwise its members below n would be as many as their successors, which lack 0.
LEMMA SetInduction ==
    ASSUME NEW S, 0 \in S, \A k \in Nat : k \in S => k + 1 \in S, NEW n \in Nat
    PROVE  n \in S
<1> SUFFICES ASSUME n \notin S PROVE FALSE OBVIOUS
<1> DEFINE T == {k \in 0..n : k \in S}
           next == [k \in T |-> k + 1]
<1>1. IsFiniteSet(T) /\ Cardinality(T) \in Nat
    <2>1. IsFiniteSet(0..n) BY FS_Interval
    <2>2. T \in SUBSET (0..n) OBVIOUS
    <2> QED BY <2>1, <2>2, FS_Subset, FS_CardinalityType
<1>2. 0 \in T OBVIOUS
<1>3. IsFiniteSet(T \ {0}) /\ Cardinality(T \ {0}) = Cardinality(T) - 1
    BY <1>1, <1>2, FS_RemoveElement
<1>4. next \in Injection(T, T \ {0})
    <2>1. \A k \in T : k + 1 \in T \ {0}
        <3> SUFFICES ASSUME NEW k \in T PROVE k + 1 \in 0..n /\ k + 1 \in S /\ k + 1 # 0
            OBVIOUS
        <3>1. k \in Nat /\ k \in S /\ k # n /\ k <= n OBVIOUS
        <3> QED BY <3>1
    <2>2. \A j, k \in T : j + 1 = k + 1 => j = k OBVIOUS
    <2> HIDE DEF T
    <2> QED BY <2>1, <2>2 DEF Injection, IsInjective
<1> HIDE DEF T, next
<1>5. Cardinality(T) <= Cardinality(T \ {0}) BY <1>3, <1>4, FS_Injection
<1> QED BY <1>1, <1>3, <1>5

\* The recursive definition of Power has a function that satisfies it.
LEMMA PowerDef == Power = [n \in Nat |-> IF n = 0 THEN 1 ELSE 2 * Power[n - 1]]
<1> DEFINE Upto(n, f) == f \in [0..n -> Nat] /\ f[0] = 1 /\ \A k \in 0..n : k # 0 => f[k] = 2 * f[k - 1]
           S == {n \in Nat : \E f : Upto(n, f)}
           Agree(n) == \A f, g, m : m \in Nat /\ n <= m /\ Upto(n, f) /\ Upto(m, g) => f[n] = g[n]
           A == {n \in Nat : Agree(n)}
<1>1. \A n \in Nat : n \in S
    <2>1. 0 \in S
        <3> DEFINE f == [k \in 0..0 |-> 1]
        <3>1. f \in [0..0 -> Nat] /\ f[0] = 1 /\ \A k \in 0..0 : k = 0 OBVIOUS
        <3> QED BY <3>1
    <2>2. ASSUME NEW n \in Nat, n \in S PROVE n + 1 \in S
        <3>1. PICK f : Upto(n, f) BY <2>2
        <3> DEFINE g == [k \in 0..n + 1 |-> IF k = n + 1 THEN 2 * f[n] ELSE f[k]]
        <3>2. f[n] \in Nat /\ \A k \in 0..n : f[k] \in Nat BY <3>1
        <3>3. g \in [0..n + 1 -> Nat] BY <3>2
        <3>4. g[0] = 1 BY <3>1
        <3>5. \A k \in 0..n + 1 : k # 0 => g[k] = 2 * g[k - 1] BY <3>1
        <3> HIDE DEF g
        <3> QED BY <3>3, <3>4, <3>5
    <2> HIDE DEF S
    <2> QED BY <2>1, <2>2, SetInduction
<1> DEFINE Fn(n) == CHOOSE f : Upto(n, f)
           P == [n \in Nat |-> Fn(n)[n]]
<1>2. \A n \in Nat : Upto(n, Fn(n)) BY <1>1
<1>3. \A n \in Nat : n \in A
    <2>1. 0 \in A OBVIOUS
    <2>2. ASSUME NEW n \in Nat, n \in A PROVE n + 1 \in A
        <3> HIDE DEF Upto
        <3> SUFFICES ASSUME NEW f, NEW g, NEW m, m \in Nat, n + 1 <= m, Upto(n + 1, f), Upto(m, g)
                     PROVE  f[n + 1] = g[n + 1]
            OBVIOUS
        <3> USE DEF Upto
        <3> DEFINE e == [k \in 0..n |-> f[k]]
        <3>1. Upto(n, e)
            <4>1. \A k \in 0..n : k \in 0..n + 1 /\ f[k] \in Nat /\ e[k] = f[k] OBVIOUS
            <4>2. e \in [0..n -> Nat] BY <4>1
            <4>3. \A k \in 0..n : k # 0 => k - 1 \in 0..n /\ e[k] = 2 * e[k - 1] BY <4>1
            <4>4. e[0] = 1 BY <4>1
            <4> HIDE DEF e
            <4> QED BY <4>2, <4>3, <4>4
        <3>2. e[n] = g[n]
            <4>1. Agree(n) BY <2>2
            <4>2. n <= m OBVIOUS
            <4> QED BY <4>1, <4>2, <3>1
        <3>3. e[n] = f[n] OBVIOUS
        <3> QED BY <3>2, <3>3
    <2> HIDE DEF A
    <2> QED BY <2>1, <2>2, SetInduction
<1>4. P = [n \in Nat |-> IF n = 0 THEN 1 ELSE 2 * P[n - 1]]
    <2>0. SUFFICES ASSUME NEW n \in Nat PROVE P[n] = IF n = 0 THEN 1 ELSE 2 * P[n - 1]
        <3> HIDE DEF Fn
        <3>1. P = [n \in Nat |-> P[n]] OBVIOUS
        <3> HIDE DEF P
        <3> QED BY <3>1, Zenon
    <2>1. CASE n = 0 BY <1>2, <2>1
    <2>2. CASE n # 0
        <3>1. n - 1 \in Nat /\ n - 1 <= n BY <2>2
        <3>2. Upto(n, Fn(n)) /\ Upto(n - 1, Fn(n - 1)) BY <1>2, <3>1
        <3>3. Agree(n - 1) BY <1>3, <3>1
        <3> HIDE DEF Fn
        <3>4. Fn(n)[n] = 2 * Fn(n)[n - 1] BY <3>2, <2>2
        <3>5. Fn(n - 1)[n - 1] = Fn(n)[n - 1] BY <3>1, <3>2, <3>3
        <3> QED BY <3>1, <3>4, <3>5, <2>2
    <2> QED BY <2>1, <2>2
<1> HIDE DEF P
<1> QED BY <1>4 DEF Power

\* The two cases of its definition.
LEMMA PowerStep == Power[0] = 1 /\ \A n \in Nat : Power[n + 1] = 2 * Power[n]
<1>1. \A n \in Nat : Power[n] = IF n = 0 THEN 1 ELSE 2 * Power[n - 1] BY PowerDef, Zenon
<1>2. ASSUME NEW n \in Nat PROVE Power[n + 1] = 2 * Power[n]
    <2>1. n + 1 \in Nat /\ n + 1 # 0 /\ (n + 1) - 1 = n OBVIOUS
    <2> QED BY <1>1, <2>1
<1> QED BY <1>1, <1>2

\* Every power is a positive number.
LEMMA PowerPositive == \A n \in Nat : Power[n] \in Nat /\ Power[n] >= 1
<1> DEFINE S == {n \in Nat : Power[n] \in Nat /\ Power[n] >= 1}
<1>1. 0 \in S BY PowerStep
<1>2. \A n \in Nat : n \in S => n + 1 \in S BY PowerStep
<1> HIDE DEF S
<1>3. \A n \in Nat : n \in S BY <1>1, <1>2, SetInduction
<1> QED BY <1>3 DEF S

\* Products.
LEMMA Times ==
    ASSUME NEW a \in Nat, NEW b \in Nat, NEW c \in Nat
    PROVE  a * b \in Nat /\ a * b = b * a /\ a * (b + c) = a * b + a * c /\ (a * b) * c = a * (b * c)
OBVIOUS

\* Powers multiply.
LEMMA PowerSum == \A j, k \in Nat : Power[j + k] = Power[j] * Power[k]
<1> SUFFICES ASSUME NEW j \in Nat, NEW k \in Nat PROVE Power[j + k] = Power[j] * Power[k] OBVIOUS
<1> DEFINE S == {n \in Nat : Power[j + n] = Power[j] * Power[n]}
<1>1. 0 \in S
    <2>1. Power[j] \in Nat /\ Power[0] = 1 /\ j + 0 = j BY PowerPositive, PowerStep
    <2> QED BY <2>1
<1>2. ASSUME NEW n \in Nat, n \in S PROVE n + 1 \in S
    <2>1. Power[j] \in Nat /\ Power[n] \in Nat /\ Power[j + n] \in Nat BY PowerPositive
    <2>2. Power[j + (n + 1)] = 2 * Power[j + n] /\ Power[n + 1] = 2 * Power[n]
        <3>1. j + (n + 1) = (j + n) + 1 /\ j + n \in Nat OBVIOUS
        <3> QED BY <3>1, PowerStep
    <2>3. Power[j] * (2 * Power[n]) = 2 * (Power[j] * Power[n])
        <3> HIDE DEF S
        <3> QED BY <2>1, Times
    <2>4. Power[j + n] = Power[j] * Power[n] BY <1>2
    <2>5. Power[j + (n + 1)] = Power[j] * Power[n + 1] BY <2>2, <2>3, <2>4
    <2> QED BY <2>5
<1> HIDE DEF S
<1>3. k \in S BY <1>1, <1>2, SetInduction
<1> QED BY <1>3 DEF S

\* Division.
\* A number lies in the block it is divided into.
LEMMA DivBounds ==
    ASSUME NEW x \in Nat, NEW b \in Nat, b >= 1
    PROVE  x \div b \in Nat /\ (x \div b) * b <= x /\ x < (x \div b) * b + b
OBVIOUS

\* Products grow with a factor.
LEMMA Monotone ==
    ASSUME NEW a \in Nat, NEW b \in Nat, NEW c \in Nat, a <= b
    PROVE  a * c <= b * c
OBVIOUS

\* The quotient is the only number of a block that holds x.
LEMMA DivUnique ==
    ASSUME NEW x \in Nat, NEW b \in Nat, b >= 1, NEW q \in Nat, q * b <= x, x < q * b + b
    PROVE  x \div b = q
<1> DEFINE r == x \div b
<1>1. r \in Nat /\ r * b <= x /\ x < r * b + b BY DivBounds
<1> HIDE DEF r
<1>2. CASE r < q
    <2>1. r + 1 <= q BY <1>1, <1>2
    <2>2. (r + 1) * b <= q * b BY <2>1, <1>1, Monotone
    <2>3. (r + 1) * b = r * b + b BY <1>1
    <2>4. r * b \in Nat /\ q * b \in Nat /\ (r + 1) * b \in Nat BY <1>1, Times
    <2> QED BY <1>1, <2>2, <2>3, <2>4
<1>3. CASE q < r
    <2>1. q + 1 <= r BY <1>1, <1>3
    <2>2. (q + 1) * b <= r * b BY <2>1, <1>1, Monotone
    <2>3. (q + 1) * b = q * b + b OBVIOUS
    <2>4. r * b \in Nat /\ q * b \in Nat /\ (q + 1) * b \in Nat BY <1>1, Times
    <2> QED BY <1>1, <2>2, <2>3, <2>4
<1>4. r = q BY <1>1, <1>2, <1>3
<1> QED BY <1>4 DEF r

\* Dividing by a product is dividing twice.
LEMMA DivDiv ==
    ASSUME NEW x \in Nat, NEW b \in Nat, NEW m \in Nat, b >= 1, m >= 1
    PROVE  x \div (m * b) = (x \div b) \div m
<1> DEFINE y == x \div b
           z == y \div m
<1>1. y \in Nat /\ y * b <= x /\ x < y * b + b BY DivBounds
<1>2. z \in Nat /\ z * m <= y /\ y < z * m + m BY <1>1, DivBounds
<1> HIDE DEF y, z
<1>3. m * b \in Nat /\ m * b >= 1 OBVIOUS
<1>4. (z * m) * b <= y * b BY <1>1, <1>2, Monotone, Times
<1>5. (y + 1) * b <= (z * m + m) * b
    <2>1. y + 1 <= z * m + m /\ z * m + m \in Nat /\ y + 1 \in Nat BY <1>1, <1>2, Times
    <2> QED BY <2>1, Monotone
<1>6. (y + 1) * b = y * b + b /\ (z * m + m) * b = (z * m) * b + m * b /\ (z * m) * b = z * (m * b)
    BY <1>1, <1>2, Times
<1>7. z * (m * b) <= x /\ x < z * (m * b) + m * b
    <2>1. y * b \in Nat /\ z * (m * b) \in Nat BY <1>1, <1>2, <1>3, Times
    <2> HIDE DEF y, z
    <2> QED BY <1>1, <1>3, <1>4, <1>5, <1>6, <2>1
<1>8. x \div (m * b) = z BY <1>2, <1>3, <1>7, DivUnique
<1> QED BY <1>8 DEF y, z

----------------------------------------------------------------------------
(* Prefixes                                                                *)

\* Blocks of addresses: a longer prefix has a part of a shorter one's.
LEMMA Sizes ==
    /\ \A k \in 0..Width : Size[k] \in Nat /\ Size[k] >= 1
    /\ Size[Width] = 1
    /\ \A k \in 0..Width : k # Width => k + 1 \in 0..Width /\ Size[k] = 2 * Size[k + 1]
    /\ \A j, k \in 0..Width : j <= k => \E m \in Nat : m >= 1 /\ Size[j] = m * Size[k]
<1>0. Width \in Nat BY WidthAssumption
<1>1. \A k \in 0..Width : Width - k \in Nat BY <1>0
<1>2. Width - Width = 0 BY <1>0
<1>3. ASSUME NEW k \in 0..Width, k # Width PROVE k + 1 \in 0..Width /\ Size[k] = 2 * Size[k + 1]
    <2>1. k + 1 \in 0..Width /\ Width - (k + 1) \in Nat /\ Width - k = (Width - (k + 1)) + 1 BY <1>0, <1>3
    <2> QED BY <2>1, PowerStep DEF Size
<1>4. ASSUME NEW j \in 0..Width, NEW k \in 0..Width, j <= k PROVE \E m \in Nat : m >= 1 /\ Size[j] = m * Size[k]
    <2>1. k - j \in Nat /\ Width - k \in Nat /\ Width - j = (k - j) + (Width - k) BY <1>0, <1>4
    <2>2. Size[j] = Power[k - j] * Size[k] BY <2>1, PowerSum DEF Size
    <2> QED BY <2>1, <2>2, PowerPositive
<1>5. \A k \in 0..Width : Size[k] = Power[Width - k] BY DEF Size
<1>6. \A k \in 0..Width : Size[k] \in Nat /\ Size[k] >= 1 BY <1>1, <1>5, PowerPositive
<1>7. Size[Width] = 1
    <2>1. Width \in 0..Width BY <1>0
    <2> QED BY <1>2, <1>5, <2>1, PowerStep
<1> QED BY <1>3, <1>4, <1>6, <1>7

\* A prefix has an address, and a length.
LEMMA PrefixTypes ==
    ASSUME NEW p \in Prefixes
    PROVE  /\ p.address \in Hosts /\ p.address \in Nat /\ p.prefix \in 0..Width /\ p.prefix \in Nat
           /\ Size[p.prefix] \in Nat /\ Size[p.prefix] >= 1
           /\ p = [address |-> p.address, prefix |-> p.prefix]
<1>1. Width \in Nat BY WidthAssumption
<1>2. p.address \in Hosts /\ p.prefix \in 0..Width BY DEF Prefixes
<1> QED BY <1>1, <1>2, Sizes DEF Prefixes, Hosts

\* d shares the first bits of p.
In(d, p) == d \div Size[p.prefix] = p.address \div Size[p.prefix]

\* Addresses by In.
LEMMA InAddresses == \A S, d : d \in Addresses(S) <=> d \in Hosts /\ \E r \in S : In(d, r)
BY DEF Addresses, In

\* A multiple of a block divides back.
LEMMA DivBack == ASSUME NEW q \in Nat, NEW s \in Nat, s >= 1 PROVE q * s \in Nat /\ (q * s) \div s = q
<1>1. q * s \in Nat BY Times
<1>2. q * s <= q * s /\ q * s < q * s + s BY <1>1
<1> QED BY <1>1, <1>2, DivUnique

\* normalize keeps the addresses of a prefix.
LEMMA Normal ==
    ASSUME NEW p \in Prefixes
    PROVE  /\ Normalize(p) \in Networks /\ Normalize(p).prefix = p.prefix
           /\ \A d : In(d, Normalize(p)) <=> In(d, p)
           /\ p \in Networks <=> (p.address \div Size[p.prefix]) * Size[p.prefix] = p.address
<1> DEFINE s == Size[p.prefix]
           q == p.address \div s
           n == [address |-> q * s, prefix |-> p.prefix]
<1>1. p.address \in Hosts /\ p.address \in Nat /\ s \in Nat /\ s >= 1 /\ p.prefix \in 0..Width
      /\ p = [address |-> p.address, prefix |-> p.prefix]
    BY PrefixTypes
<1>2. Normalize(p) = n
    BY <1>1 DEF Normalize
<1>3. q \in Nat /\ q * s <= p.address BY <1>1, DivBounds
<1>4. q * s \in Nat /\ (q * s) \div s = q BY <1>1, <1>3, DivBack
<1>5. Power[Width] \in Nat BY PowerPositive, WidthAssumption
<1>6. q * s \in Hosts
    <2> HIDE DEF q, s
    <2> QED BY <1>1, <1>3, <1>4, <1>5 DEF Hosts
<1>7. n \in Prefixes BY <1>1, <1>6 DEF Prefixes
<1>8. Normalize(n) = n
    <2> HIDE DEF q
    <2> QED BY <1>4 DEF Normalize
<1>9. \A d : In(d, n) <=> In(d, p)
    <2> HIDE DEF q
    <2> SUFFICES ASSUME NEW d PROVE In(d, n) <=> In(d, p) OBVIOUS
    <2>1. n.prefix = p.prefix /\ n.address = q * s OBVIOUS
    <2>2. n.address \div s = p.address \div s BY <2>1, <1>4 DEF q
    <2> HIDE DEF n
    <2> QED BY <2>1, <2>2 DEF In
<1>10. p \in Networks <=> q * s = p.address
    <2>1. p \in Networks <=> Normalize(p) = p BY DEF Networks
    <2> HIDE DEF q, s
    <2> QED BY <1>1, <1>2, <2>1
<1> HIDE DEF n
<1>11. n \in Networks BY <1>7, <1>8 DEF Networks
<1>12. n.prefix = p.prefix BY DEF n
<1> QED BY <1>2, <1>9, <1>10, <1>11, <1>12

\* contains means what it says.
LEMMA ContainsIn ==
    ASSUME NEW p \in Networks, NEW r \in Prefixes
    PROVE  Contains(p, r) <=> p.prefix <= r.prefix /\ In(r.address, p)
<1> DEFINE s == Size[p.prefix]
<1>1. p \in Prefixes BY DEF Networks
<1>2. p.address \in Nat /\ r.address \in Nat /\ s \in Nat /\ s >= 1 /\ p.prefix \in 0..Width
    BY <1>1, PrefixTypes
<1>3. Normalize([r EXCEPT !.prefix = p.prefix]).address = (r.address \div s) * s
    BY DEF Normalize, Prefixes
<1>4. (p.address \div s) * s = p.address BY <1>1, Normal
<1>5. r.address \div s \in Nat /\ p.address \div s \in Nat BY <1>2, DivBounds
<1>6. ((r.address \div s) * s) \div s = r.address \div s BY <1>2, <1>5, DivBack
<1>7. (r.address \div s) * s = p.address <=> r.address \div s = p.address \div s
    BY <1>4, <1>6
<1> HIDE DEF s
<1>8. In(r.address, p) <=> r.address \div s = p.address \div s BY DEF In, s
<1> QED BY <1>3, <1>7, <1>8 DEF Contains

\* Two prefixes are nested or apart: an address of the longer one is in the
\* shorter one exactly if all are.
LEMMA Nested ==
    ASSUME NEW p \in Prefixes, NEW q \in Prefixes, p.prefix <= q.prefix, NEW d \in Hosts, In(d, q)
    PROVE  In(d, p) <=> In(q.address, p)
<1> DEFINE s == Size[p.prefix]
           b == Size[q.prefix]
<1>1. b \in Nat /\ b >= 1 /\ p.prefix \in 0..Width /\ q.prefix \in 0..Width /\ q.address \in Nat
    BY PrefixTypes
<1>2. d \in Nat BY PowerPositive, WidthAssumption DEF Hosts
<1>3. PICK m \in Nat : m >= 1 /\ s = m * b BY <1>1, Sizes
<1>4. d \div b = q.address \div b BY DEF In
<1> HIDE DEF s, b
<1>5. d \div s = (d \div b) \div m BY <1>1, <1>2, <1>3, DivDiv
<1>6. q.address \div s = (q.address \div b) \div m BY <1>1, <1>3, DivDiv
<1>7. d \div s = q.address \div s BY <1>4, <1>5, <1>6
<1> QED BY <1>7 DEF In, s

\* A contained prefix has no address outside.
LEMMA ContainsAll ==
    ASSUME NEW p \in Networks, NEW q \in Networks, Contains(p, q), NEW d \in Hosts, In(d, q)
    PROVE  In(d, p)
<1>1. p \in Prefixes /\ q \in Prefixes BY DEF Networks
<1> QED BY <1>1, ContainsIn, Nested

\* Prefixes that share an address are nested.
LEMMA Overlap ==
    ASSUME NEW p \in Networks, NEW q \in Networks, NEW d \in Hosts, In(d, p), In(d, q)
    PROVE  p.prefix <= q.prefix <=> Contains(p, q)
<1>1. p \in Prefixes /\ q \in Prefixes BY DEF Networks
<1> QED BY <1>1, ContainsIn, Nested

\* A prefix has its own address.
LEMMA InSelf == ASSUME NEW p \in Networks PROVE p \in Prefixes /\ p.address \in Hosts /\ In(p.address, p)
BY PrefixTypes DEF Networks, In

\* The route of one host.
LEMMA Hosted ==
    ASSUME NEW d \in Hosts
    PROVE  /\ HostRoute(d) \in Networks /\ HostRoute(d).prefix = Width /\ HostRoute(d).address = d
           /\ \A e \in Hosts : In(e, HostRoute(d)) <=> e = d
<1>1. Width \in Nat /\ Width \in 0..Width /\ Size[Width] = 1 BY WidthAssumption, Sizes
<1>2. \A e \in Hosts : e \in Nat BY PowerPositive, WidthAssumption DEF Hosts
<1>3. \A e \in Nat : e \div 1 = e OBVIOUS
<1>4. HostRoute(d) \in Prefixes /\ HostRoute(d).prefix = Width /\ HostRoute(d).address = d
    BY <1>1 DEF HostRoute, Prefixes
<1>5. \A e \in Hosts : In(e, HostRoute(d)) <=> e = d BY <1>1, <1>2, <1>3, <1>4 DEF In
<1>6. HostRoute(d) \in Networks
    <2>1. d \div 1 = d /\ d * 1 = d BY <1>2
    <2> QED BY <1>1, <1>4, <2>1, Normal
<1> QED BY <1>4, <1>5, <1>6

\* A network that has the length of an address is the route of that host.
LEMMA HostNetwork == ASSUME NEW p \in Prefixes, p.prefix = Width PROVE p = HostRoute(p.address)
BY PrefixTypes DEF HostRoute

\* The next bit tells the two children of a prefix apart.
LEMMA Halving ==
    ASSUME NEW p \in Networks, p.prefix # Width
    PROVE  /\ Lower(p) \in Networks /\ Upper(p) \in Networks
           /\ Lower(p).prefix = p.prefix + 1 /\ Upper(p).prefix = p.prefix + 1
           /\ \A d \in Hosts : In(d, p) <=> In(d, Lower(p)) \/ In(d, Upper(p))
<1> DEFINE s == Size[p.prefix]
           h == Size[p.prefix + 1]
           q == p.address \div s
<1>1. /\ p \in Prefixes /\ p.address \in Hosts /\ p.address \in Nat /\ p.prefix \in 0..Width
      /\ s \in Nat /\ s >= 1
    BY InSelf, PrefixTypes
<1>2. p.prefix + 1 \in 0..Width /\ s = 2 * h /\ h \in Nat /\ h >= 1 BY <1>1, Sizes
<1>3. q \in Nat /\ q * s = p.address BY <1>1, Normal, DivBounds
<1>4. p.address = (2 * q) * h /\ p.address + h = (2 * q + 1) * h
    <2> HIDE DEF q, s, h
    <2>1. q * (2 * h) = (2 * q) * h /\ (2 * q + 1) * h = (2 * q) * h + h BY <1>2, <1>3
    <2> QED BY <1>2, <1>3, <2>1
<1>5. p.address \div h = 2 * q /\ (p.address + h) \div h = 2 * q + 1
    <2> HIDE DEF q, s, h
    <2>1. 2 * q \in Nat /\ 2 * q + 1 \in Nat BY <1>3
    <2> QED BY <1>2, <1>4, <2>1, DivBack
<1>6. p.address + h \in Hosts
    \* The last address of the prefix is one: the whole space is a number of such blocks.
    <2>1. PICK m \in Nat : m >= 1 /\ Power[Width] = m * s
        <3>1. 0 \in 0..Width /\ Size[0] = Power[Width] /\ 0 <= p.prefix
            BY <1>1, WidthAssumption DEF Size
        <3> QED BY <1>1, <3>1, Sizes
    <2>2. p.address <= m * s - 1 BY <2>1, <1>1 DEF Hosts
    <2> HIDE DEF q, s, h
    <2>3. q < m
        <3> SUFFICES ASSUME m <= q PROVE FALSE BY <1>3
        <3>1. m * s <= q * s BY <1>1, <1>3, Monotone
        <3>2. m * s \in Nat BY <1>1, Times
        <3> QED BY <1>1, <1>3, <2>2, <3>1, <3>2
    <2>4. (q + 1) * s <= m * s
        <3>1. q + 1 <= m /\ q + 1 \in Nat BY <1>3, <2>3
        <3> QED BY <1>1, <3>1, Monotone
    <2>5. (q + 1) * s = q * s + s /\ m * s \in Nat BY <1>1, <1>3, Times
    <2>6. p.address + h <= m * s - 1 BY <1>1, <1>2, <1>3, <2>4, <2>5
    <2>7. p.address + h \in Nat BY <1>1, <1>2
    <2> QED BY <2>1, <2>5, <2>6, <2>7 DEF Hosts
<1>7. /\ Lower(p) \in Prefixes /\ Lower(p).prefix = p.prefix + 1 /\ Lower(p).address = p.address
      /\ Upper(p) \in Prefixes /\ Upper(p).prefix = p.prefix + 1 /\ Upper(p).address = p.address + h
    BY <1>1, <1>2, <1>6 DEF Lower, Upper, Prefixes
<1>8. Lower(p) \in Networks /\ Upper(p) \in Networks
    <2> HIDE DEF q, s, h
    <2>1. (p.address \div h) * h = p.address BY <1>4, <1>5
    <2>2. ((p.address + h) \div h) * h = p.address + h BY <1>4, <1>5
    <2> QED BY <1>7, <2>1, <2>2, Normal DEF h
<1>9. ASSUME NEW d \in Hosts PROVE In(d, p) <=> In(d, Lower(p)) \/ In(d, Upper(p))
    <2> HIDE DEF q, s, h
    <2>1. d \in Nat BY PowerPositive, WidthAssumption DEF Hosts
    <2>2. d \div h \in Nat BY <1>2, <2>1, DivBounds
    <2>3. d \div s = (d \div h) \div 2
        <3>1. \A m \in Nat : m >= 1 => d \div (m * h) = (d \div h) \div m BY <1>2, <2>1, DivDiv
        <3>2. 2 \in Nat /\ 2 >= 1 OBVIOUS
        <3>3. d \div (2 * h) = (d \div h) \div 2 BY <3>1, <3>2, Zenon
        <3> QED BY <1>2, <3>3
    <2>4. In(d, p) <=> d \div s = q BY DEF In, s, q
    <2>5. In(d, Lower(p)) <=> d \div h = 2 * q BY <1>5, <1>7 DEF In, h
    <2>6. In(d, Upper(p)) <=> d \div h = 2 * q + 1 BY <1>5, <1>7 DEF In, h
    <2>7. (d \div h) \div 2 = q <=> d \div h = 2 * q \/ d \div h = 2 * q + 1 BY <1>3, <2>2
    <2> QED BY <2>3, <2>4, <2>5, <2>6, <2>7
<1> QED BY <1>7, <1>8, <1>9

----------------------------------------------------------------------------
(* tunnel_routes                                                           *)

\* The instance has the definitions of RoutePolicy.
LEMMA Same ==
    /\ \A p, q : Policy!Contains(p, q) <=> Contains(p, q)
    /\ \A p : Policy!Lower(p) = Lower(p) /\ Policy!Upper(p) = Upper(p) /\ Policy!Normalize(p) = Normalize(p)
              /\ Policy!HostRoute(p) = HostRoute(p) /\ Policy!Children(p) = Children(p)
    /\ Policy!Prefixes = Prefixes /\ Policy!Networks = Networks
    /\ \A c : Policy!Includes(c) = Includes(c) /\ Policy!Excludes(c) = Excludes(c)
<1>1. Policy!Power = Power BY DEF Policy!Power, Power
<1>2. Policy!Size = Size BY <1>1 DEF Policy!Size, Size
<1>3. \A p : Policy!Normalize(p) = Normalize(p) BY <1>2 DEF Policy!Normalize, Normalize
<1>4. Policy!Hosts = Hosts BY <1>1 DEF Policy!Hosts, Hosts
<1>5. Policy!Prefixes = Prefixes BY <1>4 DEF Policy!Prefixes, Prefixes
<1>6. Policy!Networks = Networks BY <1>3, <1>5 DEF Policy!Networks, Networks
<1>7. \A p, q : Policy!Contains(p, q) <=> Contains(p, q) BY <1>3 DEF Policy!Contains, Contains
<1>8. \A p : Policy!Lower(p) = Lower(p) /\ Policy!Upper(p) = Upper(p) /\ Policy!HostRoute(p) = HostRoute(p)
    BY <1>2 DEF Policy!Lower, Lower, Policy!Upper, Upper, Policy!HostRoute, HostRoute
<1>9. \A p : Policy!Children(p) = Children(p) BY <1>8 DEF Policy!Children, Children
<1>10. \A c : Policy!Includes(c) = Includes(c) /\ Policy!Excludes(c) = Excludes(c)
    BY <1>3 DEF Policy!Includes, Includes, Policy!Excludes, Excludes, Policy!Everything, Everything
<1> QED BY <1>3, <1>5, <1>6, <1>7, <1>8, <1>9, <1>10

\* No prefix shares an address with another one.
Apart(S) == \A p, q \in S : Addresses({p}) \cap Addresses({q}) # {} => p = q

LEMMA ApartIn == \A S : Apart(S) <=> \A p, q \in S : \A d \in Hosts : In(d, p) /\ In(d, q) => p = q
<1> SUFFICES ASSUME NEW S, NEW p \in S, NEW q \in S
             PROVE  Addresses({p}) \cap Addresses({q}) # {} <=> \E d \in Hosts : In(d, p) /\ In(d, q)
    BY DEF Apart
<1>1. \A d : d \in Addresses({p}) <=> d \in Hosts /\ In(d, p) BY InAddresses
<1>2. \A d : d \in Addresses({q}) <=> d \in Hosts /\ In(d, q) BY InAddresses
<1> QED BY <1>1, <1>2

\* A prefix more: no address is lost, and none is there twice.
LEMMA Absorbs ==
    ASSUME NEW R \in SUBSET Networks, Apart(R), NEW p \in Networks
    PROVE  /\ Policy!Absorb(R, p) \in SUBSET Networks /\ Apart(Policy!Absorb(R, p))
           /\ \A d \in Hosts : (\E r \in Policy!Absorb(R, p) : In(d, r)) <=> In(d, p) \/ \E r \in R : In(d, r)
<1>1. CASE \E r \in R : Contains(r, p)
    <2>1. Policy!Absorb(R, p) = R BY <1>1, Same DEF Policy!Absorb
    <2> QED BY <1>1, <2>1, ContainsAll
<1>2. CASE ~\E r \in R : Contains(r, p)
    <2> DEFINE kept == {r \in R : ~Contains(p, r)}
    <2>1. Policy!Absorb(R, p) = kept \cup {p} BY <1>2, Same DEF Policy!Absorb
    <2>2. ASSUME NEW r \in kept, NEW d \in Hosts, In(d, p), In(d, r) PROVE FALSE
        <3>1. ~(p.prefix <= r.prefix) /\ ~(r.prefix <= p.prefix) BY <1>2, <2>2, Overlap
        <3>2. p.prefix \in Nat /\ r.prefix \in Nat BY InSelf, PrefixTypes
        <3> QED BY <3>1, <3>2
    <2>3. Apart(kept \cup {p})
        <3>1. \A r, q \in R : \A d \in Hosts : In(d, r) /\ In(d, q) => r = q BY ApartIn
        <3>2. \A r, q \in kept \cup {p} : \A d \in Hosts : In(d, r) /\ In(d, q) => r = q BY <2>2, <3>1
        <3> HIDE DEF kept
        <3> QED BY <3>2, ApartIn
    <2>4. ASSUME NEW d \in Hosts
          PROVE  (\E r \in kept \cup {p} : In(d, r)) <=> In(d, p) \/ \E r \in R : In(d, r)
        BY ContainsAll
    <2> QED BY <2>1, <2>3, <2>4
<1> QED BY <1>1, <1>2

\* A prefix more, a default route by its halves.
LEMMA AbsorbsHalves ==
    ASSUME NEW R \in SUBSET Networks, Apart(R), NEW p \in Networks
    PROVE  /\ Policy!AbsorbHalves(R, p) \in SUBSET Networks /\ Apart(Policy!AbsorbHalves(R, p))
           /\ \A d \in Hosts : (\E r \in Policy!AbsorbHalves(R, p) : In(d, r)) <=> In(d, p) \/ \E r \in R : In(d, r)
<1>1. CASE p.prefix = 0
    <2> DEFINE first == Policy!Absorb(R, Lower(p))
               both == Policy!Absorb(first, Upper(p))
    <2>1. p.prefix # Width BY <1>1, WidthAssumption
    <2>2. Lower(p) \in Networks /\ Upper(p) \in Networks
          /\ \A d \in Hosts : In(d, p) <=> In(d, Lower(p)) \/ In(d, Upper(p))
        BY <2>1, Halving
    <2>3. /\ first \in SUBSET Networks /\ Apart(first)
          /\ \A d \in Hosts : (\E r \in first : In(d, r)) <=> In(d, Lower(p)) \/ \E r \in R : In(d, r)
        BY <2>2, Absorbs
    <2> HIDE DEF first
    <2>4. /\ both \in SUBSET Networks /\ Apart(both)
          /\ \A d \in Hosts : (\E r \in both : In(d, r)) <=> In(d, Upper(p)) \/ \E r \in first : In(d, r)
        BY <2>2, <2>3, Absorbs
    <2>5. Policy!AbsorbHalves(R, p) = both BY <1>1, Same DEF Policy!AbsorbHalves, first
    <2> HIDE DEF both
    <2> QED BY <2>2, <2>3, <2>4, <2>5
<1>2. CASE p.prefix # 0
    <2>1. Policy!AbsorbHalves(R, p) = Policy!Absorb(R, p) BY <1>2 DEF Policy!AbsorbHalves
    <2> QED BY <2>1, Absorbs
<1> QED BY <1>1, <1>2

----------------------------------------------------------------------------
(* The inductive invariant                                                 *)

\* A configuration that was validated.
Configured ==
    /\ config.addresses \in SUBSET Prefixes /\ config.transport_peer \in Hosts
    /\ \A a \in config.addresses : a.address # config.transport_peer
    /\ config.split_includes \in Seq(Prefixes) /\ config.subnet \in Seq(Networks)
    /\ config.split_excludes \in SUBSET Networks /\ config.full_tunnel \in BOOLEAN

Included(d) == \E r \in Range(Includes(config)) : In(d, r)
Excluded(d) == \E e \in config.split_excludes : In(d, e)
Routed(d)   == \E r \in normalized : In(d, r)

\* The loop of tunnel_routes: each included address is kept or still to come,
\* and kept once.
Looping ==
    stage = "includes" =>
        /\ Apart(normalized) /\ rest = config.addresses /\ bypass = Excludes(config)
        /\ \A d \in Hosts : Included(d) <=> Routed(d) \/ \E r \in Range(todo) : In(d, r)

\* Its result: what is included, without the prefixes that are excluded whole.
Retained ==
    stage # "includes" =>
        /\ \A p \in normalized : ~Policy!Covered(p)
        /\ \A d \in Hosts : /\ Routed(d) => Included(d)
                            /\ Included(d) => Routed(d) \/ Excluded(d) \/ d = config.transport_peer

\* An address whose connected prefix an exclusion covers.
Beaten(a) == a.prefix # Width /\ \E e \in config.split_excludes : Contains(e, Normalize(a))

\* The host route of an address of the interface, which is dropped at the end.
Local(b) == \E a \in config.addresses : b = HostRoute(a.address)
Bypass(b) == b \in bypass \/ (stage = "planned" /\ Local(b))

\* bypass_routes: the exclusions, and the children that outrank connected prefixes.
Bypassed ==
    /\ \A e \in config.split_excludes : Bypass(e)
    /\ \A a \in config.addresses \ rest : Beaten(a) => \A c \in Children(Normalize(a)) : Bypass(c)
    /\ \A b \in bypass : b \in config.split_excludes
                         \/ \E a \in config.addresses : Beaten(a) /\ b \in Children(Normalize(a))
    /\ stage = "planned" => rest = {} /\ \A b \in bypass : ~Local(b)

RouteInv == Policy!TypeOK /\ Configured /\ Looping /\ Retained /\ Bypassed

\* Exclusions are written as networks.
LEMMA Exclusions == ASSUME Configured PROVE Excludes(config) = config.split_excludes
BY DEF Configured, Excludes, Networks

\* The elements of a list that is taken from the front.
LEMMA Taken ==
    ASSUME NEW S, NEW s \in Seq(S), s # <<>>
    PROVE  /\ Head(s) \in S /\ Tail(s) \in Seq(S) /\ Head(s) \in Range(s) /\ Range(s) \subseteq S
           /\ \A x : x \in Range(s) <=> x = Head(s) \/ x \in Range(Tail(s))
<1>1. Len(s) \in Nat \ {0} /\ Head(s) = s[1] /\ Len(Tail(s)) = Len(s) - 1 OBVIOUS
<1>2. \A x : x \in Range(s) <=> \E i \in 1..Len(s) : s[i] = x BY DEF Range
<1>3. \A x : x \in Range(Tail(s)) <=> \E i \in 1..Len(Tail(s)) : Tail(s)[i] = x
    <2>1. Tail(s) \in Seq(S) OBVIOUS
    <2>2. DOMAIN Tail(s) = 1..Len(Tail(s)) BY <2>1
    <2> QED BY <2>2 DEF Range
<1>4. \A i \in 1..Len(Tail(s)) : i + 1 \in 1..Len(s) /\ Tail(s)[i] = s[i + 1] BY <1>1
<1>5. \A i \in 1..Len(s) : i # 1 => i - 1 \in 1..Len(Tail(s)) /\ Tail(s)[i - 1] = s[i] BY <1>1
<1>6. ASSUME NEW x PROVE x \in Range(s) <=> x = Head(s) \/ x \in Range(Tail(s))
    <2>1. CASE x \in Range(s)
        <3>1. PICK i \in 1..Len(s) : s[i] = x BY <1>2, <2>1
        <3> QED BY <1>1, <1>3, <1>5, <3>1, <2>1
    <2>2. CASE x = Head(s) BY <1>1, <1>2, <2>2
    <2>3. CASE x \in Range(Tail(s))
        <3>1. PICK i \in 1..Len(Tail(s)) : Tail(s)[i] = x BY <1>3, <2>3
        <3> QED BY <1>2, <1>4, <3>1, <2>3
    <2> QED BY <2>1, <2>2, <2>3
<1>7. \A i \in 1..Len(s) : s[i] \in S OBVIOUS
<1>8. Range(s) \subseteq S BY <1>2, <1>7
<1> QED BY <1>1, <1>2, <1>6, <1>8

\* The elements of two lists one after the other.
LEMMA Joined ==
    ASSUME NEW S, NEW s \in Seq(S), NEW t \in Seq(S)
    PROVE  s \o t \in Seq(S) /\ \A x : x \in Range(s \o t) <=> x \in Range(s) \/ x \in Range(t)
<1>1. /\ s \o t \in Seq(S) /\ Len(s) \in Nat /\ Len(t) \in Nat /\ Len(s \o t) = Len(s) + Len(t)
      /\ \A i \in 1..Len(s) + Len(t) : (s \o t)[i] = IF i <= Len(s) THEN s[i] ELSE t[i - Len(s)]
    OBVIOUS
<1>2. \A x : x \in Range(s \o t) <=> \E i \in 1..Len(s) + Len(t) : (s \o t)[i] = x
    <2>1. DOMAIN (s \o t) = 1..Len(s) + Len(t) BY <1>1
    <2> QED BY <2>1 DEF Range
<1>3. \A x : (x \in Range(s) <=> \E i \in 1..Len(s) : s[i] = x) /\ (x \in Range(t) <=> \E i \in 1..Len(t) : t[i] = x)
    BY DEF Range
<1>4. ASSUME NEW x PROVE x \in Range(s \o t) <=> x \in Range(s) \/ x \in Range(t)
    <2>1. ASSUME x \in Range(s \o t) PROVE x \in Range(s) \/ x \in Range(t)
        <3>1. PICK i \in 1..Len(s) + Len(t) : (s \o t)[i] = x BY <1>2, <2>1
        <3>2. CASE i <= Len(s) BY <1>1, <1>3, <3>1, <3>2
        <3>3. CASE ~(i <= Len(s))
            <4>1. i - Len(s) \in 1..Len(t) BY <1>1, <3>3
            <4> QED BY <1>1, <1>3, <3>1, <3>3, <4>1
        <3> QED BY <3>2, <3>3
    <2>2. ASSUME x \in Range(s) PROVE x \in Range(s \o t)
        <3>1. PICK i \in 1..Len(s) : s[i] = x BY <1>3, <2>2
        <3>2. i \in 1..Len(s) + Len(t) /\ i <= Len(s) BY <1>1
        <3> QED BY <1>1, <1>2, <3>1, <3>2
    <2>3. ASSUME x \in Range(t) PROVE x \in Range(s \o t)
        <3>1. PICK i \in 1..Len(t) : t[i] = x BY <1>3, <2>3
        <3>2. i + Len(s) \in 1..Len(s) + Len(t) /\ ~(i + Len(s) <= Len(s)) /\ (i + Len(s)) - Len(s) = i BY <1>1
        <3>3. (s \o t)[i + Len(s)] = t[i] BY <1>1, <3>2
        <3> QED BY <1>2, <3>1, <3>2, <3>3
    <2> QED BY <2>1, <2>2, <2>3
<1> QED BY <1>1, <1>4

\* The elements of the lists a configuration is read from.
LEMMA Entries ==
    ASSUME Configured
    PROVE  /\ Includes(config) \in Seq(Networks)
           /\ \A r : r \in Range(Includes(config)) <=>
                \/ \E p \in Range(config.split_includes) : r = Normalize(p)
                \/ \E p \in Range(config.subnet) : r = Normalize(p)
                \/ config.full_tunnel /\ r = Everything
           /\ Range(config.split_includes) \subseteq Prefixes /\ Range(config.subnet) \subseteq Networks
<1> DEFINE f == [i \in 1..Len(config.split_includes) |-> Normalize(config.split_includes[i])]
           g == [i \in 1..Len(config.subnet) |-> Normalize(config.subnet[i])]
           h == IF config.full_tunnel THEN <<Everything>> ELSE <<>>
<1>1. config.split_includes \in Seq(Prefixes) /\ config.subnet \in Seq(Networks) BY DEF Configured
<1>2. \A p \in Networks : p \in Prefixes BY DEF Networks
<1>3. \A p \in Prefixes : Normalize(p) \in Networks BY Normal
<1>4. f \in Seq(Networks) /\ Len(f) = Len(config.split_includes)
    <2>1. \A i \in 1..Len(config.split_includes) : f[i] \in Networks BY <1>1, <1>3
    <2>2. Len(config.split_includes) \in Nat BY <1>1
    <2>3. f \in [1..Len(config.split_includes) -> Networks] BY <2>1
    <2> HIDE DEF f
    <2> QED BY <2>2, <2>3, SeqDef, LenProperties
<1>5. g \in Seq(Networks) /\ Len(g) = Len(config.subnet)
    <2>1. \A i \in 1..Len(config.subnet) : g[i] \in Networks BY <1>1, <1>2, <1>3
    <2>2. Len(config.subnet) \in Nat BY <1>1
    <2>3. g \in [1..Len(config.subnet) -> Networks] BY <2>1
    <2> HIDE DEF g
    <2> QED BY <2>2, <2>3, SeqDef, LenProperties
<1>6. Everything \in Networks
    <2>1. 0 \in 0..Width /\ 0 \in Hosts
        BY WidthAssumption, PowerPositive DEF Hosts
    <2>2. Everything \in Prefixes /\ Everything.address = 0 /\ Everything.prefix = 0 BY <2>1 DEF Everything, Prefixes
    <2>3. Size[0] \in Nat /\ Size[0] >= 1 BY <2>1, Sizes
    <2>4. (0 \div Size[0]) * Size[0] = 0
        <3>1. 0 \div Size[0] = 0
            <4>1. 0 * Size[0] = 0 BY <2>3
            <4> QED BY <2>3, <4>1, DivUnique
        <3> QED BY <2>3, <3>1
    <2> QED BY <2>2, <2>4, Normal
<1>7. h \in Seq(Networks) BY <1>6
<1>8. \A r : r \in Range(f) <=> \E p \in Range(config.split_includes) : r = Normalize(p)
    <2>1. DOMAIN config.split_includes = 1..Len(config.split_includes) BY <1>1
    <2>2. DOMAIN f = 1..Len(config.split_includes) OBVIOUS
    <2> QED BY <2>1, <2>2 DEF Range
<1>9. \A r : r \in Range(g) <=> \E p \in Range(config.subnet) : r = Normalize(p)
    <2>1. DOMAIN config.subnet = 1..Len(config.subnet) BY <1>1
    <2>2. DOMAIN g = 1..Len(config.subnet) OBVIOUS
    <2> QED BY <2>1, <2>2 DEF Range
<1>10. \A r : r \in Range(h) <=> config.full_tunnel /\ r = Everything BY DEF Range
<1>11. Includes(config) = f \o g \o h BY DEF Includes
<1>12. Range(config.split_includes) \subseteq Prefixes /\ Range(config.subnet) \subseteq Networks BY <1>1 DEF Range
<1> HIDE DEF f, g, h
<1>13. /\ f \o g \in Seq(Networks) /\ f \o g \o h \in Seq(Networks)
       /\ \A r : r \in Range(f \o g) <=> r \in Range(f) \/ r \in Range(g)
       /\ \A r : r \in Range((f \o g) \o h) <=> r \in Range(f \o g) \/ r \in Range(h)
    BY <1>4, <1>5, <1>7, Joined
<1> QED BY <1>8, <1>9, <1>10, <1>11, <1>12, <1>13

----------------------------------------------------------------------------
(* RouteInv is inductive                                                   *)

\* A validated configuration, and nothing planned yet.
LEMMA RoutesInit == ASSUME Policy!PeerAssumption, Policy!Init PROVE RouteInv
<1>0. Policy!Unicast \subseteq Hosts
    <2>1. Policy!Power = Power BY DEF Policy!Power, Power
    <2> QED BY <2>1, PowerPositive, WidthAssumption DEF Policy!Unicast, Hosts
<1>1. PICK addresses \in Policy!AddressLists, peer \in Peers :
        /\ \A a \in addresses : a.address # peer
        /\ \E subnet \in {<<>>} \cup {<<n>> : n \in Networks} :
             \E includes \in Policy!IncludeLists, excludes \in Policy!ExcludeLists, full \in BOOLEAN :
               config = [addresses |-> addresses, transport_peer |-> peer, subnet |-> subnet,
                         split_includes |-> includes, split_excludes |-> excludes, full_tunnel |-> full]
    BY Same DEF Policy!Init, Policy!Valid
<1>2. PICK subnet \in {<<>>} \cup {<<n>> : n \in Networks}, includes \in Policy!IncludeLists,
           excludes \in Policy!ExcludeLists, full \in BOOLEAN :
             config = [addresses |-> addresses, transport_peer |-> peer, subnet |-> subnet,
                       split_includes |-> includes, split_excludes |-> excludes, full_tunnel |-> full]
    BY <1>1
<1>3. addresses \in SUBSET Prefixes
    <2>1. PICK n : addresses \in {Range(s) : s \in Policy!SE!SeqOf([address : Policy!Unicast, prefix : 0..Width], n)}
        BY DEF Policy!AddressLists, Policy!UpTo, Range, Policy!Range
    <2>2. PICK m \in Nat : \E s \in [1..m -> [address : Policy!Unicast, prefix : 0..Width]] : addresses = Range(s)
        BY <2>1 DEF Policy!SE!SeqOf
    <2>3. \A s \in [1..m -> [address : Policy!Unicast, prefix : 0..Width]] : \A i \in 1..m : s[i] \in Prefixes
        BY <1>0 DEF Prefixes
    <2> QED BY <2>2, <2>3 DEF Range
<1>4. excludes \in SUBSET Networks
    <2>1. PICK m \in Nat : \E s \in [1..m -> Networks] : excludes = Range(s)
        BY Same DEF Policy!ExcludeLists, Policy!UpTo, Policy!SE!SeqOf, Range, Policy!Range
    <2> QED BY <2>1 DEF Range
<1>5. includes \in Seq(Prefixes)
    <2>1. PICK m \in Nat : includes \in [1..m -> Prefixes]
        BY Same DEF Policy!IncludeLists, Policy!SE!SeqOf
    <2> QED BY <2>1, SeqDef
<1>6. subnet \in Seq(Networks)
    <2>1. CASE subnet = <<>> BY <2>1
    <2>2. CASE \E n \in Networks : subnet = <<n>>
        <3>1. PICK n \in Networks : subnet = <<n>> BY <2>2
        <3> QED BY <3>1
    <2> QED BY <1>2, <2>1, <2>2
<1>7. peer \in Hosts BY <1>0 DEF Policy!PeerAssumption
<1>8. Configured BY <1>1, <1>2, <1>3, <1>4, <1>5, <1>6, <1>7 DEF Configured
<1>9. /\ todo = Includes(config) /\ normalized = {} /\ rest = config.addresses
      /\ bypass = config.split_excludes /\ bypass = Excludes(config) /\ stage = "includes"
    BY <1>8, Exclusions, Same DEF Policy!Init
<1>10. todo \in Seq(Networks) BY <1>8, <1>9, Entries
<1>11. bypass \subseteq Networks BY <1>8, <1>9 DEF Configured
<1>12. Policy!TypeOK BY <1>9, <1>10, <1>11, Same DEF Policy!TypeOK
<1>13. Looping BY <1>9 DEF Looping, Apart, Included, Routed
<1>14. Retained /\ Bypassed BY <1>9 DEF Retained, Bypassed, Bypass
<1> QED BY <1>8, <1>12, <1>13, <1>14 DEF RouteInv

\* What stays true as long as the configuration does.
LEMMA SameConfig == ASSUME config' = config PROVE (Configured => Configured') /\ \A d : Included(d)' <=> Included(d)
BY DEF Configured, Included, Includes

\* An include is taken.
LEMMA RoutesTakeInclude == ASSUME RouteInv, Policy!TakeInclude PROVE RouteInv'
<1>1. /\ stage = "includes" /\ todo # <<>> /\ todo' = Tail(todo)
      /\ normalized' = Policy!AbsorbHalves(normalized, Head(todo))
      /\ UNCHANGED <<config, rest, bypass, stage>>
    BY DEF Policy!TakeInclude
<1>2. /\ Policy!TypeOK /\ Configured /\ Looping /\ Retained /\ Bypassed
      /\ todo \in Seq(Networks) /\ normalized \in SUBSET Networks
    BY Same DEF RouteInv, Policy!TypeOK
<1>3. /\ Head(todo) \in Networks /\ Tail(todo) \in Seq(Networks)
      /\ \A x : x \in Range(todo) <=> x = Head(todo) \/ x \in Range(Tail(todo))
    BY <1>1, <1>2, Taken
<1>4. Apart(normalized) BY <1>1, <1>2 DEF Looping
<1>5. /\ normalized' \in SUBSET Networks /\ Apart(normalized')
      /\ \A d \in Hosts : (\E r \in normalized' : In(d, r)) <=> In(d, Head(todo)) \/ \E r \in normalized : In(d, r)
    BY <1>1, <1>2, <1>3, <1>4, AbsorbsHalves
<1>6. Policy!TypeOK' BY <1>1, <1>2, <1>3, <1>5, Same DEF Policy!TypeOK
<1>7. Looping'
    <2>1. ASSUME NEW d \in Hosts
          PROVE  Included(d)' <=> (\E r \in normalized' : In(d, r)) \/ \E r \in Range(todo') : In(d, r)
        <3>1. Included(d)' <=> Included(d) BY <1>1, SameConfig
        <3>2. Included(d) <=> (\E r \in normalized : In(d, r)) \/ \E r \in Range(todo) : In(d, r)
            BY <1>1, <1>2 DEF Looping, Routed
        <3> QED BY <1>1, <1>3, <1>5, <3>1, <3>2
    <2>2. Apart(normalized)' BY <1>5 DEF Apart, Addresses
    <2>3. rest' = config'.addresses /\ bypass' = Excludes(config') BY <1>1, <1>2 DEF Looping
    <2> QED BY <2>1, <2>2, <2>3 DEF Looping, Routed, In, Hosts, Size
<1>8. Retained' BY <1>1 DEF Retained
<1>9. Bypassed' BY <1>1, <1>2 DEF Bypassed, Bypass, Beaten, Local
<1> QED BY <1>1, <1>2, <1>6, <1>7, <1>8, <1>9, SameConfig DEF RouteInv

\* What an exclusion, or the peer's host route, covers.
LEMMA Covers ==
    ASSUME Configured, NEW p \in Networks
    PROVE  Policy!Covered(p) <=> (\E e \in config.split_excludes : Contains(e, p))
                               \/ Contains(HostRoute(config.transport_peer), p)
BY Same, Exclusions DEF Policy!Covered

\* The loop over the includes is done: what is excluded whole goes.
LEMMA RoutesRetainIncludes == ASSUME RouteInv, Policy!RetainIncludes PROVE RouteInv'
<1>1. /\ stage = "includes" /\ todo = <<>> /\ stage' = "addresses"
      /\ normalized' = {p \in normalized : ~Policy!Covered(p)}
      /\ UNCHANGED <<config, todo, rest, bypass>>
    BY DEF Policy!RetainIncludes
<1>2. /\ Policy!TypeOK /\ Configured /\ Looping /\ Bypassed /\ normalized \in SUBSET Networks
    BY Same DEF RouteInv, Policy!TypeOK
<1>3. Policy!TypeOK' BY <1>1, <1>2 DEF Policy!TypeOK
<1>4. Retained'
    <2>1. ASSUME NEW p \in normalized' PROVE ~Policy!Covered(p)'
        BY <1>1, <2>1 DEF Policy!Covered
    <2>2. ASSUME NEW d \in Hosts
          PROVE  /\ (\E r \in normalized' : In(d, r)) => Included(d)
                 /\ Included(d) => (\E r \in normalized' : In(d, r)) \/ Excluded(d) \/ d = config.transport_peer
        <3>1. Included(d) <=> \E r \in normalized : In(d, r)
            <4>1. Range(todo) = {} BY <1>1 DEF Range
            <4> QED BY <1>1, <1>2, <4>1 DEF Looping, Routed
        <3>2. ASSUME NEW r \in normalized, In(d, r), Policy!Covered(r)
              PROVE  Excluded(d) \/ d = config.transport_peer
            <4>1. config.transport_peer \in Hosts /\ \A e \in config.split_excludes : e \in Networks
                BY <1>2 DEF Configured
            <4>2. r \in Networks BY <1>2
            <4>3. CASE \E e \in config.split_excludes : Contains(e, r)
                BY <4>1, <4>2, <4>3, <3>2, ContainsAll DEF Excluded
            <4>4. CASE Contains(HostRoute(config.transport_peer), r)
                <5>1. HostRoute(config.transport_peer) \in Networks BY <4>1, Hosted
                <5>2. In(d, HostRoute(config.transport_peer)) BY <4>2, <4>4, <5>1, <3>2, ContainsAll
                <5> QED BY <4>1, <5>2, Hosted
            <4> QED BY <1>2, <3>2, <4>2, <4>3, <4>4, Covers
        <3> QED BY <1>1, <3>1, <3>2
    <2>3. \A d : Excluded(d)' <=> Excluded(d) BY <1>1 DEF Excluded
    <2> QED BY <1>1, <2>1, <2>2, <2>3, SameConfig DEF Retained, Routed, In, Hosts, Size
<1>5. Looping' BY <1>1 DEF Looping
<1>6. Bypassed'
    <2>1. \A b : Bypass(b)' <=> Bypass(b) BY <1>1 DEF Bypass, Local
    <2>2. \A a : Beaten(a)' <=> Beaten(a) BY <1>1 DEF Beaten
    <2> QED BY <1>1, <1>2, <2>1, <2>2 DEF Bypassed
<1> QED BY <1>1, <1>2, <1>3, <1>4, <1>5, <1>6, SameConfig DEF RouteInv

\* The addresses of a configuration are of prefixes, and their networks have children.
LEMMA Connected ==
    ASSUME Configured, NEW a \in config.addresses
    PROVE  /\ a \in Prefixes /\ Normalize(a) \in Networks /\ Normalize(a).prefix = a.prefix
           /\ a.prefix # Width => Children(Normalize(a)) \subseteq Networks
<1>1. a \in Prefixes BY DEF Configured
<1>2. Normalize(a) \in Networks /\ Normalize(a).prefix = a.prefix BY <1>1, Normal
<1> QED BY <1>1, <1>2, Halving DEF Children

\* Steps of bypass_routes leave the tunnel's routes as they are.
LEMMA RetainedStays ==
    ASSUME Retained, stage # "includes", UNCHANGED <<config, normalized>>
    PROVE  Retained'
<1>1. \A p : Policy!Covered(p)' <=> Policy!Covered(p) BY DEF Policy!Covered
<1>2. \A d : (Routed(d)' <=> Routed(d)) /\ (Excluded(d)' <=> Excluded(d)) BY DEF Routed, Excluded
<1> QED BY <1>1, <1>2, SameConfig DEF Retained

\* An address of the interface is taken.
LEMMA RoutesTakeAddress == ASSUME RouteInv, Policy!TakeAddress PROVE RouteInv'
<1>1. stage = "addresses" /\ UNCHANGED <<config, todo, normalized, stage>>
    BY DEF Policy!TakeAddress
<1>2. /\ Policy!TypeOK /\ Configured /\ Retained /\ Bypassed /\ rest \subseteq config.addresses /\ bypass \subseteq Networks
    BY Same DEF RouteInv, Policy!TypeOK
<1>3. PICK a \in rest : /\ rest' = rest \ {a}
                        /\ bypass' = IF Beaten(a) THEN bypass \cup Children(Normalize(a)) ELSE bypass
    BY <1>2, Same, Exclusions DEF Policy!TakeAddress, Beaten
<1>4. a \in config.addresses BY <1>2
<1>5. bypass' \subseteq Networks BY <1>2, <1>3, <1>4, Connected DEF Beaten
<1>6. Policy!TypeOK' BY <1>1, <1>2, <1>3, <1>5, Same DEF Policy!TypeOK
<1>7. Bypassed'
    <2>1. \A b : Bypass(b)' <=> b \in bypass' BY <1>1 DEF Bypass
    <2>2. \A b : Bypass(b) <=> b \in bypass BY <1>1 DEF Bypass
    <2>3. \A x : Beaten(x)' <=> Beaten(x) BY <1>1 DEF Beaten
    <2> QED BY <1>1, <1>2, <1>3, <1>4, <2>1, <2>2, <2>3 DEF Bypassed
<1>8. Looping' BY <1>1 DEF Looping
<1> QED BY <1>1, <1>2, <1>6, <1>7, <1>8, SameConfig, RetainedStays DEF RouteInv

\* The host routes of the interface's addresses are dropped.
LEMMA RoutesRetainBypass == ASSUME RouteInv, Policy!RetainBypass PROVE RouteInv'
<1>1. stage = "addresses" /\ rest = {} /\ stage' = "planned" /\ UNCHANGED <<config, todo, normalized, rest>>
    BY DEF Policy!RetainBypass
<1>2. bypass' = {b \in bypass : ~Local(b)} BY Same DEF Policy!RetainBypass, Local
<1>3. Policy!TypeOK /\ Configured /\ Retained /\ Bypassed BY DEF RouteInv
<1>4. Policy!TypeOK' BY <1>1, <1>2, <1>3 DEF Policy!TypeOK
<1>5. Bypassed'
    <2>1. \A b : Bypass(b)' <=> b \in bypass' \/ Local(b) BY <1>1 DEF Bypass, Local
    <2>2. \A b : Bypass(b) <=> b \in bypass BY <1>1 DEF Bypass
    <2>3. \A x : (Beaten(x)' <=> Beaten(x)) /\ (Local(x)' <=> Local(x)) BY <1>1 DEF Beaten, Local
    <2> QED BY <1>1, <1>2, <1>3, <2>1, <2>2, <2>3 DEF Bypassed
<1>6. Looping' BY <1>1 DEF Looping
<1> QED BY <1>1, <1>3, <1>4, <1>5, <1>6, SameConfig, RetainedStays DEF RouteInv

\* Every step keeps the invariant.
LEMMA RoutesNext == ASSUME RouteInv, [Policy!Next]_Policy!vars PROVE RouteInv'
<1>1. CASE Policy!Next
    BY <1>1, RoutesTakeInclude, RoutesRetainIncludes, RoutesTakeAddress, RoutesRetainBypass DEF Policy!Next
<1>2. CASE UNCHANGED Policy!vars
    BY <1>2 DEF Policy!vars, RouteInv, Policy!TypeOK, Configured, Looping, Retained, Bypassed, Bypass, Local, Beaten,
                Included, Excluded, Routed, Policy!Covered, Apart
<1> QED BY <1>1, <1>2

----------------------------------------------------------------------------
(* The kernel's lookup in the finished table                               *)

\* One of the matching prefixes is the longest.
LEMMA Longest ==
    ASSUME NEW S \in SUBSET Prefixes, S # {}
    PROVE  \E r \in S : \A s \in S : s.prefix <= r.prefix
<1> SUFFICES ASSUME \A r \in S : \E s \in S : ~(s.prefix <= r.prefix) PROVE FALSE
    OBVIOUS
<1> DEFINE K == {k \in Nat : \E s \in S : s.prefix >= k}
<1>0. Width \in Nat /\ \A s \in S : s.prefix \in Nat /\ s.prefix <= Width BY WidthAssumption DEF Prefixes
<1>1. 0 \in K BY <1>0
<1>2. ASSUME NEW k \in Nat, k \in K PROVE k + 1 \in K
    <2>1. PICK r \in S : r.prefix >= k BY <1>2
    <2>2. PICK s \in S : ~(s.prefix <= r.prefix) OBVIOUS
    <2> QED BY <1>0, <2>1, <2>2
<1> HIDE DEF K
<1>3. Width + 1 \in K BY <1>0, <1>1, <1>2, SetInduction
<1> QED BY <1>0, <1>3 DEF K

\* The ways of the table, and its prefixes.
LEMMA Tabled ==
    ASSUME RouteInv
    PROVE  /\ \A b : b \in Table["physical"] <=> b = HostRoute(config.transport_peer) \/ b \in bypass
           /\ \A t : t \in Table["tunnel"] <=>
                \/ \E a \in config.addresses : a.prefix # Width /\ t = Normalize(a)
                \/ t \in normalized /\ \A a \in config.addresses : Normalize(a) # t
           /\ \A r : r \in Table["local"] <=> Local(r)
           /\ \A way \in Ways : Table[way] \subseteq Networks
<1>1. Configured /\ bypass \subseteq Networks /\ normalized \subseteq Networks
    BY Same DEF RouteInv, Policy!TypeOK
<1>2. \A b : b \in Table["physical"] <=> b = HostRoute(config.transport_peer) \/ b \in bypass BY DEF Table
<1>3. \A t : t \in Table["tunnel"] <=>
                \/ \E a \in config.addresses : a.prefix # Width /\ t = Normalize(a)
                \/ t \in normalized /\ \A a \in config.addresses : Normalize(a) # t
    BY DEF Table
<1>4. \A r : r \in Table["local"] <=> Local(r) BY DEF Table, Local
<1>5. Table["physical"] \subseteq Networks BY <1>1, <1>2, Hosted DEF Configured
<1>6. Table["tunnel"] \subseteq Networks BY <1>1, <1>3, Connected
<1>7. Table["local"] \subseteq Networks
    <2>1. \A a \in config.addresses : HostRoute(a.address) \in Networks BY <1>1, Connected, PrefixTypes, Hosted
    <2> QED BY <1>4, <2>1 DEF Local
<1> QED BY <1>2, <1>3, <1>4, <1>5, <1>6, <1>7 DEF Ways

\* A route matches the addresses of its prefix.
LEMMA Matching ==
    ASSUME RouteInv, NEW way \in Ways, NEW d \in Hosts
    PROVE  \A r : r \in Matches(way, d) <=> r \in Table[way] /\ r \in Prefixes /\ r.prefix \in 0..Width /\ In(d, r)
<1>1. HostRoute(d) \in Prefixes /\ HostRoute(d).prefix = Width /\ HostRoute(d).address = d
    BY Hosted DEF Networks
<1>2. ASSUME NEW r \in Networks
      PROVE  r \in Prefixes /\ r.prefix \in 0..Width /\ (Contains(r, HostRoute(d)) <=> In(d, r))
    <2>1. r \in Prefixes /\ r.prefix \in 0..Width BY InSelf, PrefixTypes
    <2>2. r.prefix <= Width BY <2>1, WidthAssumption
    <2> QED BY <1>1, <2>1, <2>2, ContainsIn
<1> QED BY <1>2, Tabled DEF Matches

\* The way whose matches are longer than all others wins alone.
LEMMA Wins ==
    ASSUME RouteInv, NEW d \in Hosts, NEW way \in Ways, Matches(way, d) # {},
           \A other \in Ways \ {way} : \A s \in Matches(other, d) : \E r \in Matches(way, d) : s.prefix < r.prefix
    PROVE  Lookup(d) = {way}
<1>1. \A w \in Ways : \A s \in Matches(w, d) : s \in Prefixes /\ s.prefix \in Nat BY Matching, PrefixTypes
<1>2. Matches(way, d) \in SUBSET Prefixes BY <1>1
<1>3. PICK r \in Matches(way, d) : \A s \in Matches(way, d) : s.prefix <= r.prefix BY <1>2, Longest
<1>4. \A other \in Ways \ {way} : \A s \in Matches(other, d) : s.prefix < r.prefix BY <1>1, <1>3
<1>5. \A other \in Ways : \A s \in Matches(other, d) : s.prefix <= r.prefix BY <1>1, <1>3, <1>4
<1>6. ASSUME NEW other \in Ways \ {way}, NEW s \in Matches(other, d) PROVE ~(r.prefix <= s.prefix)
    BY <1>1, <1>4
<1> QED BY <1>3, <1>5, <1>6 DEF Lookup

\* What an address is included for.
LEMMA Inclusion ==
    ASSUME Configured, NEW d \in Hosts
    PROVE  /\ d \in Addresses(config.split_excludes) <=> Excluded(d)
           /\ \/ config.full_tunnel
              \/ d \in Addresses(Range(config.split_includes) \cup Range(config.subnet) \cup config.addresses)
             <=> Included(d) \/ \E a \in config.addresses : In(d, a)
<1>1. d \in Addresses(config.split_excludes) <=> Excluded(d) BY InAddresses DEF Excluded
<1>2. \A p \in Prefixes : In(d, Normalize(p)) <=> In(d, p) BY Normal
<1>3. In(d, Everything)
    <2>1. Size[0] = Power[Width] /\ Power[Width] \in Nat /\ Power[Width] >= 1
        BY WidthAssumption, PowerPositive DEF Size
    <2>2. d \in Nat /\ d < Power[Width] BY <2>1 DEF Hosts
    <2>3. \A x \in Nat : x < Power[Width] => x \div Power[Width] = 0
        <3>1. 0 * Power[Width] = 0 BY <2>1
        <3> QED BY <2>1, <3>1, DivUnique
    <2>4. d \div Power[Width] = 0 /\ 0 \div Power[Width] = 0 BY <2>1, <2>2, <2>3
    <2> QED BY <2>1, <2>4 DEF In, Everything
<1>4. \A p \in Networks : p \in Prefixes BY DEF Networks
<1>5. Included(d) <=> \/ \E p \in Range(config.split_includes) : In(d, p)
                      \/ \E p \in Range(config.subnet) : In(d, p)
                      \/ config.full_tunnel
    BY <1>2, <1>3, <1>4, Entries DEF Included
<1>6. d \in Addresses(Range(config.split_includes) \cup Range(config.subnet) \cup config.addresses)
      <=> \/ \E p \in Range(config.split_includes) : In(d, p)
          \/ \E p \in Range(config.subnet) : In(d, p)
          \/ \E a \in config.addresses : In(d, a)
    BY InAddresses
<1> QED BY <1>1, <1>5, <1>6

\* An address of the interface: its route is the only one of its length, or the
\* tunnel's, which is the same interface.
LEMMA LookupLocal ==
    ASSUME RouteInv, stage = "planned", NEW d \in Hosts, NEW a \in config.addresses, a.address = d
    PROVE  Lookup(d) = {"local"} \cup (Lookup(d) \cap {"tunnel"})
<1>1. Configured /\ Bypassed /\ bypass \subseteq Networks BY Same DEF RouteInv, Policy!TypeOK
<1>2. HostRoute(d) \in Networks /\ HostRoute(d).prefix = Width /\ In(d, HostRoute(d)) BY Hosted
<1>3. Local(HostRoute(d)) BY DEF Local
<1>4. HostRoute(d) \in Matches("local", d)
    <2>1. HostRoute(d) \in Table["local"] BY <1>3, Tabled
    <2>2. HostRoute(d) \in Prefixes /\ HostRoute(d).prefix \in 0..Width BY <1>2, WidthAssumption DEF Networks
    <2> QED BY <1>2, <2>1, <2>2, Matching DEF Ways
<1>5. \A way \in Ways : \A s \in Matches(way, d) : s \in Prefixes /\ s.prefix \in 0..Width /\ In(d, s) /\ s \in Table[way]
    BY Matching
<1>6. "local" \in Lookup(d)
    <2>1. \A way \in Ways : \A s \in Matches(way, d) : s.prefix <= HostRoute(d).prefix
        BY <1>2, <1>5, WidthAssumption
    <2> QED BY <1>4, <2>1 DEF Lookup, Ways
<1>7. "physical" \notin Lookup(d)
    <2> SUFFICES ASSUME "physical" \in Lookup(d) PROVE FALSE OBVIOUS
    <2>1. PICK r \in Matches("physical", d) : \A other \in Ways : \A s \in Matches(other, d) : s.prefix <= r.prefix
        BY DEF Lookup
    <2>2. r \in Prefixes /\ r.prefix \in 0..Width /\ In(d, r) /\ r \in Table["physical"] BY <1>5 DEF Ways
    <2>3. Width <= r.prefix BY <1>2, <1>4, <2>1 DEF Ways
    <2>4. r.prefix = Width BY <2>2, <2>3, WidthAssumption
    <2>5. r = HostRoute(r.address) /\ r.address \in Hosts BY <2>2, <2>4, HostNetwork, PrefixTypes
    <2>6. r.address = d BY <2>2, <2>5, Hosted
    <2>7. r \notin bypass BY <1>1, <1>3, <2>5, <2>6 DEF Bypassed
    <2>8. r = HostRoute(config.transport_peer) BY <2>2, <2>7, Tabled
    <2>9. config.transport_peer = d BY <1>1, <2>2, <2>8, Hosted DEF Configured
    <2> QED BY <1>1, <2>9 DEF Configured
<1> QED BY <1>6, <1>7 DEF Lookup, Ways

\* Another address has no local route.
LEMMA NotLocal ==
    ASSUME RouteInv, NEW d \in Hosts, d \notin {a.address : a \in config.addresses}
    PROVE  Matches("local", d) = {} /\ \A r : Local(r) => ~In(d, r)
<1>1. Configured BY DEF RouteInv
<1>2. ASSUME NEW r, Local(r) PROVE ~In(d, r)
    <2>1. PICK a \in config.addresses : r = HostRoute(a.address) BY <1>2 DEF Local
    <2>2. a.address \in Hosts BY <1>1, Connected, PrefixTypes
    <2> QED BY <2>1, <2>2, Hosted
<1> QED BY <1>2, Matching, Tabled DEF Ways

\* The peer has the host route, and a route into the tunnel of that length is covered.
LEMMA LookupPeer ==
    ASSUME RouteInv, stage = "planned", NEW d \in Hosts, d \notin {a.address : a \in config.addresses},
           d = config.transport_peer
    PROVE  Lookup(d) = {"physical"}
<1>1. Configured /\ Retained /\ normalized \subseteq Networks BY Same DEF RouteInv, Policy!TypeOK
<1>2. HostRoute(d) \in Networks /\ HostRoute(d).prefix = Width /\ In(d, HostRoute(d)) BY Hosted
<1>3. HostRoute(d) \in Matches("physical", d)
    <2>1. HostRoute(d) \in Table["physical"] BY Tabled
    <2>2. HostRoute(d) \in Prefixes /\ HostRoute(d).prefix \in 0..Width BY <1>2, WidthAssumption DEF Networks
    <2> QED BY <1>2, <2>1, <2>2, Matching DEF Ways
<1>4. ASSUME NEW t \in Matches("tunnel", d) PROVE t.prefix < Width
    <2>1. t \in Prefixes /\ t.prefix \in 0..Width /\ In(d, t) /\ t \in Table["tunnel"] BY Matching DEF Ways
    <2> SUFFICES ASSUME t.prefix = Width PROVE FALSE BY <2>1, WidthAssumption
    <2>2. t = HostRoute(d)
        <3>1. t = HostRoute(t.address) /\ t.address \in Hosts BY <2>1, HostNetwork, PrefixTypes
        <3> QED BY <2>1, <3>1, Hosted
    <2>3. CASE \E a \in config.addresses : a.prefix # Width /\ t = Normalize(a) BY <1>1, <2>3, Connected
    <2>4. CASE t \in normalized
        <3>1. ~Policy!Covered(t) BY <1>1, <2>4 DEF Retained
        <3>2. t.address = d /\ Width <= t.prefix BY <1>2, <2>2, Hosted, WidthAssumption
        <3>3. Contains(HostRoute(d), t) BY <1>2, <2>1, <3>2, ContainsIn
        <3> QED BY <1>1, <1>2, <2>2, <3>1, <3>3, Covers
    <2> QED BY <2>1, <2>3, <2>4, Tabled
<1>5. Matches("local", d) = {} BY NotLocal
<1> QED BY <1>2, <1>3, <1>4, <1>5, Wins DEF Ways

\* An excluded address: each route into the tunnel has a longer one that bypasses it.
LEMMA LookupExcluded ==
    ASSUME RouteInv, stage = "planned", NEW d \in Hosts, d \notin {a.address : a \in config.addresses},
           Excluded(d)
    PROVE  Lookup(d) = {"physical"}
<1>1. Configured /\ Retained /\ Bypassed /\ normalized \subseteq Networks BY Same DEF RouteInv, Policy!TypeOK
<1>2. ASSUME NEW b \in Networks, Bypass(b), In(d, b) PROVE b \in Matches("physical", d)
    <2>1. b \in bypass BY <1>2, NotLocal DEF Bypass
    <2>2. b \in Prefixes /\ b.prefix \in 0..Width BY InSelf, PrefixTypes
    <2> QED BY <1>2, <2>1, <2>2, Tabled, Matching DEF Ways
<1>3. PICK e \in config.split_excludes : In(d, e) BY DEF Excluded
<1>4. e \in Networks /\ Bypass(e) BY <1>1 DEF Configured, Bypassed
<1>5. e \in Matches("physical", d) BY <1>2, <1>3, <1>4
<1>6. ASSUME NEW t \in Matches("tunnel", d) PROVE \E r \in Matches("physical", d) : t.prefix < r.prefix
    <2>1. t \in Networks /\ t.prefix \in 0..Width /\ In(d, t) /\ t \in Table["tunnel"]
        BY Matching, Tabled DEF Ways
    <2>2. e.prefix \in Nat BY <1>4, InSelf, PrefixTypes
    <2>3. CASE ~Contains(e, t)
        <3>1. ~(e.prefix <= t.prefix) BY <1>3, <1>4, <2>1, <2>3, Overlap
        <3>2. t.prefix < e.prefix BY <2>1, <2>2, <3>1
        <3> QED BY <1>5, <3>2
    <2>4. CASE Contains(e, t) /\ t \in normalized
        <3>1. ~Policy!Covered(t) BY <1>1, <2>4 DEF Retained
        <3> QED BY <1>1, <2>1, <2>4, <3>1, Covers
    <2>5. CASE Contains(e, t) /\ \E a \in config.addresses : a.prefix # Width /\ t = Normalize(a)
        <3>1. PICK a \in config.addresses : a.prefix # Width /\ t = Normalize(a) BY <2>5
        <3>2. Beaten(a) /\ t.prefix # Width BY <1>1, <2>5, <3>1, Connected DEF Beaten
        <3>3. \A c \in Children(t) : Bypass(c) BY <1>1, <3>1, <3>2 DEF Bypassed
        <3>4. PICK c \in Children(t) : c \in Networks /\ c.prefix = t.prefix + 1 /\ In(d, c)
            BY <2>1, <3>2, Halving DEF Children
        <3>5. c \in Matches("physical", d) BY <1>2, <3>3, <3>4
        <3>6. t.prefix < c.prefix BY <2>1, <3>4
        <3> QED BY <3>5, <3>6
    <2> QED BY <2>1, <2>3, <2>4, <2>5, Tabled
<1>7. Matches("local", d) = {} BY NotLocal
<1> QED BY <1>5, <1>6, <1>7, Wins DEF Ways

\* Any other address: no route bypasses the tunnel, and one leads into it exactly
\* if the address is included or connected.
LEMMA LookupOther ==
    ASSUME RouteInv, stage = "planned", NEW d \in Hosts, d \notin {a.address : a \in config.addresses},
           d # config.transport_peer, ~Excluded(d)
    PROVE  Lookup(d) = IF Included(d) \/ \E a \in config.addresses : In(d, a) THEN {"tunnel"} ELSE {}
<1>1. Configured /\ Retained /\ Bypassed /\ normalized \subseteq Networks BY Same DEF RouteInv, Policy!TypeOK
<1>2. \A a \in config.addresses : /\ a \in Prefixes /\ Normalize(a) \in Networks
                                  /\ In(d, Normalize(a)) <=> In(d, a)
    BY <1>1, Connected, Normal
<1>3. ASSUME NEW b \in Matches("physical", d) PROVE FALSE
    <2>1. In(d, b) /\ b \in Table["physical"] BY Matching DEF Ways
    <2>2. CASE b = HostRoute(config.transport_peer) BY <1>1, <2>1, <2>2, Hosted DEF Configured
    <2>3. CASE b \in config.split_excludes BY <2>1, <2>3 DEF Excluded
    <2>4. CASE \E a \in config.addresses : Beaten(a) /\ b \in Children(Normalize(a))
        <3>1. PICK a \in config.addresses : Beaten(a) /\ b \in Children(Normalize(a)) BY <2>4
        <3>2. a.prefix # Width /\ Normalize(a) \in Networks /\ Normalize(a).prefix # Width
            BY <1>1, <3>1, Connected DEF Beaten
        <3>3. In(d, Normalize(a)) BY <2>1, <3>1, <3>2, Halving DEF Children
        <3>4. PICK e \in config.split_excludes : Contains(e, Normalize(a)) BY <3>1 DEF Beaten
        <3>5. e \in Networks BY <1>1 DEF Configured
        <3>6. In(d, e) BY <3>2, <3>3, <3>4, <3>5, ContainsAll
        <3> QED BY <3>6 DEF Excluded
    <2> QED BY <1>1, <2>1, <2>2, <2>3, <2>4, Tabled DEF Bypassed
<1>4. Matches("local", d) = {} BY NotLocal
<1>5. \A a \in config.addresses : In(d, a) => a.prefix # Width
    <2> SUFFICES ASSUME NEW a \in config.addresses, In(d, a), a.prefix = Width PROVE FALSE OBVIOUS
    <2>1. a = HostRoute(a.address) /\ a.address \in Hosts BY <1>2, HostNetwork, PrefixTypes
    <2>2. d = a.address BY <2>1, Hosted
    <2> QED BY <2>2
<1>6. ASSUME Included(d) \/ \E a \in config.addresses : In(d, a) PROVE Matches("tunnel", d) # {}
    <2>1. CASE \E a \in config.addresses : In(d, a)
        <3>1. PICK a \in config.addresses : In(d, a) BY <2>1
        <3>2. Normalize(a) \in Table["tunnel"] BY <1>5, <3>1, Tabled
        <3>3. Normalize(a) \in Prefixes /\ Normalize(a).prefix \in 0..Width BY <1>2, InSelf, PrefixTypes
        <3> QED BY <1>2, <3>1, <3>2, <3>3, Matching DEF Ways
    <2>2. CASE Included(d) /\ ~\E a \in config.addresses : In(d, a)
        <3>1. PICK r \in normalized : In(d, r) BY <1>1, <2>2 DEF Retained, Routed
        <3>2. r \in Networks /\ r \in Prefixes /\ r.prefix \in 0..Width BY <1>1, InSelf, PrefixTypes
        <3>3. \A a \in config.addresses : Normalize(a) # r BY <1>2, <2>2, <3>1
        <3>4. r \in Table["tunnel"] BY <3>3, Tabled
        <3> QED BY <3>1, <3>2, <3>4, Matching DEF Ways
    <2> QED BY <1>6, <2>1, <2>2
<1>7. ASSUME NEW t \in Matches("tunnel", d) PROVE Included(d) \/ \E a \in config.addresses : In(d, a)
    <2>1. In(d, t) /\ t \in Table["tunnel"] BY Matching DEF Ways
    <2>2. CASE t \in normalized BY <1>1, <2>1, <2>2 DEF Retained, Routed
    <2>3. CASE \E a \in config.addresses : t = Normalize(a) BY <1>2, <2>1, <2>3
    <2> QED BY <2>1, <2>2, <2>3, Tabled
<1>8. CASE Included(d) \/ \E a \in config.addresses : In(d, a)
    <2>1. Matches("tunnel", d) # {} BY <1>6, <1>8
    <2>2. \A other \in Ways \ {"tunnel"} : Matches(other, d) = {} BY <1>3, <1>4 DEF Ways
    <2>3. Lookup(d) = {"tunnel"} BY <2>1, <2>2, Wins DEF Ways
    <2> QED BY <1>8, <2>3
<1>9. CASE ~(Included(d) \/ \E a \in config.addresses : In(d, a))
    <2>1. \A way \in Ways : Matches(way, d) = {} BY <1>3, <1>4, <1>7, <1>9 DEF Ways
    <2> QED BY <1>9, <2>1 DEF Lookup
<1> QED BY <1>8, <1>9

\* The finished table sends each address where it should go.
LEMMA Honoured == ASSUME RouteInv PROVE PolicyHonoured
<1> SUFFICES ASSUME stage = "planned", NEW d \in Hosts PROVE Lookup(d) = Wanted(d)
    BY DEF PolicyHonoured
<1>1. Configured BY DEF RouteInv
<1>2. CASE d \in {a.address : a \in config.addresses} BY <1>2, LookupLocal DEF Wanted
<1>3. CASE d \notin {a.address : a \in config.addresses} /\ d = config.transport_peer
    BY <1>3, LookupPeer DEF Wanted
<1>4. CASE d \notin {a.address : a \in config.addresses} /\ Excluded(d)
    BY <1>1, <1>4, LookupExcluded, Inclusion DEF Wanted
<1>5. CASE d \notin {a.address : a \in config.addresses} /\ d # config.transport_peer /\ ~Excluded(d)
    BY <1>1, <1>5, LookupOther, Inclusion DEF Wanted
<1> QED BY <1>2, <1>3, <1>4, <1>5

\* The loop over the includes keeps what it has taken.
LEMMA Kept == ASSUME RouteInv PROVE LosesNothing
<1> SUFFICES ASSUME stage = "includes"
             PROVE  /\ Addresses(normalized) \cup Addresses(Range(todo)) = Addresses(Range(Includes(config)))
                    /\ Apart(normalized)
    BY DEF LosesNothing, Apart
<1>1. /\ Apart(normalized)
      /\ \A d \in Hosts : Included(d) <=> Routed(d) \/ \E r \in Range(todo) : In(d, r)
    BY DEF RouteInv, Looping
<1>2. \A d : d \in Addresses(normalized) \/ d \in Addresses(Range(todo)) <=> d \in Addresses(Range(Includes(config)))
    BY <1>1, InAddresses DEF Included, Routed
<1> QED BY <1>1, <1>2

\* The invariant of the route policy, for every configuration and every width.
THEOREM RoutesInvariant == ASSUME Policy!PeerAssumption PROVE Policy!Spec => []RouteInv
<1>1. Policy!Init => RouteInv BY RoutesInit
<1>2. RouteInv /\ [Policy!Next]_Policy!vars => RouteInv' BY RoutesNext
<1> QED BY <1>1, <1>2, PTL DEF Policy!Spec

\* PlanFaithful, for every configuration and every width of an address: the
\* loops of routes.rs lose no included address, and the kernel's longest-prefix
\* lookup in the planned table sends each address where the policy wants it.
THEOREM RoutesPlanFaithful == ASSUME Policy!PeerAssumption PROVE Policy!Spec => []PlanFaithful
<1>1. RouteInv => PlanFaithful BY Honoured, Kept DEF PlanFaithful
<1> QED BY <1>1, RoutesInvariant, PTL
=============================================================================
