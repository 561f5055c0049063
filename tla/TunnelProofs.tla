----------------------------- MODULE TunnelProofs -----------------------------
(***************************************************************************)
(* Proofs about the tunnel: its supervisor (below), and the worker and its *)
(* helpers, module Worker (in the second part).                            *)
(*                                                                         *)
(* The supervisor, for any error codes and any capacities of its pipe and  *)
(* channels: it implements TunnelContract.                                 *)
(*                                                                         *)
(* SInv joins where supervise stands, what it says about the tree, and     *)
(* what the tree is: there is one lemma per group of actions for SInv, and *)
(* one for the step of the contract that each action is.                   *)
(***************************************************************************)
EXTENDS Supervisor, StatusPromise, TLAPS

\* Where supervise_inner has launched a worker and not returned yet.
Unsettled == {"handoff", "handoff_kill", "handoff_reap", "handoff_quiet", "select", "forward", "kill", "reap", "quiet"}

\* A tree that is said to be gone has gone: nothing of it is left to come back.
TreeKnown == quiescent => worker # "alive" /\ ~helpers

\* The flag follows the position, from the launch to the end of wait_quiet.
FlagFollows ==
    /\ pc \in {"none", "checks", "recovering"} => quiescent
    /\ pc \in Unsettled => ~quiescent

\* Whatever supervise reports of a tree that may be alive, it demands repair.
UncertainDemands == pc = "reporting" /\ ~quiescent => result = "RecoveryRequired"

\* An update is under way exactly while its position says so.
HeldFollows == pc = "forward" => held # <<>>

SInv == TypeOK /\ TreeKnown /\ FlagFollows /\ UncertainDemands /\ HeldFollows


----------------------------------------------------------------------------
(* SInv is inductive                                                       *)

\* The invariant holds before the worker is started.
LEMMA SInvInit == Init => SInv
<1> SUFFICES ASSUME Init PROVE SInv
  OBVIOUS
<1>1. TypeOK
  <2>1. /\ pipe \in Seq(Frames \cup {Broken}) /\ Len(pipe) <= PipeLimit
        /\ rx \in Seq(Frames \cup {Broken}) /\ Len(rx) <= ReaderLimit
        /\ updates \in Seq(Updates) /\ Len(updates) <= QueueLimit
    BY LimitAssumption DEF Init
  <2> QED BY <2>1 DEF Init, TypeOK
<1> QED BY <1>1 DEF Init, SInv, TreeKnown, FlagFollows, UncertainDemands, HeldFollows, Unsettled

\* The service sees of the supervisor its cancel channel and its updates.
LEMMA ServiceKeeps == SInv /\ (Spawned \/ CancelSent \/ Received) => SInv'
<1> SUFFICES ASSUME SInv, Spawned \/ CancelSent \/ Received PROVE SInv'
  OBVIOUS
<1> USE DEF SInv, TypeOK, TreeKnown, FlagFollows, UncertainDemands, HeldFollows, Unsettled, treeVars, wireVars
<1>1. CASE Spawned
  BY <1>1 DEF Spawned
<1>2. CASE CancelSent
  BY <1>2 DEF CancelSent
<1>3. CASE Received
  <2>1. updates' \in Seq(Updates) /\ Len(updates') <= QueueLimit
    BY <1>3, LimitAssumption DEF Received
  <2> QED BY <1>3, <2>1 DEF Received
<1> QED BY <1>1, <1>2, <1>3

\* Nothing starts in a tree that has gone.
LEMMA TreeKeeps == SInv /\ Tree => SInv'
<1> SUFFICES ASSUME SInv, Tree PROVE SInv'
  OBVIOUS
<1> USE DEF SInv, TypeOK, TreeKnown, FlagFollows, UncertainDemands, HeldFollows, Unsettled
<1>1. ASSUME NEW f \in Frames \cup {Broken}, WorkerWrites(f) PROVE SInv'
  <2>1. pipe' \in Seq(Frames \cup {Broken}) /\ Len(pipe') <= PipeLimit
    BY <1>1, LimitAssumption DEF WorkerWrites
  <2> QED BY <1>1, <2>1 DEF WorkerWrites, treeVars
<1>2. CASE WorkerExits
  BY <1>2 DEF WorkerExits, wireVars
<1>3. CASE HelperRuns
  BY <1>3 DEF HelperRuns, wireVars
<1>4. CASE HelperConfigures
  BY <1>4 DEF HelperConfigures, wireVars
<1> QED BY <1>1, <1>2, <1>3, <1>4 DEF Tree

\* Reading the worker's output keeps the invariant.
LEMMA ReadsKeeps == SInv /\ Reads => SInv'
<1> SUFFICES ASSUME SInv, Reads PROVE SInv'
  OBVIOUS
<1> USE DEF SInv, TypeOK, TreeKnown, FlagFollows, UncertainDemands, HeldFollows, Unsettled
<1>1. /\ pipe' \in Seq(Frames \cup {Broken}) /\ Len(pipe') <= PipeLimit
      /\ rx' \in Seq(Frames \cup {Broken}) /\ Len(rx') <= ReaderLimit
      /\ reader' \in {"none", "reading", "done"}
  <2>1. CASE pipe # <<>> /\ rx' = Append(rx, Head(pipe)) /\ pipe' = Tail(pipe)
    <3>1. Head(pipe) \in Frames \cup {Broken} /\ Tail(pipe) \in Seq(Frames \cup {Broken})
          /\ Len(Tail(pipe)) <= PipeLimit
      BY <2>1, LimitAssumption
    <3>2. reader' \in {"none", "reading", "done"}
      BY DEF Reads
    <3> QED BY <2>1, <3>1, <3>2, LimitAssumption DEF Reads
  <2>2. CASE pipe' = pipe /\ rx' = Append(rx, Broken) /\ reader' = "done"
    BY <2>2, LimitAssumption DEF Reads
  <2> QED BY <2>1, <2>2 DEF Reads
<1> QED BY <1>1 DEF Reads, treeVars

\* A return without an answer about the tree.
LEMMA UncertainKeeps ==
  ASSUME SInv, Uncertain, UNCHANGED <<stopping, terminal, cancelled, asked, treeVars, held, updates>>
  PROVE  SInv'
<1>1. TypeOK'
  <2>1. /\ pipe' \in Seq(Frames \cup {Broken}) /\ Len(pipe') <= PipeLimit
        /\ rx' \in Seq(Frames \cup {Broken}) /\ Len(rx') <= ReaderLimit
        /\ result' \in Errors \cup {None}
    BY ErrorAssumption, LimitAssumption DEF Uncertain
  <2> QED BY <2>1 DEF Uncertain, SInv, TypeOK, treeVars
<1> QED BY <1>1 DEF Uncertain, SInv, TreeKnown, FlagFollows, UncertainDemands, HeldFollows, Unsettled, treeVars

\* A return with the tree gone.
LEMMA SettledKeeps ==
  ASSUME SInv, NEW e \in Errors \cup {None}, Settled(e), worker # "alive", ~helpers,
         UNCHANGED <<stopping, terminal, cancelled, asked, treeVars, held, updates>>
  PROVE  SInv'
BY LimitAssumption
   DEF Settled, SInv, TypeOK, TreeKnown, FlagFollows, UncertainDemands, HeldFollows, Unsettled, treeVars

\* What was read is a frame, or the end of the stream.
LEMMA HeadIsFrame ==
  ASSUME SInv, rx # <<>>
  PROVE  /\ Head(rx) \in Frames \cup {Broken} /\ Tail(rx) \in Seq(Frames \cup {Broken})
         /\ Len(Tail(rx)) <= ReaderLimit
         /\ Head(rx).kind = "Finished" => Head(rx).error \in Errors \cup {None}
         /\ Head(rx).kind \in Kinds => Head(rx) \in [kind : Kinds]
<1>1. Head(rx) \in Frames \cup {Broken} /\ Tail(rx) \in Seq(Frames \cup {Broken}) /\ Len(Tail(rx)) <= ReaderLimit
  BY LimitAssumption DEF SInv, TypeOK
<1> QED BY <1>1 DEF Frames, Broken, Finished, Kinds

\* The results that are still found once the worker has exited.
LEMMA DrainedType ==
  ASSUME SInv, NEW t \in Drained
  PROVE  t \in {<<>>} \cup {<<e>> : e \in Errors \cup {None}}
<1>1. CASE terminal # <<>>
  BY <1>1 DEF Drained, SInv, TypeOK
<1>2. CASE terminal = <<>> /\ t # <<>>
  <2>1. PICK g \in {rx[i] : i \in 1..Len(rx)} \cup {pipe[i] : i \in 1..Len(pipe)} : g.kind = "Finished" /\ t = <<g.error>>
    BY <1>2 DEF Drained
  <2>2. g \in Frames \cup {Broken}
    BY <2>1 DEF SInv, TypeOK
  <2>3. g.error \in Errors \cup {None}
    BY <2>1, <2>2 DEF Frames, Broken, Finished, Kinds
  <2> QED BY <2>1, <2>3
<1> QED BY <1>1, <1>2

\* Before and during the launch.
LEMMA LaunchKeeps == SInv /\ (Refused \/ Launched \/ AttachFails \/ HandedOver) => SInv'
<1> SUFFICES ASSUME SInv, Refused \/ Launched \/ AttachFails \/ HandedOver PROVE SInv'
  OBVIOUS
<1>1. CASE Refused
  <2>1. worker # "alive" /\ ~helpers
    BY <1>1 DEF Refused, SInv, TreeKnown, FlagFollows
  <2> QED BY <1>1, <2>1, SettledKeeps DEF Refused
<1>2. CASE Launched
  BY <1>2 DEF Launched, SInv, TypeOK, TreeKnown, FlagFollows, UncertainDemands, HeldFollows, Unsettled, wireVars
<1>3. CASE AttachFails
  BY <1>3, UncertainKeeps DEF AttachFails
<1>4. CASE HandedOver
  BY <1>4 DEF HandedOver, SInv, TypeOK, TreeKnown, FlagFollows, UncertainDemands, HeldFollows, Unsettled, treeVars
<1> QED BY <1>1, <1>2, <1>3, <1>4

\* The branches of the select, and the update one of them forwards.
LEMMA SelectKeeps == SInv /\ (OnCancel \/ OnDeadline \/ OnUpdate \/ Forwards \/ OnExit) => SInv'
<1> SUFFICES ASSUME SInv, OnCancel \/ OnDeadline \/ OnUpdate \/ Forwards \/ OnExit PROVE SInv'
  OBVIOUS
<1> USE DEF SInv, TypeOK, TreeKnown, FlagFollows, UncertainDemands, HeldFollows, Unsettled, treeVars, wireVars
<1>1. CASE OnCancel
  BY <1>1 DEF OnCancel, StopWorker
<1>2. CASE OnDeadline
  BY <1>2 DEF OnDeadline
<1>3. CASE OnUpdate
  <2>1. CASE rx # <<>> /\ Head(rx).kind = "Finished" /\ terminal' = <<Head(rx).error>> /\ stopping' = TRUE
             /\ rx' = Tail(rx) /\ UNCHANGED <<pc, asked, held>>
    <3>1. /\ rx' \in Seq(Frames \cup {Broken}) /\ Len(rx') <= ReaderLimit
          /\ terminal' \in {<<>>} \cup {<<e>> : e \in Errors \cup {None}}
      BY <2>1, HeadIsFrame
    <3> QED BY <1>3, <2>1, <3>1 DEF OnUpdate
  <2>2. CASE rx # <<>> /\ Head(rx).kind \in Kinds /\ pc' = "forward" /\ held' = <<Head(rx)>>
             /\ rx' = Tail(rx) /\ UNCHANGED <<terminal, stopping, asked>>
    <3>1. /\ rx' \in Seq(Frames \cup {Broken}) /\ Len(rx') <= ReaderLimit
          /\ held' \in {<<>>} \cup {<<f>> : f \in [kind : Kinds]} /\ held' # <<>>
      BY <2>2, HeadIsFrame
    <3>2. pc = "select"
      BY <1>3 DEF OnUpdate
    <3> QED BY <1>3, <2>2, <3>1, <3>2 DEF OnUpdate
  <2>3. CASE terminal' = <<"Other">> /\ StopWorker /\ rx' = <<>> /\ UNCHANGED <<pc, held>>
    <3>1. /\ rx' \in Seq(Frames \cup {Broken}) /\ Len(rx') <= ReaderLimit
          /\ terminal' \in {<<>>} \cup {<<e>> : e \in Errors \cup {None}}
      BY <2>3, LimitAssumption, ErrorAssumption
    <3>2. stopping' \in BOOLEAN /\ asked' \in BOOLEAN
      BY <2>3 DEF StopWorker
    <3>3. pc = "select" /\ UNCHANGED <<quiescent, result, cancelled, treeVars, pipe, reader, updates>>
      BY <1>3 DEF OnUpdate
    <3> QED BY <2>3, <3>1, <3>2, <3>3
  <2> QED BY <1>3, <2>1, <2>2, <2>3 DEF OnUpdate
<1>4. CASE Forwards
  <2>1. held[1] \in Updates
    BY <1>4 DEF Forwards, Updates
  <2>2. updates' \in Seq(Updates) /\ Len(updates') <= QueueLimit
    BY <1>4, <2>1, LimitAssumption DEF Forwards, Room
  <2> QED BY <1>4, <2>2 DEF Forwards
<1>5. CASE OnExit
  <2>1. PICK t \in Drained : terminal' = t /\ result' \in IF t = <<>> THEN {"Other"} ELSE {t[1], "Other"}
    BY <1>5 DEF OnExit
  <2>2. t \in {<<>>} \cup {<<e>> : e \in Errors \cup {None}}
    BY DrainedType
  <2>3. result' \in Errors \cup {None} /\ terminal' \in {<<>>} \cup {<<e>> : e \in Errors \cup {None}}
    BY <2>1, <2>2, ErrorAssumption
  <2>4. Len(pipe') <= PipeLimit /\ Len(rx') <= ReaderLimit
    BY <1>5, LimitAssumption DEF OnExit
  <2> QED BY <1>5, <2>3, <2>4 DEF OnExit
<1> QED BY <1>1, <1>2, <1>3, <1>4, <1>5

\* terminate_worker and wait_quiet: the tree is said to be gone only under its lock.
LEMMA EndKeeps == SInv /\ (Kill \/ Reap \/ WaitQuiet) => SInv'
<1> SUFFICES ASSUME SInv, Kill \/ Reap \/ WaitQuiet PROVE SInv'
  OBVIOUS
<1>1. CASE Kill
  <2>1. CASE Uncertain /\ UNCHANGED treeVars
    BY <1>1, <2>1, UncertainKeeps DEF Kill, treeVars
  <2>2. CASE /\ pc' = IF pc = "kill" THEN "reap" ELSE "handoff_reap"
             /\ worker' \in {worker, "exited"} /\ helpers' \in {helpers, FALSE}
             /\ UNCHANGED <<journal, quiescent, result, wireVars>>
    <3>1. pc \in {"kill", "handoff_kill"} /\ UNCHANGED <<stopping, terminal, cancelled, asked, held, updates>>
      BY <1>1 DEF Kill
    <3>2. helpers' \in BOOLEAN /\ worker' \in {"none", "alive", "exited"} /\ pc' \in {"reap", "handoff_reap"}
      BY <2>2, <3>1 DEF SInv, TypeOK
    <3>3. TypeOK'
      BY <2>2, <3>1, <3>2 DEF SInv, TypeOK, wireVars
    <3> QED BY <2>2, <3>1, <3>3 DEF SInv, TreeKnown, FlagFollows, UncertainDemands, HeldFollows, Unsettled
  <2> QED BY <1>1, <2>1, <2>2 DEF Kill
<1>2. CASE Reap
  <2>1. CASE Uncertain
    BY <1>2, <2>1, UncertainKeeps DEF Reap
  <2>2. CASE /\ worker = "exited"
             /\ pc' = IF pc = "reap" THEN "quiet" ELSE "handoff_quiet"
             /\ result' = IF pc = "handoff_reap" THEN "Other"
                          ELSE IF terminal = <<>> THEN None ELSE terminal[1]
             /\ reader' = "done" /\ pipe' = <<>> /\ rx' = <<>>
             /\ UNCHANGED quiescent
    <3>1. result' \in Errors \cup {None}
      BY <2>2, ErrorAssumption DEF SInv, TypeOK
    <3>2. /\ pipe' \in Seq(Frames \cup {Broken}) /\ Len(pipe') <= PipeLimit
          /\ rx' \in Seq(Frames \cup {Broken}) /\ Len(rx') <= ReaderLimit
      BY <2>2, LimitAssumption
    <3>3. pc \in {"reap", "handoff_reap"}
          /\ UNCHANGED <<stopping, terminal, cancelled, asked, treeVars, held, updates>>
      BY <1>2 DEF Reap
    <3>4. TypeOK'
      BY <2>2, <3>1, <3>2, <3>3 DEF SInv, TypeOK, treeVars
    <3> QED BY <2>2, <3>3, <3>4 DEF SInv, TreeKnown, FlagFollows, UncertainDemands, HeldFollows, Unsettled, treeVars
  <2> QED BY <1>2, <2>1, <2>2 DEF Reap
<1>3. CASE WaitQuiet
  <2>1. CASE Uncertain
    BY <1>3, <2>1, UncertainKeeps DEF WaitQuiet
  <2>2. CASE TreeQuiet /\ Settled(result)
    BY <1>3, <2>2, SettledKeeps DEF WaitQuiet, TreeQuiet, LockFree, SInv, TypeOK
  <2> QED BY <1>3, <2>1, <2>2 DEF WaitQuiet
<1> QED BY <1>1, <1>2, <1>3

\* The restoration and the report.
LEMMA ReportKeeps == SInv /\ (Recover \/ Report) => SInv'
<1> SUFFICES ASSUME SInv, Recover \/ Report PROVE SInv'
  OBVIOUS
<1>1. CASE Recover
  BY <1>1, ErrorAssumption
     DEF Recover, SInv, TypeOK, TreeKnown, FlagFollows, UncertainDemands, HeldFollows, Unsettled, wireVars
<1>2. CASE Report
  <2>1. Finished(result, quiescent) \in Updates
    BY DEF SInv, TypeOK, Updates
  <2>2. updates' \in Seq(Updates) /\ Len(updates') <= QueueLimit
    BY <1>2, <2>1, LimitAssumption DEF Report, Room, SInv, TypeOK
  <2> QED BY <1>2, <2>2
      DEF Report, SInv, TypeOK, TreeKnown, FlagFollows, UncertainDemands, HeldFollows, Unsettled, treeVars, wireVars
<1> QED BY <1>1, <1>2

\* What is stated holds of every state the supervisor reaches.
THEOREM SupervisorInvariant == Spec => []SInv
<1>1. ASSUME SInv, Next PROVE SInv'
  <2>1. CASE Done
    BY <1>1, <2>1 DEF Done, vars, treeVars, wireVars, SInv, TypeOK, TreeKnown, FlagFollows, UncertainDemands,
                      HeldFollows, Unsettled
  <2> QED BY <1>1, <2>1, ServiceKeeps, TreeKeeps, ReadsKeeps, LaunchKeeps, SelectKeeps, EndKeeps, ReportKeeps
      DEF Next, Supervise
<1>2. ASSUME SInv, UNCHANGED vars PROVE SInv'
  BY <1>2 DEF vars, treeVars, wireVars, SInv, TypeOK, TreeKnown, FlagFollows, UncertainDemands, HeldFollows, Unsettled
<1> QED BY SInvInit, <1>1, <1>2, PTL DEF Spec

----------------------------------------------------------------------------
(* The contract, step by step                                              *)

\* What the contract sees changes only with these.
seen == <<pc, result, quiescent, cancelled, updates, journal>>

\* The contract sees the history of the supervisor alone.
LEMMA SeenOnly == UNCHANGED seen => UNCHANGED Contract!contractVars
BY DEF seen, Contract!contractVars, Life, Composed

\* A position inside supervise_inner stays one, whatever else the step does.
LEMMA InsideStutters ==
  ASSUME Life = "running", Life' = "running", UNCHANGED <<quiescent, cancelled, updates, journal>>
  PROVE  UNCHANGED Contract!contractVars
<1>1. Composed = Finished(None, TRUE) /\ Composed' = Finished(None, TRUE)
  BY DEF Life, Composed
<1> QED BY <1>1 DEF Contract!contractVars

\* The initial states are initial states of the contract.
LEMMA ContractStarts == Init => Contract!ContractInit
BY DEF Init, Contract!ContractInit, Life, Composed, Finished, Contract!FinishedUpdate

\* A return without an answer is the contract's GivesUp.
LEMMA UncertainGivesUp ==
  ASSUME SInv, pc \in Unsettled, Uncertain, UNCHANGED <<cancelled, updates, journal>>
  PROVE  Contract!GivesUp
BY DEF Uncertain, SInv, FlagFollows, Unsettled, Contract!GivesUp, Life, Composed, Finished, Contract!FinishedUpdate

\* A return with the tree gone is its Settles.
LEMMA SettledSettles ==
  ASSUME NEW e \in Errors \cup {None}, pc \in Unsettled \cup {"checks"}, Settled(e),
         UNCHANGED <<cancelled, updates, journal>>
  PROVE  Contract!Settles
BY DEF Settled, Unsettled, Contract!Settles, Life, Composed, Finished, Contract!FinishedUpdate

\* Steps that the contract does not see, or that serve it.
LEMMA ContractServes == SInv /\ (Spawned \/ CancelSent \/ Received) => [Contract!ContractNext]_Contract!contractVars
<1> SUFFICES ASSUME SInv, Spawned \/ CancelSent \/ Received PROVE Contract!ContractNext
  BY DEF Contract!ContractNext
<1>1. CASE Spawned
  BY <1>1 DEF Spawned, Contract!ContractNext, Contract!Started, Life, Composed, treeVars
<1>2. CASE CancelSent
  BY <1>2 DEF CancelSent, Contract!ContractNext, Contract!Asked, Life, Composed, treeVars
<1>3. CASE Received
  BY <1>3 DEF Received, Contract!ContractNext, Contract!Received, Life, Composed, treeVars
<1> QED BY <1>1, <1>2, <1>3

\* Helpers configure only a tree that is not said to be gone.
LEMMA ContractTree == SInv /\ (Tree \/ Reads) => [Contract!ContractNext]_Contract!contractVars
<1> SUFFICES ASSUME SInv, Tree \/ Reads PROVE [Contract!ContractNext]_Contract!contractVars
  OBVIOUS
<1>1. CASE HelperConfigures
  <2>1. ~quiescent /\ journal' \in BOOLEAN
    BY <1>1 DEF HelperConfigures, SInv, TypeOK, TreeKnown
  <2> QED BY <1>1, <2>1 DEF HelperConfigures, Contract!ContractNext, Contract!TreeConfigures, Life, Composed
<1>2. ASSUME NEW f \in Frames \cup {Broken}, WorkerWrites(f) PROVE UNCHANGED seen
  BY <1>2 DEF WorkerWrites, seen, treeVars
<1>3. CASE WorkerExits
  BY <1>3, SeenOnly DEF WorkerExits, seen
<1>4. CASE HelperRuns
  BY <1>4, SeenOnly DEF HelperRuns, seen
<1>5. CASE Reads
  BY <1>5, SeenOnly DEF Reads, seen, treeVars
<1> QED BY <1>1, <1>2, <1>3, <1>4, <1>5, SeenOnly DEF Tree

\* The launch of the worker is a step of the contract, or a stutter.
LEMMA ContractLaunches ==
  SInv /\ (Refused \/ Launched \/ AttachFails \/ HandedOver) => [Contract!ContractNext]_Contract!contractVars
<1> SUFFICES ASSUME SInv, Refused \/ Launched \/ AttachFails \/ HandedOver
             PROVE  [Contract!ContractNext]_Contract!contractVars
  OBVIOUS
<1>1. CASE Refused
  BY <1>1, SettledSettles DEF Refused, Contract!ContractNext, treeVars
<1>2. CASE Launched
  BY <1>2 DEF Launched, Contract!ContractNext, Contract!TreeStarts, Life, Composed
<1>3. CASE AttachFails
  BY <1>3, UncertainGivesUp DEF AttachFails, Unsettled, Contract!ContractNext, treeVars
<1>4. CASE HandedOver
  BY <1>4, InsideStutters DEF HandedOver, Life, treeVars
<1> QED BY <1>1, <1>2, <1>3, <1>4

\* The supervisor's loop takes a step of the contract, or a stutter.
LEMMA ContractSelects ==
  SInv /\ (OnCancel \/ OnDeadline \/ OnUpdate \/ Forwards \/ OnExit) => [Contract!ContractNext]_Contract!contractVars
<1> SUFFICES ASSUME SInv, OnCancel \/ OnDeadline \/ OnUpdate \/ Forwards \/ OnExit
             PROVE  [Contract!ContractNext]_Contract!contractVars
  OBVIOUS
<1>1. CASE OnCancel
  BY <1>1, InsideStutters DEF OnCancel, Life, treeVars
<1>2. CASE OnDeadline
  BY <1>2, InsideStutters DEF OnDeadline, Life, treeVars
<1>3. CASE OnUpdate
  BY <1>3, InsideStutters DEF OnUpdate, Life, treeVars
<1>4. CASE Forwards
  <2>1. ~quiescent /\ held[1] \in [kind : Kinds]
    BY <1>4 DEF Forwards, SInv, TypeOK, FlagFollows, Unsettled, HeldFollows
  <2>2. PICK k \in Kinds : held[1] = [kind |-> k]
    BY <2>1
  <2> QED BY <1>4, <2>1, <2>2 DEF Forwards, Kinds, Contract!ContractNext, Contract!Forwards, Life, Composed, treeVars
<1>5. CASE OnExit
  BY <1>5, InsideStutters DEF OnExit, Life, treeVars
<1> QED BY <1>1, <1>2, <1>3, <1>4, <1>5

\* The end of the worker's tree is a step of the contract, or a stutter.
LEMMA ContractEnds == SInv /\ (Kill \/ Reap \/ WaitQuiet) => [Contract!ContractNext]_Contract!contractVars
<1> SUFFICES ASSUME SInv, Kill \/ Reap \/ WaitQuiet PROVE [Contract!ContractNext]_Contract!contractVars
  OBVIOUS
<1>1. pc \in Unsettled /\ UNCHANGED <<cancelled, updates, journal>>
  BY DEF Kill, Reap, WaitQuiet, Unsettled, treeVars
<1>2. CASE Uncertain
  BY <1>1, <1>2, UncertainGivesUp DEF Contract!ContractNext
<1>3. CASE ~Uncertain /\ WaitQuiet
  BY <1>1, <1>3, SettledSettles DEF WaitQuiet, Contract!ContractNext, SInv, TypeOK
<1>4. CASE ~Uncertain /\ (Kill \/ Reap)
  BY <1>4, InsideStutters DEF Kill, Reap, Life, treeVars
<1> QED BY <1>2, <1>3, <1>4

\* Recovery and the last report are steps of the contract, or stutters.
LEMMA ContractReports == SInv /\ (Recover \/ Report) => [Contract!ContractNext]_Contract!contractVars
<1> SUFFICES ASSUME SInv, Recover \/ Report PROVE Contract!ContractNext
  BY DEF Contract!ContractNext
<1>1. CASE Recover
  <2>1. quiescent
    BY <1>1 DEF Recover, SInv, FlagFollows
  <2> QED BY <1>1, <2>1
      DEF Recover, SInv, TypeOK, Contract!ContractNext, Contract!Recovers, Contract!FinishedUpdate, Finished, Life, Composed
<1>2. CASE Report
  BY <1>2 DEF Report, Contract!ContractNext, Contract!Reports, Contract!FinishedUpdate, Finished, Life, Composed, treeVars
<1> QED BY <1>1, <1>2

\* The supervisor implements the contract the daemon relies on: nothing but
\* its restoration touches the journal of a tree it has called gone, it calls
\* a tree gone only under the lock its processes hold, and it reports once,
\* demanding repair whenever that was not established (worker.rs supervise).
THEOREM SupervisorKeepsContract == Spec => KeepsContract
<1>1. SInv /\ Next => [Contract!ContractNext]_Contract!contractVars
  <2> SUFFICES ASSUME SInv, Next PROVE [Contract!ContractNext]_Contract!contractVars
    OBVIOUS
  <2>1. CASE Done
    BY <2>1, SeenOnly DEF Done, vars, treeVars, seen
  <2> QED BY <2>1, ContractServes, ContractTree, ContractLaunches, ContractSelects, ContractEnds, ContractReports
      DEF Next, Supervise
<1>2. UNCHANGED vars => UNCHANGED Contract!contractVars
  BY SeenOnly DEF vars, treeVars, seen
<1> QED BY ContractStarts, SupervisorInvariant, <1>1, <1>2, PTL DEF Spec, KeepsContract, Contract!ContractSpec

----------------------------------------------------------------------------
(***************************************************************************)
(* The worker beneath the supervisor, for any number of lost connections   *)
(* and any capacities of its channels: what it announces is true.          *)
(*                                                                         *)
(* A report is about the connection its script ran for.  WorkInv follows   *)
(* the reports from the script (Scripts) through the monitor and the       *)
(* channel into the loop: a reconnection is reported right after the       *)
(* attempt it came from (Paired), so that the loop's flags are about the   *)
(* connection it has announced (Announced), and a good report means that   *)
(* the configuration is there (Grounded).                                  *)
(***************************************************************************)
CONSTANTS MaxCycles, EventLimit, ReportLimit
VARIABLES outcome, stopped, queried, reason, good, monitor, stream, mail, reports, events, ready, reconnecting,
          reconnected, observation

Work == INSTANCE Worker WITH cancelled <- stopped, asked <- queried

\* Nothing reported from now on reaches the loop, except that the channel broke.
Shut == monitor = "ended" \/ stream = "dead" \/ (monitor = "passing" /\ mail = Work!Broken)

\* The running script has not been reported, and may still be.
Unread == helper \in {"dial", "lifecycle", "deliver"} \/ (helper = "rollback" /\ stream = "open")

\* The script that is running is the one libopenconnect runs on its way there.
Scripts ==
    /\ helper # "none" =>
         \/ native = "made" /\ reason = "PreInit"
         \/ native = "up" /\ reason = "Connect"
         \/ native = "trying" /\ reason = "AttemptReconnect"
         \/ native = "callback" /\ reason = "Reconnect"
         \/ native = "finishing" /\ reason = "Disconnect"
    /\ monitor # "passing" => mail = Work!Broken
    /\ stream = "open" => monitor = "serving" /\ helper \in {"lifecycle", "deliver", "rollback"}
    /\ helper \in {"lifecycle", "deliver"} => Shut \/ stream = "open"

\* No report is of a connection that is still to come.
Cycles ==
    /\ \A i \in 1..Len(reports) : reports[i].cycle <= cycle
    /\ mail.cycle <= cycle
    /\ observation # <<>> => observation[1] <= cycle
    /\ status.cycle <= cycle

\* The loop knows that connection n is being got back, or the session has failed.
Awaits(n) == failure \/ (status.kind = "Reconnecting" /\ status.cycle = n /\ observation = <<>>)

\* The last of the reports, or the loop if there is none, says so.
Told(n) ==
    IF reports = <<>> THEN Awaits(n)
    ELSE reports[Len(reports)].reason = "AttemptReconnect" /\ reports[Len(reports)].cycle = n

\* A reconnection is reported right after the attempt it comes from.
Paired ==
    /\ \A i \in 1..Len(reports) : reports[i].reason = "Reconnect" =>
         IF i = 1 THEN Awaits(reports[i].cycle)
         ELSE reports[i - 1].reason = "AttemptReconnect" /\ reports[i - 1].cycle = reports[i].cycle
    /\ mail.reason = "Reconnect" => Told(mail.cycle)
    /\ \/ native = "trying" /\ ~Unread
       \/ native = "callback" /\ Unread
       => \/ Shut
          \/ monitor = "passing" /\ mail.reason = "AttemptReconnect" /\ mail.cycle = cycle
          \/ monitor # "passing" /\ Told(cycle)

\* The loop's flags go with the status it wrote, and what it has observed is of
\* the connection it has announced as lost.
Announced ==
    /\ status.kind \in {"Connecting", "Connected", "Reconnecting"}
    /\ reconnecting <=> status.kind = "Reconnecting"
    /\ reconnecting /\ observation # <<>> => failure \/ observation[1] = status.cycle

\* A good report of the connection that is there now, wherever it has got to.
Confirms(r) == r.ok /\ r.reason \in {"Connect", "Reconnect"} /\ r.cycle = cycle

Confirmed ==
    \/ \E i \in 1..Len(reports) : Confirms(reports[i])
    \/ Confirms(mail)
    \/ observation = <<cycle>>
    \/ status.kind = "Connected" /\ status.cycle = cycle

\* Such a report exists after its script only, and the configuration is there.
Grounded ==
    late \/
    /\ native \in {"dialing", "made", "trying"} => ~Confirmed
    /\ native \in {"up", "callback"} /\ helper \notin {"none", "acked"} => ~Confirmed
    /\ native \in {"up", "callback"} /\ Confirmed => configured
    /\ helper = "deliver" /\ good /\ reason \in {"Connect", "Reconnect"} => configured

WorkInv ==
    /\ Work!TypeOK
    /\ loop # "ended" => Scripts /\ Cycles /\ Paired /\ Announced /\ Grounded

\* What a step of the worker is made of.
USE DEF Work!vars, Work!nativeVars, Work!helperVars, Work!monitorVars, Work!localVars, Work!loopVars, Work!NativeAt,
        Work!Script, Work!Idle, Work!Gone, Work!Broken, Work!Reasons, Work!Results

\* Steps that leave the channels to the loop alone, or add to one of them.
USE DEF Work!Outcome, WorkInv, Work!LimitAssumption, Work!TypeOK, Work!Reports, Work!Events, Scripts, Shut, Cycles,
         Paired, Told, Awaits, Unread, Announced, Grounded, Confirmed, Confirms

\* The native thread sets the tunnel up.
LEMMA WorkSetUp == ASSUME Work!LimitAssumption, WorkInv, Work!SetUp PROVE WorkInv'
BY DEF Work!SetUp

\* The tunnel is connected, and its script runs.
LEMMA WorkConnects == ASSUME Work!LimitAssumption, WorkInv, Work!Connects PROVE WorkInv'
BY DEF Work!Connects

\* Another attempt to get the connection back.
LEMMA WorkRetries == ASSUME Work!LimitAssumption, WorkInv, Work!Retries PROVE WorkInv'
BY DEF Work!Retries

\* An attempt succeeds: the script of the reconnection runs.
LEMMA WorkRegains == ASSUME Work!LimitAssumption, WorkInv, Work!Regains PROVE WorkInv'
BY DEF Work!Regains

\* The native main loop returns.
LEMMA WorkQuits == ASSUME Work!LimitAssumption, WorkInv, Work!Quits PROVE WorkInv'
BY DEF Work!Quits

\* It returns before there is a tunnel device.
LEMMA WorkQuitsEarly == ASSUME Work!LimitAssumption, WorkInv, Work!QuitsEarly PROVE WorkInv'
BY DEF Work!QuitsEarly

\* The worker is cancelled.
LEMMA WorkCancelled == ASSUME Work!LimitAssumption, WorkInv, Work!Cancelled PROVE WorkInv'
BY DEF Work!Cancelled

\* A helper is not served.
LEMMA WorkHelperRefused == ASSUME Work!LimitAssumption, WorkInv, Work!HelperRefused PROVE WorkInv'
BY DEF Work!HelperRefused

\* A helper has its acknowledgement.
LEMMA WorkHelperAcknowledged == ASSUME Work!LimitAssumption, WorkInv, Work!HelperAcknowledged PROVE WorkInv'
BY DEF Work!HelperAcknowledged

\* A helper gives up waiting for it.
LEMMA WorkHelperTimesOut == ASSUME Work!LimitAssumption, WorkInv, Work!HelperTimesOut PROVE WorkInv'
BY DEF Work!HelperTimesOut

\* The monitor serves a helper.
LEMMA WorkMonitorAccepts == ASSUME Work!LimitAssumption, WorkInv, Work!MonitorAccepts PROVE WorkInv'
BY DEF Work!MonitorAccepts

\* It reads and acknowledges a report.
LEMMA WorkMonitorReads == ASSUME Work!LimitAssumption, WorkInv, Work!MonitorReads PROVE WorkInv'
BY DEF Work!MonitorReads

\* The report channel breaks.
LEMMA WorkMonitorFails == ASSUME Work!LimitAssumption, WorkInv, Work!MonitorFails PROVE WorkInv'
BY DEF Work!MonitorFails

\* A report is passed on to the loop.
LEMMA WorkMonitorPasses == ASSUME Work!LimitAssumption, WorkInv, Work!MonitorPasses PROVE WorkInv'
BY DEF Work!MonitorPasses

\* The ticker fires.
LEMMA WorkTick == ASSUME Work!LimitAssumption, WorkInv, Work!Tick PROVE WorkInv'
BY DEF Work!Tick

\* The loop takes an event.
LEMMA WorkDrain == ASSUME Work!LimitAssumption, WorkInv, Work!Drain PROVE WorkInv'
BY DEF Work!Drain

\* A worker that has ended stays so.
LEMMA WorkEnded == ASSUME Work!LimitAssumption, WorkInv, Work!Ended PROVE WorkInv'
BY DEF Work!Ended

HIDE DEF Work!Outcome, WorkInv, Work!LimitAssumption, Work!TypeOK, Work!Reports, Work!Events, Scripts, Shut, Cycles,
          Paired, Told, Awaits, Unread, Announced, Grounded, Confirmed, Confirms

\* The connection is lost: nothing that was reported is of the next one.
LEMMA WorkLoses == ASSUME Work!LimitAssumption, WorkInv, Work!Loses PROVE WorkInv'
<1> USE DEF Work!Loses, WorkInv
<1>1. Work!TypeOK' BY DEF Work!TypeOK, Work!LimitAssumption
<1>2. /\ cycle \in Nat /\ cycle' = cycle + 1 /\ mail.cycle \in Nat /\ status.cycle \in Nat
      /\ \A i \in 1..Len(reports) : reports[i].cycle \in Nat
      /\ observation # <<>> => observation[1] \in Nat
    BY DEF Announced, Work!TypeOK, Work!LimitAssumption, Work!Reports
<1>3. Scripts' BY DEF Scripts, Shut
<1>4. Cycles' BY <1>2 DEF Cycles
<1>5. Paired' BY <1>2 DEF Paired, Told, Awaits, Unread, Shut
<1>6. Announced' BY DEF Announced
<1>7. ~Confirmed'
    <2>1. ASSUME observation = <<cycle'>> PROVE FALSE
        <3>1. observation # <<>> /\ observation[1] = cycle + 1 BY <1>2, <2>1
        <3> QED BY <1>2, <3>1 DEF Cycles
    <2> QED BY <1>2, <2>1 DEF Cycles, Confirmed, Confirms
<1>8. Grounded' BY <1>7 DEF Grounded
<1> QED BY <1>1, <1>3, <1>4, <1>5, <1>6, <1>8

\* An event that finds room.
LEMMA WorkEvent ==
    ASSUME Work!TypeOK, Work!LimitAssumption, NEW e \in Work!Events, Len(events) # EventLimit
    PROVE  /\ Append(events, e) \in Seq(Work!Events) /\ Len(Append(events, e)) <= EventLimit
           /\ Len(events) < EventLimit
BY DEF Work!TypeOK, Work!LimitAssumption

\* Steps that touch the native thread's events only.
LEMMA WorkEvents ==
    ASSUME Work!LimitAssumption, WorkInv, Work!Callback \/ Work!Statistics \/ Work!Finishes
    PROVE  WorkInv'
<1> USE DEF Work!Callback, Work!Statistics, Work!Finishes, WorkInv
<1>1. events' \in Seq(Work!Events) /\ Len(events') <= EventLimit
    <2>1. /\ [kind |-> "Reconnected"] \in Work!Events
          /\ [kind |-> "Statistics", up |-> native # "dialing"] \in Work!Events
          /\ [kind |-> "Finished", result |-> outcome] \in Work!Events
        BY DEF Work!Events, Work!TypeOK
    <2>2. \/ events' = events
          \/ Len(events) # EventLimit /\ \E e \in Work!Events : events' = Append(events, e)
        BY <2>1 DEF Work!TypeOK, Work!LimitAssumption
    <2> QED BY <2>2, WorkEvent DEF Work!TypeOK
<1>2. Work!TypeOK'
    <2>1. native' \in {"up", "gone", native} /\ outcome' \in {outcome, "ok"} /\ stopped' \in BOOLEAN /\ queried' \in BOOLEAN
        BY DEF Work!TypeOK
    <2>2. /\ UNCHANGED <<cycle, helper, reason, good, configured, late, monitor, stream, mail, reports, loop, ready>>
          /\ UNCHANGED <<reconnecting, reconnected, observation, failure, status>>
        OBVIOUS
    <2> HIDE DEF Work!Callback, Work!Statistics, Work!Finishes
    <2> QED BY <1>1, <2>1, <2>2 DEF Work!TypeOK
<1>3. ASSUME loop' # "ended" PROVE Scripts' /\ Cycles' /\ Announced'
    BY <1>3 DEF Scripts, Shut, Cycles, Announced
<1>4. ASSUME loop' # "ended" PROVE Paired' BY <1>4 DEF Scripts, Paired, Told, Awaits, Unread, Shut
<1>5. ASSUME loop' # "ended" PROVE Grounded' BY <1>5 DEF Grounded, Confirmed, Confirms
<1> QED BY <1>2, <1>3, <1>4, <1>5

\* A helper's lifecycle call: a good one leaves the configuration in place.
LEMMA WorkHelperWorks == ASSUME Work!LimitAssumption, WorkInv, Work!HelperWorks PROVE WorkInv'
<1> USE DEF Work!HelperWorks, WorkInv
<1>1. configured' \in BOOLEAN /\ (good' /\ reason \in {"Connect", "Reconnect"} => configured')
    BY DEF Work!Configurations, Work!TypeOK
<1>2. Work!TypeOK' BY <1>1 DEF Work!TypeOK
<1>3. ASSUME loop' # "ended" PROVE Scripts' /\ Cycles' /\ Announced'
    BY <1>3 DEF Scripts, Shut, Cycles, Announced
<1>4. ASSUME loop' # "ended" PROVE Paired' BY <1>4 DEF Scripts, Paired, Told, Awaits, Unread, Shut
<1>5. ASSUME loop' # "ended" PROVE Grounded' BY <1>1, <1>5 DEF Scripts, Grounded, Confirmed, Confirms
<1> QED BY <1>2, <1>3, <1>4, <1>5

\* A helper undoes its work and ends.
LEMMA WorkHelperRollsBack == ASSUME Work!LimitAssumption, WorkInv, Work!HelperRollsBack PROVE WorkInv'
<1> USE DEF Work!HelperRollsBack, WorkInv
<1>0. configured' \in BOOLEAN BY DEF Work!TypeOK
<1>1. Work!TypeOK' BY <1>0 DEF Work!TypeOK
<1>2. ASSUME loop' # "ended" PROVE Scripts' /\ Cycles' /\ Announced'
    BY <1>2 DEF Scripts, Shut, Cycles, Announced
<1>3. ASSUME loop' # "ended" PROVE Paired' BY <1>3 DEF Scripts, Paired, Told, Awaits, Unread, Shut
<1>4. ASSUME loop' # "ended" PROVE Grounded' BY <1>4 DEF Scripts, Grounded, Confirmed, Confirms
<1> QED BY <1>1, <1>2, <1>3, <1>4

\* The loop takes a report.
LEMMA WorkTakeReport == ASSUME Work!LimitAssumption, WorkInv, Work!TakeReport PROVE WorkInv'
<1> DEFINE r == Head(reports)
<1>1. /\ reports \in Seq(Work!Reports \cup {Work!Broken}) /\ reports # <<>> /\ r = reports[1]
      /\ Len(reports) \in Nat /\ 1 \in 1..Len(reports) /\ reports' = Tail(reports)
      /\ r \in Work!Reports \cup {Work!Broken} /\ Len(reports') = Len(reports) - 1
      /\ \A i \in 1..Len(reports') : i + 1 \in 1..Len(reports) /\ reports'[i] = reports[i + 1]
      /\ reports' \in Seq(Work!Reports \cup {Work!Broken})
    BY DEF Work!TakeReport, WorkInv, Work!TypeOK
<1>2. /\ loop = "select" /\ loop' = "drain"
      /\ UNCHANGED <<native, outcome, cycle, queried, helper, reason, good, configured, late, monitor, stream, mail,
                     events, ready, reconnected>>
      /\ \/ /\ failure' = TRUE /\ stopped' = TRUE /\ UNCHANGED <<reconnecting, observation, status>>
         \/ /\ r.ok /\ r.reason = "AttemptReconnect" /\ UNCHANGED <<failure, stopped>>
            /\ reconnecting' = TRUE /\ observation' = <<>>
            /\ status' = [kind |-> "Reconnecting", cycle |-> r.cycle]
         \/ /\ r.ok /\ r.reason = (IF reconnecting THEN "Reconnect" ELSE "Connect") /\ observation' = <<r.cycle>>
            /\ UNCHANGED <<failure, stopped, reconnecting, status>>
         \/ /\ r.reason \in {"PreInit", "Disconnect"}
            /\ UNCHANGED <<failure, stopped, reconnecting, observation, status>>
    BY DEF Work!TakeReport, Work!Fails, Work!Lost
<1>3. r.cycle \in 0..MaxCycles BY <1>1 DEF Work!Reports, Work!LimitAssumption
<1> HIDE DEF r
<1>4. Scripts /\ Cycles /\ Paired /\ Announced /\ Grounded /\ Work!TypeOK BY <1>2 DEF WorkInv
<1>5. Work!TypeOK'
    <2>1. status' \in [kind : {"Connecting", "Connected", "Reconnecting"}, cycle : 0..MaxCycles]
                      \cup [kind : {"Finished"}, result : Work!Results] \cup [kind : {"Killed"}]
        BY <1>2, <1>3, <1>4 DEF Work!TypeOK
    <2>2. observation' \in {<<>>} \cup {<<n>> : n \in 0..MaxCycles} BY <1>2, <1>3, <1>4 DEF Work!TypeOK
    <2>3. Len(reports') <= ReportLimit BY <1>1, <1>4 DEF Work!TypeOK, Work!LimitAssumption
    <2>4. stopped' \in BOOLEAN /\ reconnecting' \in BOOLEAN /\ failure' \in BOOLEAN BY <1>2, <1>4 DEF Work!TypeOK
    <2> QED BY <1>1, <1>2, <1>4, <2>1, <2>2, <2>3, <2>4 DEF Work!TypeOK
<1>6. Scripts' BY <1>2, <1>4 DEF Scripts, Shut
<1>7. Cycles' BY <1>1, <1>2, <1>4 DEF Cycles
<1>8. Announced' BY <1>1, <1>2, <1>4 DEF Announced, Paired, Awaits
<1>9. \A n : r.reason = "AttemptReconnect" /\ r.cycle = n => Awaits(n)' BY <1>2 DEF Awaits
<1>10. \A n : Told(n) => Told(n)'
    <2> TAKE n
    <2> SUFFICES ASSUME Told(n) PROVE Told(n)' OBVIOUS
    <2>1. reports[Len(reports)].reason = "AttemptReconnect" /\ reports[Len(reports)].cycle = n
        BY <1>1 DEF Told
    <2>2. CASE reports' = <<>>
        <3>1. Len(reports') = 0 BY <2>2
        <3>2. Len(reports) = 1 BY <1>1, <3>1
        <3> QED BY <1>1, <1>9, <2>1, <2>2, <3>2 DEF Told
    <2>3. CASE reports' # <<>>
        <3>1. Len(reports') \in 1..Len(reports') /\ Len(reports') + 1 = Len(reports) BY <1>1, <2>3
        <3> QED BY <1>1, <2>1, <2>3, <3>1 DEF Told
    <2> QED BY <2>2, <2>3
<1>11. ASSUME NEW i \in 1..Len(reports'), reports'[i].reason = "Reconnect", NEW n, n = reports'[i].cycle
       PROVE  IF i = 1 THEN Awaits(n)'
              ELSE reports'[i - 1].reason = "AttemptReconnect" /\ reports'[i - 1].cycle = n
    <2>1. /\ i + 1 \in 1..Len(reports) /\ i + 1 # 1 /\ reports[i + 1] = reports'[i] /\ (i + 1) - 1 = i
          /\ i \in 1..Len(reports) /\ i \in Nat
        BY <1>1
    <2>2. reports[i].reason = "AttemptReconnect" /\ reports[i].cycle = n BY <1>4, <1>11, <2>1 DEF Paired
    <2>3. CASE i = 1 BY <1>1, <1>9, <2>2, <2>3
    <2>4. CASE i # 1
        <3>1. i - 1 \in 1..Len(reports') /\ (i - 1) + 1 = i BY <1>1, <2>1, <2>4
        <3> QED BY <1>1, <2>2, <2>4, <3>1
    <2> QED BY <2>3, <2>4
<1>12. Paired'
    <2>1. mail'.reason = "Reconnect" => Told(mail.cycle)' BY <1>2, <1>4, <1>10 DEF Paired
    <2>2. Told(cycle) => Told(cycle)' BY <1>2, <1>10
    <2> QED BY <1>2, <1>4, <1>11, <2>1, <2>2 DEF Paired, Unread, Shut
<1>13. Confirmed' => Confirmed
    <2>1. \A i \in 1..Len(reports') : Confirms(reports[i])' => Confirms(reports[i + 1])
        BY <1>1, <1>2 DEF Confirms
    <2>2. observation' = <<cycle>> /\ observation' # observation => Confirms(reports[1])
        <3> SUFFICES ASSUME observation' = <<cycle>>, observation' # observation PROVE Confirms(r) BY <1>1
        <3>1. observation' # <<>> BY Len(<<>>) = 0, Len(<<cycle>>) = 1
        <3>2. r.ok /\ r.reason \in {"Connect", "Reconnect"} /\ observation' = <<r.cycle>> BY <1>2, <3>1
        <3>3. r.cycle = cycle BY <3>2, <<r.cycle>>[1] = r.cycle, <<cycle>>[1] = cycle
        <3> QED BY <3>2, <3>3 DEF Confirms
    <2>3. status'.kind = "Connected" => status' = status BY <1>2
    <2>4. Confirms(mail)' <=> Confirms(mail) BY <1>2 DEF Confirms
    <2> SUFFICES ASSUME Confirmed' PROVE Confirmed OBVIOUS
    <2>5. CASE \E i \in 1..Len(reports') : Confirms(reports[i])'
        <3>1. PICK i \in 1..Len(reports') : Confirms(reports[i])' BY <2>5
        <3>2. i + 1 \in 1..Len(reports) /\ Confirms(reports[i + 1]) BY <1>1, <2>1, <3>1
        <3> QED BY <3>2 DEF Confirmed
    <2>6. CASE observation' = <<cycle>> BY <1>1, <2>2, <2>6 DEF Confirmed
    <2>7. CASE Confirms(mail)' \/ (status'.kind = "Connected" /\ status'.cycle = cycle)
        BY <2>3, <2>4, <2>7 DEF Confirmed
    <2> QED BY <1>2, <2>5, <2>6, <2>7 DEF Confirmed
<1>14. Grounded' BY <1>2, <1>4, <1>13 DEF Grounded
<1> QED BY <1>5, <1>6, <1>7, <1>8, <1>12, <1>14 DEF WorkInv

\* A turn ends: the loop announces the connection it has observed.
LEMMA WorkTurnEnds == ASSUME Work!LimitAssumption, WorkInv, Work!TurnEnds PROVE WorkInv'
<1> USE DEF Work!TurnEnds, Work!Announceable, WorkInv
<1>1. observation # <<>> => observation[1] \in 0..MaxCycles /\ observation = <<observation[1]>>
    BY DEF Work!TypeOK
<1>2. Work!TypeOK'
    <2>1. status' \in [kind : {"Connecting", "Connected", "Reconnecting"}, cycle : 0..MaxCycles]
                      \cup [kind : {"Finished"}, result : Work!Results] \cup [kind : {"Killed"}]
        BY <1>1 DEF Work!TypeOK
    <2>2. observation' \in {<<>>} \cup {<<n>> : n \in 0..MaxCycles} BY DEF Work!TypeOK
    <2>3. /\ stopped' \in BOOLEAN /\ reconnecting' \in BOOLEAN /\ reconnected' \in BOOLEAN /\ failure' \in BOOLEAN
        BY DEF Work!TypeOK
    <2>4. /\ UNCHANGED <<native, outcome, cycle, queried, helper, reason, good, configured, late, monitor, stream, mail>>
          /\ UNCHANGED <<reports, events, ready>> /\ loop' = "select"
        OBVIOUS
    <2> HIDE DEF Work!TurnEnds
    <2> QED BY <2>1, <2>2, <2>3, <2>4 DEF Work!TypeOK
<1>3. Scripts' BY DEF Scripts, Shut
<1>4. Cycles' BY <1>1 DEF Cycles
<1>5. Paired' BY DEF Paired, Told, Awaits, Unread, Shut, Scripts
<1>6. Announced'
    <2>1. CASE Work!Announceable BY <2>1 DEF Announced
    <2>2. CASE ~Work!Announceable BY <2>2, Zenon DEF Announced
    <2> QED BY <2>1, <2>2
<1>7. Confirmed' => Confirmed BY <1>1 DEF Confirmed, Confirms
<1>8. Grounded' BY <1>7 DEF Grounded
<1> QED BY <1>2, <1>3, <1>4, <1>5, <1>6, <1>8

\* The worker ends, with its own result or killed.
LEMMA WorkOver ==
    ASSUME Work!LimitAssumption, WorkInv, Work!Finish \/ Work!Killed
    PROVE  WorkInv' /\ loop # "ended" /\ loop' = "ended"
<1> USE DEF Work!Finish, Work!Killed, WorkInv
<1>1. status' \in [kind : {"Finished"}, result : Work!Results] \cup [kind : {"Killed"}]
    <2>1. CASE Work!Finish
        <3>1. Head(events) \in Work!Events BY <2>1 DEF Work!TypeOK
        <3> QED BY <2>1, <3>1 DEF Work!Events, Work!FinalResult
    <2>2. CASE Work!Killed BY <2>2
    <2> QED BY <2>1, <2>2
<1>2. <<>> \in Seq(Work!Reports \cup {Work!Broken}) /\ <<>> \in Seq(Work!Events) /\ Len(<<>>) = 0 OBVIOUS
<1>3. reports' = <<>> /\ events' = <<>> /\ loop' = "ended" /\ loop # "ended" OBVIOUS
<1>4. Work!TypeOK'
    <2>1. /\ native' \in {native, "gone"} /\ helper' \in {helper, "none"} /\ reason' \in {reason, "PreInit"}
          /\ good' \in BOOLEAN /\ UNCHANGED <<stopped, configured, failure>>
        BY DEF Work!TypeOK
    <2>2. /\ outcome' = "ok" /\ cycle' = 0 /\ queried' = FALSE /\ late' = FALSE /\ monitor' = "ended" /\ stream' = "none"
          /\ mail' = Work!Broken /\ ready' = FALSE /\ reconnecting' = FALSE /\ reconnected' = FALSE
          /\ observation' = <<>>
        OBVIOUS
    <2> HIDE DEF Work!Finish, Work!Killed, Work!Gone
    <2>3. /\ reports' \in Seq(Work!Reports \cup {Work!Broken}) /\ Len(reports') <= ReportLimit
          /\ events' \in Seq(Work!Events) /\ Len(events') <= EventLimit
        BY <1>2, <1>3 DEF Work!LimitAssumption
    <2>4. outcome' \in Work!Results /\ cycle' \in 0..MaxCycles BY <2>2 DEF Work!LimitAssumption
    <2>5. native' \in {"dialing", "made", "up", "trying", "callback", "finishing", "gone"} BY <2>1 DEF Work!TypeOK
    <2>6. /\ helper' \in {"none", "dial", "lifecycle", "deliver", "acked", "rollback"}
          /\ reason' \in Work!Reasons /\ good' \in BOOLEAN
        BY <2>1 DEF Work!TypeOK
    <2>7. stopped' \in BOOLEAN /\ configured' \in BOOLEAN /\ failure' \in BOOLEAN BY <2>1, Zenon DEF Work!TypeOK
    <2> QED BY <1>1, <1>3, <2>2, <2>3, <2>4, <2>5, <2>6, <2>7 DEF Work!TypeOK
<1> QED BY <1>3, <1>4

\* The worker as it is started.
LEMMA WorkInit == ASSUME Work!LimitAssumption, Work!Init PROVE WorkInv
<1> USE DEF Work!Init, Work!LimitAssumption
<1>1. /\ <<>> \in Seq(Work!Reports \cup {Work!Broken}) /\ <<>> \in Seq(Work!Events) /\ Len(<<>>) = 0
    OBVIOUS
<1>2. Work!TypeOK
    <2>1. cycle \in 0..MaxCycles /\ outcome \in Work!Results /\ status.cycle \in 0..MaxCycles OBVIOUS
    <2>2. status \in [kind : {"Connecting", "Connected", "Reconnecting"}, cycle : 0..MaxCycles] BY <2>1
    <2>3. /\ reports \in Seq(Work!Reports \cup {Work!Broken}) /\ Len(reports) <= ReportLimit
          /\ events \in Seq(Work!Events) /\ Len(events) <= EventLimit
        BY <1>1
    <2>4. /\ good \in BOOLEAN /\ configured \in BOOLEAN /\ late \in BOOLEAN /\ stopped \in BOOLEAN
          /\ queried \in BOOLEAN /\ failure \in BOOLEAN
          /\ ready \in BOOLEAN /\ reconnecting \in BOOLEAN /\ reconnected \in BOOLEAN
        OBVIOUS
    <2> QED BY <2>1, <2>2, <2>3, <2>4 DEF Work!TypeOK
<1>3. ~Confirmed BY <1>1, Len(<<cycle>>) = 1 DEF Confirmed, Confirms
<1> QED BY <1>1, <1>2, <1>3 DEF WorkInv, Scripts, Shut, Cycles, Paired, Unread, Announced, Grounded

\* No step of the worker disturbs it.
LEMMA WorkNext == ASSUME Work!LimitAssumption, WorkInv, [Work!Next]_Work!vars PROVE WorkInv'
<1>1. CASE Work!Native
    BY <1>1, WorkEvents, WorkSetUp, WorkConnects, WorkRetries, WorkRegains, WorkQuits, WorkQuitsEarly DEF Work!Native
<1>2. CASE Work!Helper BY <1>2, WorkHelperWorks, WorkHelperAcknowledged, WorkHelperRollsBack DEF Work!Helper
<1>3. CASE Work!Monitor BY <1>3, WorkMonitorAccepts, WorkMonitorReads, WorkMonitorPasses DEF Work!Monitor
<1>4. CASE Work!Loop BY <1>4, WorkTick, WorkTakeReport, WorkDrain, WorkOver, WorkTurnEnds DEF Work!Loop
<1>5. CASE UNCHANGED Work!vars
    BY <1>5 DEF WorkInv, Work!TypeOK, Scripts, Shut, Cycles, Paired, Told, Awaits, Unread, Announced, Grounded,
                Confirmed, Confirms
<1>6. CASE Work!Loses \/ Work!HelperRefused \/ Work!HelperTimesOut \/ Work!MonitorFails
    BY <1>6, WorkLoses, WorkHelperRefused, WorkHelperTimesOut, WorkMonitorFails
<1>7. CASE Work!Cancelled \/ Work!Killed \/ Work!Ended BY <1>7, WorkCancelled, WorkOver, WorkEnded
<1> QED BY <1>1, <1>2, <1>3, <1>4, <1>5, <1>6, <1>7 DEF Work!Next

\* The worker's loop, its scripts and its reports fit together at all times.
THEOREM WorkInvariant == ASSUME Work!LimitAssumption PROVE Work!Spec => []WorkInv
<1>1. Work!Init => WorkInv BY WorkInit
<1>2. WorkInv /\ [Work!Next]_Work!vars => WorkInv' BY WorkNext
<1> QED BY <1>1, <1>2, PTL DEF Work!Spec

\* What a step makes of the status: a loop that goes on writes that a connection
\* was lost, or that the one it has observed is there.
LEMMA WorkStatus ==
    ASSUME Work!LimitAssumption, WorkInv, Work!Next
    PROVE  \/ UNCHANGED Work!vars
           \/ /\ loop # "ended"
              /\ \/ status' = status
                 \/ status'.kind \in {"Reconnecting", "Killed"}
                 \/ status' = [kind |-> "Connected", cycle |-> observation[1]] /\ Work!Announceable
                 \/ status'.kind = "Finished" /\ (failure => status'.result = "failed")
<1>1. CASE Work!Native \/ Work!Loses
    BY <1>1 DEF Work!Native, Work!Loses, Work!Callback, Work!Statistics, Work!Finishes, Work!SetUp, Work!Connects,
                Work!Retries, Work!Regains, Work!Quits, Work!QuitsEarly
<1>2. CASE Work!Helper \/ Work!HelperRefused \/ Work!HelperTimesOut
    BY <1>2 DEF Work!Helper, Work!HelperRefused, Work!HelperTimesOut, Work!HelperWorks, Work!HelperAcknowledged,
                Work!HelperRollsBack
<1>3. CASE Work!Monitor \/ Work!MonitorFails
    BY <1>3 DEF Work!Monitor, Work!MonitorFails, Work!MonitorAccepts, Work!MonitorReads, Work!MonitorPasses
<1>4. CASE Work!Tick \/ Work!Drain \/ Work!Cancelled \/ Work!Ended
    BY <1>4 DEF Work!Tick, Work!Drain, Work!Cancelled, Work!Ended
<1>5. CASE Work!TakeReport BY <1>5 DEF Work!TakeReport, Work!Fails, Work!Lost
<1>6. CASE Work!TurnEnds BY <1>6 DEF Work!TurnEnds
<1>7. CASE Work!Finish BY <1>7 DEF Work!Finish, Work!FinalResult
<1>8. CASE Work!Killed BY <1>8 DEF Work!Killed
<1> QED BY <1>1, <1>2, <1>3, <1>4, <1>5, <1>6, <1>7, <1>8 DEF Work!Next, Work!Loop

\* What the user is told stands for a configured connection, the one that was
\* announced last and is there now, and for none whose helper has failed.
THEOREM WorkHonestStatus == ASSUME Work!LimitAssumption PROVE Work!Spec => HonestStatus
<1>1. WorkInv => (InUse => configured \/ late)
    BY DEF WorkInv, Announced, Grounded, Confirmed, InUse
<1>2. WorkInv /\ [Work!Next]_Work!vars =>
        [status.kind = "Reconnecting" /\ status'.kind = "Connected" => status'.cycle = status.cycle]_promised
    <2> SUFFICES ASSUME WorkInv, Work!Next, status.kind = "Reconnecting", status'.kind = "Connected",
                        ~UNCHANGED promised
                 PROVE  status'.cycle = status.cycle
        BY DEF promised
    <2>1. loop # "ended" /\ Work!Announceable /\ status' = [kind |-> "Connected", cycle |-> observation[1]]
        BY WorkStatus DEF promised
    <2>2. Announced BY <2>1 DEF WorkInv
    <2> QED BY <2>1, <2>2 DEF Announced, Work!Announceable
<1>3. WorkInv /\ [Work!Next]_Work!vars =>
        [failure => /\ status'.kind = "Connected" => status' = status
                    /\ status'.kind = "Finished" => status'.result # "ok"]_promised
    <2> SUFFICES ASSUME WorkInv, Work!Next, failure, ~UNCHANGED promised
                 PROVE  /\ status'.kind = "Connected" => status' = status
                        /\ status'.kind = "Finished" => status'.result # "ok"
        BY DEF promised
    <2>1. loop # "ended" /\ Announced BY WorkStatus DEF WorkInv, promised
    <2> QED BY <2>1, WorkStatus DEF promised, Announced, Work!Announceable
<1> QED
    BY <1>1, <1>2, <1>3, WorkInvariant, PTL
    DEF Work!Spec, HonestStatus, ConnectedConfigured, AnnouncesCurrent, FailureSticks
=============================================================================
