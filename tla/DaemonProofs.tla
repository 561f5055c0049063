---------------------------- MODULE DaemonProofs ----------------------------
(***************************************************************************)
(* Proofs about the privileged service, for any sets of peers, connections *)
(* and attempts and any lease and queue length.                            *)
(*                                                                         *)
(* IInv, defined in module Daemon, is inductive: there is one lemma per    *)
(* action, with a step for each group of conjuncts.  The safety properties *)
(* are conjuncts of IInv or follow from them.                              *)
(***************************************************************************)
EXTENDS Daemon, TLAPS

\* A snapshot with another state is a snapshot that differs in nothing else.
LEMMA SnapshotState ==
  ASSUME NEW s \in Snapshots, NEW st \in States
  PROVE  /\ [s EXCEPT !.state = st] \in Snapshots
         /\ [s EXCEPT !.state = st].state = st
         /\ [s EXCEPT !.state = st].attempt = s.attempt
         /\ [s EXCEPT !.state = st].session = s.session
         /\ [s EXCEPT !.state = st].network = s.network
         /\ [s EXCEPT !.state = st].error = s.error
BY DEF Snapshots

\* Starting a supervisor keeps the identity of the slot.
LEMMA SlotWorker ==
  ASSUME slot \in Slots
  PROVE  LET s == [slot EXCEPT !.worker = TRUE]
         IN  /\ s \in Slots /\ s # None /\ s.worker
             /\ s.owner = slot.owner /\ s.conn = slot.conn /\ s.attempt = slot.attempt
BY NoneAssumption DEF Slots

\* The age of the lease is no part of the slot's identity.
LEMMA SlotAge ==
  ASSUME slot \in Slots, NEW n \in 0..LeaseLimit
  PROVE  LET s == [slot EXCEPT !.age = n]
         IN  /\ s \in Slots /\ s # None /\ s.worker = slot.worker
             /\ s.owner = slot.owner /\ s.conn = slot.conn /\ s.attempt = slot.attempt
BY NoneAssumption DEF Slots

\* Session::cancel, wherever it is called: the slot is free afterwards or its
\* supervisor has been told to stop.
LEMMA CancelSlotKeeps ==
  ASSUME IInv, CancelSlot, CancelUnchanged
  PROVE  /\ SessionConsistent' /\ TasksBound' /\ ReportsJustified'
         /\ BlocksOrdered' /\ UncertainRemembered' /\ RecoveryKnown'
         /\ snap' \in Snapshots /\ published' \in Snapshots
         /\ lastOwner' \in Peers \cup {None} /\ cancelled' \in [Attempts -> BOOLEAN]
         /\ slot' \in {slot, None}
         /\ slot' # None => /\ slot'.worker /\ cancelled'[slot'.attempt]
                            /\ snap'.state = "Disconnecting"
         /\ \/ published' = snap' /\ [published' EXCEPT !.error = snap'.error] = snap'
            \/ published' = published /\ snap' = snap
<1> USE DEF CancelSlot, CancelUnchanged, Publish
<1>1. /\ snap \in Snapshots /\ published \in Snapshots
      /\ lastOwner \in Peers \cup {None} /\ (slot # None => slot.owner \in Peers)
  BY DEF IInv, TypeOK, Slots
<1>2. snap' \in Snapshots /\ published' \in Snapshots /\ lastOwner' \in Peers \cup {None}
  <2>1. \A st \in States : [snap EXCEPT !.state = st] \in Snapshots
    BY <1>1, SnapshotState
  <2>2. "Disconnecting" \in States /\ "Disconnected" \in States
    BY DEF States
  <2> QED BY <1>1, <2>1, <2>2
<1>3. SessionConsistent'
  <2>1. CASE slot = None
    BY <2>1 DEF IInv, SessionConsistent
  <2>2. CASE slot # None /\ slot.worker
    <3>1. snap' = [snap EXCEPT !.state = "Disconnecting"] /\ slot' = slot /\ lastOwner' = lastOwner
      BY <2>2
    <3>2. /\ snap'.state = "Disconnecting" /\ snap'.attempt = snap.attempt
          /\ snap'.network = snap.network
      BY <3>1, <1>1, SnapshotState DEF States
    <3> QED BY <2>2, <3>1, <3>2 DEF IInv, SessionConsistent
  <2>3. CASE slot # None /\ ~slot.worker
    <3>1. snap' = [snap EXCEPT !.state = "Disconnected"] /\ slot' = None
      BY <2>3
    <3>2. snap'.state = "Disconnected" /\ snap'.network = snap.network
      BY <3>1, <1>1, SnapshotState DEF States
    <3> QED BY <2>3, <3>1, <3>2 DEF IInv, SessionConsistent
  <2> QED BY <2>1, <2>2, <2>3
<1>4. TasksBound'
  BY DEF IInv, TypeOK, TasksBound, Live, Slots
<1>5. ReportsJustified'
  BY DEF IInv, ReportsJustified, Justified
<1>6. BlocksOrdered' /\ UncertainRemembered' /\ RecoveryKnown'
  BY DEF IInv, TasksBound, BlocksOrdered, UncertainRemembered, RecoveryKnown
<1>7. /\ slot' \in {slot, None} /\ cancelled' \in [Attempts -> BOOLEAN]
      /\ slot' # None => /\ slot'.worker /\ cancelled'[slot'.attempt]
                         /\ snap'.state = "Disconnecting"
      /\ published' = snap' \/ (published' = published /\ snap' = snap)
  BY DEF IInv, TypeOK, Slots, Snapshots
<1>8. [snap' EXCEPT !.error = snap'.error] = snap'
  BY <1>2 DEF Snapshots
<1> QED BY <1>2, <1>3, <1>4, <1>5, <1>6, <1>7, <1>8

----------------------------------------------------------------------------
(* Connections                                                             *)

\* Accept keeps the inductive invariant.
LEMMA AcceptStep == ASSUME IInv, NEW c \in Conns, NEW p \in Peers, Accept(c, p) PROVE IInv'
<1> USE DEF Accept, sessionVars, adminVars, tunnelVars
<1>1. TypeOK'
  BY DEF IInv, TypeOK
<1>2. SessionConsistent' /\ StoppingDrains' /\ SubscribersCurrent' /\ NoOrphanAttempt'
  BY DEF IInv, SessionConsistent, StoppingDrains, SubscribersCurrent, NoOrphanAttempt
<1>3. TasksBound'
  BY DEF IInv, TypeOK, TasksBound, Live
<1>4. ReportsJustified'
  BY DEF IInv, TypeOK, TasksBound, ReportsJustified, Justified, Live
<1>5. BlocksOrdered' /\ UncertainRemembered' /\ RecoveryKnown'
  BY DEF IInv, TypeOK, TasksBound, Live, BlocksOrdered, UncertainRemembered, RecoveryKnown
<1>6. QuiesceSerialized'
  BY DEF IInv, TypeOK, QuiesceSerialized, UncertainRemembered
<1> QED BY <1>1, <1>2, <1>3, <1>4, <1>5, <1>6 DEF IInv

\* Follow keeps the inductive invariant.
LEMMA FollowStep == ASSUME IInv, NEW c \in Conns, Follow(c) PROVE IInv'
<1> USE DEF Follow, Ready, sessionVars, adminVars, tunnelVars
<1>1. TypeOK'
  BY DEF IInv, TypeOK
<1>2. SessionConsistent' /\ StoppingDrains' /\ SubscribersCurrent' /\ NoOrphanAttempt'
  BY DEF IInv, SessionConsistent, StoppingDrains, SubscribersCurrent, NoOrphanAttempt
<1>3. TasksBound'
  BY DEF IInv, TypeOK, TasksBound, Live
<1>4. ReportsJustified'
  BY DEF IInv, TypeOK, TasksBound, ReportsJustified, Justified, Live
<1>5. BlocksOrdered' /\ UncertainRemembered' /\ RecoveryKnown'
  BY DEF IInv, TypeOK, TasksBound, Live, BlocksOrdered, UncertainRemembered, RecoveryKnown
<1>6. QuiesceSerialized'
  BY DEF IInv, TypeOK, QuiesceSerialized, UncertainRemembered
<1> QED BY <1>1, <1>2, <1>3, <1>4, <1>5, <1>6 DEF IInv

\* Hangup keeps the inductive invariant.
LEMMA HangupStep == ASSUME IInv, NEW c \in Conns, Hangup(c) PROVE IInv'
<1> USE DEF Hangup, sessionVars, adminVars, tunnelVars
<1>1. TypeOK'
  BY DEF IInv, TypeOK
<1>2. SessionConsistent' /\ StoppingDrains' /\ SubscribersCurrent' /\ NoOrphanAttempt'
  BY DEF IInv, SessionConsistent, StoppingDrains, SubscribersCurrent, NoOrphanAttempt
<1>3. TasksBound'
  BY DEF IInv, TypeOK, TasksBound, Live
<1>4. ReportsJustified'
  BY DEF IInv, TypeOK, TasksBound, ReportsJustified, Justified, Live
<1>5. BlocksOrdered' /\ UncertainRemembered' /\ RecoveryKnown'
  BY DEF IInv, TypeOK, TasksBound, Live, BlocksOrdered, UncertainRemembered, RecoveryKnown
<1>6. QuiesceSerialized'
  BY DEF IInv, TypeOK, QuiesceSerialized, UncertainRemembered
<1> QED BY <1>1, <1>2, <1>3, <1>4, <1>5, <1>6 DEF IInv

\* ConnectionClosed keeps the inductive invariant.
LEMMA ConnectionClosedStep == ASSUME IInv, NEW c \in Conns, ConnectionClosed(c) PROVE IInv'
<1>1. CASE Pending(c)
  <2>1. CancelSlot /\ CancelUnchanged
    BY <1>1 DEF ConnectionClosed
  <2>2. /\ SessionConsistent' /\ TasksBound' /\ ReportsJustified'
       /\ BlocksOrdered' /\ UncertainRemembered' /\ RecoveryKnown'
    BY <2>1, CancelSlotKeeps
  <2>3. TypeOK'
    BY <1>1, <2>1, CancelSlotKeeps DEF IInv, TypeOK, CancelUnchanged, ConnectionClosed, Pending, adminVars
  <2>4. StoppingDrains' /\ SubscribersCurrent' /\ NoOrphanAttempt'
    BY <1>1, <2>1, CancelSlotKeeps DEF IInv, StoppingDrains, SubscribersCurrent, NoOrphanAttempt, ConnectionClosed, Pending, adminVars
  <2>5. QuiesceSerialized'
    BY <1>1, <2>1, CancelSlotKeeps DEF IInv, TypeOK, QuiesceSerialized, CancelUnchanged, ConnectionClosed, Pending, adminVars
  <2> QED BY <2>2, <2>3, <2>4, <2>5 DEF IInv
<1>2. CASE ~Pending(c)
  <2>1. UNCHANGED <<snap, published, slot, lastOwner, cancelled>> /\ CancelUnchanged
    BY <1>2 DEF ConnectionClosed
  <2>2. TypeOK'
    BY <2>1 DEF IInv, TypeOK, CancelUnchanged, ConnectionClosed, adminVars
  <2>3. SessionConsistent' /\ StoppingDrains' /\ SubscribersCurrent' /\ NoOrphanAttempt'
    BY <1>2, <2>1 DEF IInv, TypeOK, SessionConsistent, StoppingDrains, SubscribersCurrent,
                      NoOrphanAttempt, ConnectionClosed, Pending
  <2>4. TasksBound' /\ ReportsJustified'
    BY <2>1 DEF IInv, TasksBound, Live, ReportsJustified, Justified, CancelUnchanged
  <2>5. BlocksOrdered' /\ UncertainRemembered' /\ RecoveryKnown' /\ QuiesceSerialized'
    BY <2>1 DEF IInv, BlocksOrdered, UncertainRemembered, RecoveryKnown, QuiesceSerialized,
                CancelUnchanged, ConnectionClosed, adminVars
  <2> QED BY <2>2, <2>3, <2>4, <2>5 DEF IInv
<1> QED BY <1>1, <1>2

----------------------------------------------------------------------------
(* Requests                                                                *)

\* Reserve keeps the inductive invariant.
LEMMA ReserveStep == ASSUME IInv, NEW c \in Conns, NEW a \in Attempts, Reserve(c, a) PROVE IInv'
<1> USE DEF Reserve, Admit, Ready, Publish, connVars, adminVars, tunnelVars
<1>1. slot' \in Slots /\ snap' \in Snapshots
  <2>1. peer[c] \in Peers /\ 0 \in 0..LeaseLimit
    BY LeaseAssumption DEF IInv, TypeOK
  <2> QED BY <2>1 DEF Slots, Snapshots, States
<1>2. slot' # None
  BY <1>1, NoneAssumption
<1>3. TypeOK'
  BY <1>1 DEF IInv, TypeOK
<1>4. SessionConsistent'
  BY <1>2 DEF SessionConsistent
<1>5. StoppingDrains' /\ SubscribersCurrent' /\ NoOrphanAttempt'
  BY DEF IInv, StoppingDrains, SubscribersCurrent, NoOrphanAttempt
<1>6. TasksBound'
  BY DEF IInv, TypeOK, TasksBound, Live
<1>7. ReportsJustified'
  BY DEF IInv, ReportsJustified, Justified
<1>8. BlocksOrdered' /\ UncertainRemembered' /\ RecoveryKnown'
  BY DEF IInv, BlocksOrdered, UncertainRemembered, RecoveryKnown
<1>9. QuiesceSerialized'
  BY DEF IInv, QuiesceSerialized
<1> QED BY <1>3, <1>4, <1>5, <1>6, <1>7, <1>8, <1>9 DEF IInv

\* Start keeps the inductive invariant.
LEMMA StartStep == ASSUME IInv, NEW c \in Conns, NEW a \in Attempts, Start(c, a) PROVE IInv'
<1> USE DEF Start, Ready, Current, Publish, connVars, adminVars
<1>1. slot \in Slots /\ slot # None /\ snap \in Snapshots /\ slot' = [slot EXCEPT !.worker = TRUE]
  BY DEF IInv, TypeOK
<1>2. /\ slot' \in Slots /\ slot' # None /\ slot'.owner = slot.owner /\ slot'.conn = slot.conn
      /\ slot'.attempt = a /\ slot.attempt = a /\ slot'.worker /\ ~slot.worker
  BY <1>1, SlotWorker
<1>3. /\ snap' \in Snapshots /\ snap'.state = "Connecting"
      /\ snap'.attempt = snap.attempt /\ snap'.network = snap.network
  BY <1>1, SnapshotState DEF States
<1>4. TypeOK'
  BY <1>2, <1>3 DEF IInv, TypeOK
<1>5. SessionConsistent' /\ StoppingDrains'
  BY <1>1, <1>2, <1>3 DEF IInv, SessionConsistent, StoppingDrains
<1>6. SubscribersCurrent' /\ NoOrphanAttempt'
  BY <1>1, <1>2, <1>3 DEF SubscribersCurrent, NoOrphanAttempt, Snapshots
<1>7. TasksBound'
  BY <1>1, <1>2 DEF IInv, TypeOK, TasksBound, Live
<1>8. ReportsJustified'
  BY <1>1 DEF IInv, TypeOK, TasksBound, ReportsJustified, Justified
<1>9. BlocksOrdered' /\ UncertainRemembered' /\ RecoveryKnown'
  BY <1>1, <1>2 DEF IInv, BlocksOrdered, UncertainRemembered, RecoveryKnown
<1>10. QuiesceSerialized'
  BY <1>1 DEF IInv, QuiesceSerialized
<1> QED BY <1>4, <1>5, <1>6, <1>7, <1>8, <1>9, <1>10 DEF IInv

\* AuthProgress keeps the inductive invariant.
LEMMA AuthProgressStep == ASSUME IInv, NEW c \in Conns, NEW a \in Attempts, AuthProgress(c, a) PROVE IInv'
<1> USE DEF AuthProgress, Current, connVars, adminVars, tunnelVars
<1>1. slot \in Slots /\ slot # None /\ slot' = [slot EXCEPT !.age = 0] /\ 0 \in 0..LeaseLimit
  BY LeaseAssumption DEF IInv, TypeOK
<1>2. /\ slot' \in Slots /\ slot' # None /\ slot'.owner = slot.owner /\ slot'.conn = slot.conn
      /\ slot'.attempt = slot.attempt /\ slot'.worker = slot.worker
  BY <1>1, SlotAge
<1>3. TypeOK'
  BY <1>2 DEF IInv, TypeOK
<1>4. SessionConsistent' /\ StoppingDrains' /\ SubscribersCurrent' /\ NoOrphanAttempt'
  BY <1>1, <1>2 DEF IInv, SessionConsistent, StoppingDrains, SubscribersCurrent, NoOrphanAttempt
<1>5. TasksBound'
  BY <1>1, <1>2 DEF IInv, TasksBound, Live
<1>6. ReportsJustified'
  BY DEF IInv, ReportsJustified, Justified
<1>7. BlocksOrdered' /\ UncertainRemembered' /\ RecoveryKnown' /\ QuiesceSerialized'
  BY <1>1, <1>2 DEF IInv, BlocksOrdered, UncertainRemembered, RecoveryKnown, QuiesceSerialized
<1> QED BY <1>3, <1>4, <1>5, <1>6, <1>7 DEF IInv

\* Cancel keeps the inductive invariant.
LEMMA CancelStep == ASSUME IInv, NEW c \in Conns, NEW a \in Attempts, Cancel(c, a) PROVE IInv'
<1>1. CancelSlot /\ CancelUnchanged
  BY DEF Cancel
<1>2. /\ SessionConsistent' /\ TasksBound' /\ ReportsJustified'
     /\ BlocksOrdered' /\ UncertainRemembered' /\ RecoveryKnown'
  BY <1>1, CancelSlotKeeps
<1>3. TypeOK'
  BY <1>1, CancelSlotKeeps DEF IInv, TypeOK, CancelUnchanged, Cancel, connVars, adminVars
<1>4. StoppingDrains' /\ SubscribersCurrent' /\ NoOrphanAttempt'
  BY <1>1, CancelSlotKeeps DEF IInv, StoppingDrains, SubscribersCurrent, NoOrphanAttempt, Cancel, connVars, adminVars
<1>5. QuiesceSerialized'
  BY <1>1, CancelSlotKeeps DEF IInv, TypeOK, QuiesceSerialized, CancelUnchanged, Cancel, connVars, adminVars
<1> QED BY <1>2, <1>3, <1>4, <1>5 DEF IInv

\* Disconnect keeps the inductive invariant.
LEMMA DisconnectStep == ASSUME IInv, NEW c \in Conns, Disconnect(c) PROVE IInv'
<1>1. CancelSlot /\ CancelUnchanged
  BY DEF Disconnect
<1>2. /\ SessionConsistent' /\ TasksBound' /\ ReportsJustified'
     /\ BlocksOrdered' /\ UncertainRemembered' /\ RecoveryKnown'
  BY <1>1, CancelSlotKeeps
<1>3. TypeOK'
  BY <1>1, CancelSlotKeeps DEF IInv, TypeOK, CancelUnchanged, Disconnect, connVars, adminVars
<1>4. StoppingDrains' /\ SubscribersCurrent' /\ NoOrphanAttempt'
  BY <1>1, CancelSlotKeeps DEF IInv, StoppingDrains, SubscribersCurrent, NoOrphanAttempt, Disconnect, connVars, adminVars
<1>5. QuiesceSerialized'
  BY <1>1, CancelSlotKeeps DEF IInv, TypeOK, QuiesceSerialized, CancelUnchanged, Disconnect, connVars, adminVars
<1> QED BY <1>2, <1>3, <1>4, <1>5 DEF IInv

\* ClockTick keeps the inductive invariant.
LEMMA ClockTickStep == ASSUME IInv, ClockTick PROVE IInv'
<1> USE DEF ClockTick, connVars, adminVars, tunnelVars
<1>1. /\ slot \in Slots /\ slot # None
      /\ slot' = [slot EXCEPT !.age = slot.age + 1] /\ slot.age + 1 \in 0..LeaseLimit
  BY LeaseAssumption DEF IInv, TypeOK, Slots
<1>2. /\ slot' \in Slots /\ slot' # None /\ slot'.owner = slot.owner /\ slot'.conn = slot.conn
      /\ slot'.attempt = slot.attempt /\ slot'.worker = slot.worker
  BY <1>1, SlotAge
<1>3. TypeOK'
  BY <1>2 DEF IInv, TypeOK
<1>4. SessionConsistent' /\ StoppingDrains' /\ SubscribersCurrent' /\ NoOrphanAttempt'
  BY <1>1, <1>2 DEF IInv, SessionConsistent, StoppingDrains, SubscribersCurrent, NoOrphanAttempt
<1>5. TasksBound'
  BY <1>1, <1>2 DEF IInv, TasksBound, Live
<1>6. ReportsJustified'
  BY DEF IInv, ReportsJustified, Justified
<1>7. BlocksOrdered' /\ UncertainRemembered' /\ RecoveryKnown' /\ QuiesceSerialized'
  BY <1>1, <1>2 DEF IInv, BlocksOrdered, UncertainRemembered, RecoveryKnown, QuiesceSerialized
<1> QED BY <1>3, <1>4, <1>5, <1>6, <1>7 DEF IInv

\* LeaseTick keeps the inductive invariant.
LEMMA LeaseTickStep == ASSUME IInv, LeaseTick PROVE IInv'
<1>1. CancelSlot /\ CancelUnchanged
  BY DEF LeaseTick
<1>2. /\ SessionConsistent' /\ TasksBound' /\ ReportsJustified'
     /\ BlocksOrdered' /\ UncertainRemembered' /\ RecoveryKnown'
  BY <1>1, CancelSlotKeeps
<1>3. TypeOK'
  BY <1>1, CancelSlotKeeps DEF IInv, TypeOK, CancelUnchanged, LeaseTick, connVars, adminVars
<1>4. StoppingDrains' /\ SubscribersCurrent' /\ NoOrphanAttempt'
  BY <1>1, CancelSlotKeeps DEF IInv, StoppingDrains, SubscribersCurrent, NoOrphanAttempt, LeaseTick, connVars, adminVars
<1>5. QuiesceSerialized'
  BY <1>1, CancelSlotKeeps DEF IInv, TypeOK, QuiesceSerialized, CancelUnchanged, LeaseTick, connVars, adminVars
<1> QED BY <1>2, <1>3, <1>4, <1>5 DEF IInv

----------------------------------------------------------------------------
(* The supervisor and its worker tree                                      *)

\* WorkerJournals keeps the inductive invariant.
LEMMA WorkerJournalsStep == ASSUME IInv, NEW a \in Attempts, WorkerJournals(a) PROVE IInv'
<1> USE DEF WorkerJournals, sessionVars, connVars, adminVars
<1>1. TypeOK'
  BY DEF IInv, TypeOK
<1>2. SessionConsistent' /\ StoppingDrains' /\ SubscribersCurrent' /\ NoOrphanAttempt'
  BY DEF IInv, SessionConsistent, StoppingDrains, SubscribersCurrent, NoOrphanAttempt
<1>3. TasksBound'
  BY DEF IInv, TypeOK, TasksBound, Live
<1>4. ReportsJustified'
  BY DEF IInv, TypeOK, TasksBound, ReportsJustified, Justified, Live
<1>5. BlocksOrdered' /\ UncertainRemembered' /\ RecoveryKnown'
  BY DEF IInv, TypeOK, TasksBound, Live, BlocksOrdered, UncertainRemembered, RecoveryKnown
<1>6. QuiesceSerialized'
  BY DEF IInv, TypeOK, QuiesceSerialized, UncertainRemembered
<1> QED BY <1>1, <1>2, <1>3, <1>4, <1>5, <1>6 DEF IInv

\* SupSpawn keeps the inductive invariant.
LEMMA SupSpawnStep == ASSUME IInv, NEW a \in Attempts, SupSpawn(a) PROVE IInv'
<1> USE DEF SupSpawn, sessionVars, connVars, adminVars
<1>1. TypeOK'
  BY DEF IInv, TypeOK
<1>2. SessionConsistent' /\ StoppingDrains' /\ SubscribersCurrent' /\ NoOrphanAttempt'
  BY DEF IInv, SessionConsistent, StoppingDrains, SubscribersCurrent, NoOrphanAttempt
<1>3. TasksBound'
  BY DEF IInv, TypeOK, TasksBound, Live
<1>4. ReportsJustified'
  BY DEF IInv, TypeOK, TasksBound, ReportsJustified, Justified, Live
<1>5. BlocksOrdered' /\ UncertainRemembered' /\ RecoveryKnown'
  BY DEF IInv, TypeOK, TasksBound, Live, BlocksOrdered, UncertainRemembered, RecoveryKnown
<1>6. QuiesceSerialized'
  BY DEF IInv, TypeOK, QuiesceSerialized, UncertainRemembered
<1> QED BY <1>1, <1>2, <1>3, <1>4, <1>5, <1>6 DEF IInv

\* SupForward keeps the inductive invariant.
LEMMA SupForwardStep == ASSUME IInv, NEW a \in Attempts, NEW k \in {"Connected", "Reconnecting", "Traffic"}, SupForward(a, k) PROVE IInv'
<1> USE DEF SupForward, sessionVars, connVars, adminVars
<1>1. TypeOK'
  BY DEF IInv, TypeOK, Updates
<1>2. SessionConsistent' /\ StoppingDrains' /\ SubscribersCurrent' /\ NoOrphanAttempt'
  BY DEF IInv, SessionConsistent, StoppingDrains, SubscribersCurrent, NoOrphanAttempt
<1>3. TasksBound'
  BY DEF IInv, TypeOK, TasksBound, Live
<1>4. ReportsJustified'
  BY DEF IInv, TypeOK, TasksBound, ReportsJustified, Justified, Live
<1>5. BlocksOrdered' /\ UncertainRemembered' /\ RecoveryKnown'
  BY DEF IInv, TypeOK, TasksBound, Live, BlocksOrdered, UncertainRemembered, RecoveryKnown
<1>6. QuiesceSerialized'
  BY DEF IInv, TypeOK, QuiesceSerialized, UncertainRemembered
<1> QED BY <1>1, <1>2, <1>3, <1>4, <1>5, <1>6 DEF IInv

\* SupQuiet keeps the inductive invariant.
LEMMA SupQuietStep == ASSUME IInv, NEW a \in Attempts, SupQuiet(a) PROVE IInv'
<1> USE DEF SupQuiet, sessionVars, connVars, adminVars
<1>1. TypeOK'
  BY DEF IInv, TypeOK, Finished, Finishes
<1>2. SessionConsistent' /\ StoppingDrains' /\ SubscribersCurrent' /\ NoOrphanAttempt'
  BY DEF IInv, SessionConsistent, StoppingDrains, SubscribersCurrent, NoOrphanAttempt
<1>3. TasksBound'
  BY DEF IInv, TypeOK, TasksBound, Live
<1>4. ReportsJustified'
  BY DEF IInv, TypeOK, TasksBound, ReportsJustified, Justified, Finished, Live
<1>5. BlocksOrdered' /\ UncertainRemembered' /\ RecoveryKnown'
  BY DEF IInv, TypeOK, TasksBound, Live, BlocksOrdered, UncertainRemembered, RecoveryKnown
<1>6. QuiesceSerialized'
  BY DEF IInv, TypeOK, QuiesceSerialized, UncertainRemembered
<1> QED BY <1>1, <1>2, <1>3, <1>4, <1>5, <1>6 DEF IInv

\* SupUncertain keeps the inductive invariant.
LEMMA SupUncertainStep == ASSUME IInv, NEW a \in Attempts, SupUncertain(a) PROVE IInv'
<1> USE DEF SupUncertain, sessionVars, connVars, adminVars
<1>1. TypeOK'
  BY DEF IInv, TypeOK, Finished, Finishes, Errors
<1>2. SessionConsistent' /\ StoppingDrains' /\ SubscribersCurrent' /\ NoOrphanAttempt'
  BY DEF IInv, SessionConsistent, StoppingDrains, SubscribersCurrent, NoOrphanAttempt
<1>3. TasksBound'
  BY DEF IInv, TypeOK, TasksBound, Live
<1>4. ReportsJustified'
  <2>1. Justified(a, inner[a])'
    BY DEF IInv, TypeOK, Justified, Finished
  <2> QED BY <2>1 DEF IInv, TypeOK, ReportsJustified, Justified
<1>5. BlocksOrdered' /\ UncertainRemembered' /\ RecoveryKnown'
  BY DEF IInv, TypeOK, TasksBound, Live, BlocksOrdered, UncertainRemembered, RecoveryKnown
<1>6. QuiesceSerialized'
  BY DEF IInv, TypeOK, QuiesceSerialized, UncertainRemembered
<1> QED BY <1>1, <1>2, <1>3, <1>4, <1>5, <1>6 DEF IInv

\* SupRecover keeps the inductive invariant.
LEMMA SupRecoverStep == ASSUME IInv, NEW a \in Attempts, SupRecover(a) PROVE IInv'
<1> USE DEF SupRecover, sessionVars, connVars, adminVars
<1>1. TypeOK'
  <2>1. Finished("RecoveryRequired", TRUE) \in Finishes
    BY DEF Finished, Finishes, Errors
  <2>2. inner' \in [Attempts -> Finishes]
    BY <2>1 DEF IInv, TypeOK
  <2> QED BY <2>2 DEF IInv, TypeOK
<1>2. SessionConsistent' /\ StoppingDrains' /\ SubscribersCurrent' /\ NoOrphanAttempt'
  BY DEF IInv, SessionConsistent, StoppingDrains, SubscribersCurrent, NoOrphanAttempt
<1>3. TasksBound'
  BY DEF IInv, TypeOK, TasksBound, Live
<1>4. ReportsJustified'
  BY DEF IInv, TypeOK, ReportsJustified, Justified, Finished
<1>5. BlocksOrdered' /\ UncertainRemembered' /\ RecoveryKnown'
  BY DEF IInv, TypeOK, TasksBound, Live, BlocksOrdered, UncertainRemembered, RecoveryKnown
<1>6. QuiesceSerialized'
  BY DEF IInv, TypeOK, QuiesceSerialized, UncertainRemembered
<1> QED BY <1>1, <1>2, <1>3, <1>4, <1>5, <1>6 DEF IInv

\* SupReport keeps the inductive invariant.
LEMMA SupReportStep == ASSUME IInv, NEW a \in Attempts, SupReport(a) PROVE IInv'
<1> USE DEF SupReport, sessionVars, connVars, adminVars
<1>1. TypeOK'
  BY DEF IInv, TypeOK, Finished, Finishes, Updates
<1>2. SessionConsistent' /\ StoppingDrains' /\ SubscribersCurrent' /\ NoOrphanAttempt'
  BY DEF IInv, SessionConsistent, StoppingDrains, SubscribersCurrent, NoOrphanAttempt
<1>3. TasksBound'
  BY DEF IInv, TypeOK, TasksBound, Live
<1>4. ReportsJustified'
  BY DEF IInv, TypeOK, ReportsJustified, Justified, Finished
<1>5. BlocksOrdered' /\ UncertainRemembered' /\ RecoveryKnown'
  BY DEF IInv, TypeOK, TasksBound, Live, BlocksOrdered, UncertainRemembered, RecoveryKnown
<1>6. QuiesceSerialized'
  BY DEF IInv, TypeOK, QuiesceSerialized, UncertainRemembered
<1> QED BY <1>1, <1>2, <1>3, <1>4, <1>5, <1>6 DEF IInv

\* SupPanic keeps the inductive invariant.
LEMMA SupPanicStep == ASSUME IInv, NEW a \in Attempts, SupPanic(a) PROVE IInv'
<1> USE DEF SupPanic, sessionVars, connVars, adminVars
<1>1. TypeOK'
  BY DEF IInv, TypeOK
<1>2. SessionConsistent' /\ StoppingDrains' /\ SubscribersCurrent' /\ NoOrphanAttempt'
  BY DEF IInv, SessionConsistent, StoppingDrains, SubscribersCurrent, NoOrphanAttempt
<1>3. TasksBound'
  BY DEF IInv, TypeOK, TasksBound, Live
<1>4. ReportsJustified'
  BY DEF IInv, TypeOK, TasksBound, ReportsJustified, Justified, Live
<1>5. BlocksOrdered' /\ UncertainRemembered' /\ RecoveryKnown'
  BY DEF IInv, TypeOK, TasksBound, Live, BlocksOrdered, UncertainRemembered, RecoveryKnown
<1>6. QuiesceSerialized'
  BY DEF IInv, TypeOK, QuiesceSerialized, UncertainRemembered
<1> QED BY <1>1, <1>2, <1>3, <1>4, <1>5, <1>6 DEF IInv

\* TreeExits keeps the inductive invariant.
LEMMA TreeExitsStep == ASSUME IInv, NEW a \in Attempts, TreeExits(a) PROVE IInv'
<1> USE DEF TreeExits, sessionVars, connVars, adminVars
<1>1. TypeOK'
  BY DEF IInv, TypeOK
<1>2. SessionConsistent' /\ StoppingDrains' /\ SubscribersCurrent' /\ NoOrphanAttempt'
  BY DEF IInv, SessionConsistent, StoppingDrains, SubscribersCurrent, NoOrphanAttempt
<1>3. TasksBound'
  BY DEF IInv, TypeOK, TasksBound, Live
<1>4. ReportsJustified'
  BY DEF IInv, TypeOK, TasksBound, ReportsJustified, Justified, Live
<1>5. BlocksOrdered' /\ UncertainRemembered' /\ RecoveryKnown'
  BY DEF IInv, TypeOK, TasksBound, Live, BlocksOrdered, UncertainRemembered, RecoveryKnown
<1>6. QuiesceSerialized'
  BY DEF IInv, TypeOK, QuiesceSerialized, UncertainRemembered
<1> QED BY <1>1, <1>2, <1>3, <1>4, <1>5, <1>6 DEF IInv

----------------------------------------------------------------------------
(* The consumer of the updates                                             *)

\* Consume keeps the inductive invariant.
LEMMA ConsumeStep == ASSUME IInv, NEW a \in Attempts, Consume(a) PROVE IInv'
<1> DEFINE u == Head(updates[a])
<1>1. /\ slot # None /\ slot.attempt = a /\ slot.worker
      /\ updates[a] \in Seq(Updates) /\ updates[a] # <<>> /\ snap \in Snapshots
  BY DEF Consume, IInv, TasksBound, TypeOK
<1>2. /\ u \in Updates /\ u = updates[a][1] /\ 1 \in 1..Len(updates[a])
      /\ updates' = [updates EXCEPT ![a] = Tail(updates[a])]
      /\ Tail(updates[a]) \in Seq(Updates)
      /\ \A i \in 1..Len(Tail(updates[a])) :
            i + 1 \in 1..Len(updates[a]) /\ Tail(updates[a])[i] = updates[a][i + 1]
  BY <1>1 DEF Consume
<1>3. updates' \in [Attempts -> Seq(Updates)]
  BY <1>2 DEF IInv, TypeOK
<1>4. UNCHANGED <<lastOwner, stopping, run, conn, peer, quiesce, guard, recoverers, used, sup, inner,
                  cancelled, tree, journals>>
  BY DEF Consume, connVars, adminVars
<1>5. ReportsJustified'
  BY <1>2, <1>3, <1>4 DEF IInv, TypeOK, ReportsJustified, Justified
<1>6. QuiesceSerialized'
  BY <1>1, <1>4 DEF IInv, QuiesceSerialized
<1>7. CASE u.kind # "Finished"
  <2>1. ApplyUpdate(u) /\ UNCHANGED <<slot, recoveryBlocked, quiescenceBlocked, consumer>>
    BY <1>1, <1>7 DEF Consume
  <2> DEFINE Up == {"Connecting", "Connected", "Reconnecting", "Disconnecting"}
  <2>2. snap.state \in Up /\ (snap.state = "Connected" => snap.network /\ snap.session)
    BY <1>1 DEF IInv, SessionConsistent
  <2>3. /\ snap' \in Snapshots /\ snap'.attempt = snap.attempt /\ snap'.state \in Up
        /\ snap'.state = "Connecting" => snap.state = "Connecting"
        /\ snap.state = "Disconnecting" => snap'.state = "Disconnecting"
        /\ snap'.state = "Connected" => snap'.network /\ snap'.session
        /\ published' = snap' \/ (published' = published /\ snap' = snap)
    <3>1. CASE Superseded(u)
      BY <3>1, <2>1, <2>2, <1>1 DEF ApplyUpdate
    <3>2. CASE ~Superseded(u) /\ u.kind = "Connected"
      <4>1. /\ snap' = [snap EXCEPT !.network = TRUE, !.state = "Connected", !.session = TRUE]
            /\ published' = snap' /\ snap.state # "Disconnecting"
        BY <3>2, <2>1 DEF ApplyUpdate, Superseded, Publish
      <4> QED BY <4>1, <1>1 DEF Snapshots, States
    <3>3. CASE ~Superseded(u) /\ u.kind = "Reconnecting"
      <4>1. /\ snap' = [snap EXCEPT !.state = "Reconnecting"]
            /\ published' = snap' /\ snap.state # "Disconnecting"
        BY <3>3, <2>1 DEF ApplyUpdate, Superseded, Publish
      <4> QED BY <4>1, <1>1, SnapshotState DEF States
    <3>4. CASE ~Superseded(u) /\ u.kind \notin {"Connected", "Reconnecting"}
      BY <3>4, <2>1, <2>2, <1>1 DEF ApplyUpdate, Publish
    <3> QED BY <3>1, <3>2, <3>3, <3>4
  <2>4. TypeOK'
    BY <2>1, <2>3, <1>3, <1>4 DEF IInv, TypeOK
  <2>5. SessionConsistent' /\ StoppingDrains'
    BY <1>1, <1>4, <2>1, <2>3 DEF IInv, SessionConsistent, StoppingDrains
  <2>6. SubscribersCurrent'
    <3>1. CASE published' = snap'
      BY <3>1, <2>3 DEF SubscribersCurrent, Snapshots
    <3>2. CASE published' = published /\ snap' = snap
      BY <3>2, <1>4 DEF SubscribersCurrent, IInv
    <3> QED BY <3>1, <3>2, <2>3
  <2>7. NoOrphanAttempt'
    BY <1>1, <1>4, <2>1, <2>2, <2>3 DEF IInv, NoOrphanAttempt
  <2>8. TasksBound'
    BY <1>1, <1>2, <1>4, <2>1 DEF IInv, TypeOK, TasksBound, Live
  <2>9. BlocksOrdered' /\ UncertainRemembered' /\ RecoveryKnown'
    BY <2>1, <1>4 DEF IInv, BlocksOrdered, UncertainRemembered, RecoveryKnown
  <2> QED BY <1>5, <1>6, <2>4, <2>5, <2>6, <2>7, <2>8, <2>9 DEF IInv
<1>8. CASE u.kind = "Finished"
  <2>1. FinishSession(u) /\ consumer' = [consumer EXCEPT ![a] = "joining"]
    BY <1>1, <1>8 DEF Consume
  <2>2. sup[a] = "ended" /\ Justified(a, u) /\ u \in Finishes
    BY <1>2, <1>8 DEF IInv, ReportsJustified, Updates, Finishes
  <2>3. /\ slot' = None /\ quiescenceBlocked' = ~u.quiescent /\ published' = snap'
        /\ recoveryBlocked' = IF u.error = None THEN recoveryBlocked
                                                ELSE (u.error = "RecoveryRequired")
    BY <2>1 DEF FinishSession, EndSession, Publish
  <2>4. /\ snap' \in Snapshots /\ ~snap'.network
        /\ snap'.state \in {"Disconnected", "AuthenticationRequired", "Failed"}
    BY <2>1, <2>2, <1>1 DEF FinishSession, EndSession, Snapshots, States, Finishes, Errors
  <2>5. TypeOK'
    <3>1. quiescenceBlocked' \in BOOLEAN /\ recoveryBlocked' \in BOOLEAN
      BY <2>3, <2>2 DEF IInv, TypeOK, Finishes
    <3> QED BY <3>1, <2>1, <2>3, <2>4, <1>3, <1>4 DEF IInv, TypeOK
  <2>6. SessionConsistent' /\ StoppingDrains' /\ NoOrphanAttempt'
    BY <2>3, <2>4 DEF SessionConsistent, StoppingDrains, NoOrphanAttempt
  <2>7. SubscribersCurrent'
    BY <2>3, <2>4 DEF SubscribersCurrent, Snapshots
  <2>8. TasksBound'
    BY <1>1, <1>2, <1>4, <2>1, <2>2, <2>3 DEF IInv, TypeOK, TasksBound, Live
  <2>9. BlocksOrdered' /\ UncertainRemembered' /\ RecoveryKnown'
    <3>1. /\ ~recoveryBlocked /\ ~quiescenceBlocked /\ journals \subseteq {a}
          /\ \A b \in Attempts : tree[b] => b = a
      BY <1>1 DEF IInv, BlocksOrdered, UncertainRemembered, RecoveryKnown
    <3>2. /\ u.quiescent \in BOOLEAN /\ (u.quiescent => ~tree[a])
          /\ ~u.quiescent => u.error = "RecoveryRequired"
      BY <2>2 DEF Justified, Finishes
    <3>3. u.error # "RecoveryRequired" => journals = {} /\ ~tree[a]
      BY <2>2, <3>1 DEF Justified
    <3>4. "RecoveryRequired" # None /\ UNCHANGED <<tree, journals>>
      BY <1>4, NoneAssumption DEF Errors
    <3> QED BY <2>3, <3>1, <3>2, <3>3, <3>4
            DEF BlocksOrdered, UncertainRemembered, RecoveryKnown
  <2> QED BY <1>5, <1>6, <2>5, <2>6, <2>7, <2>8, <2>9 DEF IInv
<1> QED BY <1>7, <1>8

\* ChannelClosed keeps the inductive invariant.
LEMMA ChannelClosedStep == ASSUME IInv, NEW a \in Attempts, ChannelClosed(a) PROVE IInv'
<1> USE DEF ChannelClosed, sessionVars, connVars, adminVars
<1>1. TypeOK'
  BY DEF IInv, TypeOK
<1>2. SessionConsistent' /\ StoppingDrains' /\ SubscribersCurrent' /\ NoOrphanAttempt'
  BY DEF IInv, SessionConsistent, StoppingDrains, SubscribersCurrent, NoOrphanAttempt
<1>3. TasksBound'
  BY DEF IInv, TypeOK, TasksBound, Live
<1>4. ReportsJustified'
  BY DEF IInv, TypeOK, TasksBound, ReportsJustified, Justified, Live
<1>5. BlocksOrdered' /\ UncertainRemembered' /\ RecoveryKnown'
  BY DEF IInv, TypeOK, TasksBound, Live, BlocksOrdered, UncertainRemembered, RecoveryKnown
<1>6. QuiesceSerialized'
  BY DEF IInv, TypeOK, QuiesceSerialized, UncertainRemembered
<1> QED BY <1>1, <1>2, <1>3, <1>4, <1>5, <1>6 DEF IInv

\* Join keeps the inductive invariant.
LEMMA JoinStep == ASSUME IInv, NEW a \in Attempts, Join(a) PROVE IInv'
<1> USE DEF Join, Unreported, EndSession, connVars, adminVars
<1>1. ReportsJustified'
  BY DEF IInv, ReportsJustified, Justified
<1>2. CASE slot # None /\ slot.attempt = a
  <2>1. snap' \in Snapshots /\ snap'.state = "Failed" /\ ~snap'.network
    <3>1. snap \in Snapshots /\ "RecoveryRequired" \in Errors /\ "RecoveryRequired" # None
      BY NoneAssumption DEF IInv, TypeOK, Errors
    <3>2. snap' = [snap EXCEPT !.network = FALSE, !.error = "RecoveryRequired", !.state = "Failed"]
      BY <1>2, <3>1 DEF Unreported, EndSession
    <3> QED BY <3>1, <3>2 DEF Snapshots, States
  <2>2. TypeOK'
    BY <1>2, <2>1 DEF IInv, TypeOK, Publish
  <2>3. SessionConsistent' /\ StoppingDrains' /\ NoOrphanAttempt'
    BY <1>2, <2>1 DEF SessionConsistent, StoppingDrains, NoOrphanAttempt
  <2>4. SubscribersCurrent'
    BY <1>2, <2>1 DEF SubscribersCurrent, Snapshots, Publish
  <2>5. TasksBound'
    BY <1>2 DEF IInv, TypeOK, TasksBound, Live
  <2>6. BlocksOrdered' /\ UncertainRemembered' /\ RecoveryKnown'
    BY <1>2 DEF BlocksOrdered, UncertainRemembered, RecoveryKnown
  <2>7. QuiesceSerialized'
    BY <1>2 DEF IInv, QuiesceSerialized
  <2> QED BY <1>1, <2>2, <2>3, <2>4, <2>5, <2>6, <2>7 DEF IInv
<1>3. CASE ~(slot # None /\ slot.attempt = a)
  <2>1. TypeOK'
    BY <1>3 DEF IInv, TypeOK
  <2>2. SessionConsistent' /\ StoppingDrains' /\ SubscribersCurrent' /\ NoOrphanAttempt'
    BY <1>3 DEF IInv, SessionConsistent, StoppingDrains, SubscribersCurrent, NoOrphanAttempt
  <2>3. TasksBound'
    BY <1>3 DEF IInv, TypeOK, TasksBound, Live
  <2>4. BlocksOrdered' /\ UncertainRemembered' /\ RecoveryKnown' /\ QuiesceSerialized'
    BY <1>3 DEF IInv, BlocksOrdered, UncertainRemembered, RecoveryKnown, QuiesceSerialized
  <2> QED BY <1>1, <2>1, <2>2, <2>3, <2>4 DEF IInv
<1> QED BY <1>2, <1>3

----------------------------------------------------------------------------
(* Administration and shutdown                                             *)

\* AdminQuiesce keeps the inductive invariant.
LEMMA AdminQuiesceStep == ASSUME IInv, NEW c \in Conns, AdminQuiesce(c) PROVE IInv'
<1> USE DEF AdminQuiesce, Ready, sessionVars, connVars, tunnelVars
<1>1. TypeOK'
  BY DEF IInv, TypeOK
<1>2. SessionConsistent' /\ StoppingDrains' /\ SubscribersCurrent' /\ NoOrphanAttempt'
  BY DEF IInv, SessionConsistent, StoppingDrains, SubscribersCurrent, NoOrphanAttempt
<1>3. TasksBound'
  BY DEF IInv, TypeOK, TasksBound, Live
<1>4. ReportsJustified'
  BY DEF IInv, TypeOK, TasksBound, ReportsJustified, Justified, Live
<1>5. BlocksOrdered' /\ UncertainRemembered' /\ RecoveryKnown'
  BY DEF IInv, TypeOK, TasksBound, Live, BlocksOrdered, UncertainRemembered, RecoveryKnown
<1>6. QuiesceSerialized'
  BY DEF IInv, TypeOK, QuiesceSerialized, UncertainRemembered
<1> QED BY <1>1, <1>2, <1>3, <1>4, <1>5, <1>6 DEF IInv

\* QuiesceLocked keeps the inductive invariant.
LEMMA QuiesceLockedStep == ASSUME IInv, NEW c \in Conns, QuiesceLocked(c) PROVE IInv'
<1>1. CancelSlot /\ CancelUnchanged
  BY DEF QuiesceLocked
<1>2. /\ SessionConsistent' /\ TasksBound' /\ ReportsJustified'
     /\ BlocksOrdered' /\ UncertainRemembered' /\ RecoveryKnown'
  BY <1>1, CancelSlotKeeps
<1>3. TypeOK'
  BY <1>1, CancelSlotKeeps DEF IInv, TypeOK, CancelUnchanged, QuiesceLocked, connVars
<1>4. StoppingDrains' /\ SubscribersCurrent' /\ NoOrphanAttempt'
  BY <1>1, CancelSlotKeeps DEF IInv, StoppingDrains, SubscribersCurrent, NoOrphanAttempt, QuiesceLocked, connVars
<1>5. QuiesceSerialized'
  BY <1>1, CancelSlotKeeps DEF IInv, TypeOK, QuiesceSerialized, CancelUnchanged, QuiesceLocked, connVars
<1> QED BY <1>2, <1>3, <1>4, <1>5 DEF IInv

\* QuiesceDrained keeps the inductive invariant.
LEMMA QuiesceDrainedStep == ASSUME IInv, NEW c \in Conns, QuiesceDrained(c) PROVE IInv'
<1> USE DEF QuiesceDrained, sessionVars, connVars, tunnelVars
<1>1. TypeOK'
  <2>1. quiesce' \in [Conns -> {"none", "locking", "draining", "recovering", "clearing"}]
    BY DEF IInv, TypeOK
  <2>2. recoverers' \in Nat
    BY DEF IInv, TypeOK
  <2> QED BY <2>1, <2>2 DEF IInv, TypeOK
<1>2. SessionConsistent' /\ StoppingDrains' /\ SubscribersCurrent' /\ NoOrphanAttempt'
  BY DEF IInv, SessionConsistent, StoppingDrains, SubscribersCurrent, NoOrphanAttempt
<1>3. TasksBound'
  BY DEF IInv, TypeOK, TasksBound, Live
<1>4. ReportsJustified'
  BY DEF IInv, TypeOK, TasksBound, ReportsJustified, Justified, Live
<1>5. BlocksOrdered' /\ UncertainRemembered' /\ RecoveryKnown'
  BY DEF IInv, TypeOK, TasksBound, Live, BlocksOrdered, UncertainRemembered, RecoveryKnown
<1>6. QuiesceSerialized'
  BY DEF IInv, TypeOK, QuiesceSerialized, UncertainRemembered
<1> QED BY <1>1, <1>2, <1>3, <1>4, <1>5, <1>6 DEF IInv

\* RecoveryTaskEnds keeps the inductive invariant.
LEMMA RecoveryTaskEndsStep == ASSUME IInv, RecoveryTaskEnds PROVE IInv'
<1> USE DEF RecoveryTaskEnds, sessionVars, connVars
<1>1. TypeOK'
  BY DEF IInv, TypeOK
<1>2. SessionConsistent' /\ StoppingDrains' /\ SubscribersCurrent' /\ NoOrphanAttempt'
  BY DEF IInv, SessionConsistent, StoppingDrains, SubscribersCurrent, NoOrphanAttempt
<1>3. TasksBound'
  BY DEF IInv, TypeOK, TasksBound, Live
<1>4. ReportsJustified'
  BY DEF IInv, TypeOK, TasksBound, ReportsJustified, Justified, Live
<1>5. BlocksOrdered' /\ UncertainRemembered' /\ RecoveryKnown'
  BY DEF IInv, TypeOK, TasksBound, Live, BlocksOrdered, UncertainRemembered, RecoveryKnown
<1>6. QuiesceSerialized'
  BY DEF IInv, TypeOK, QuiesceSerialized, UncertainRemembered
<1> QED BY <1>1, <1>2, <1>3, <1>4, <1>5, <1>6 DEF IInv

\* QuiesceClears keeps the inductive invariant.
LEMMA QuiesceClearsStep == ASSUME IInv, NEW c \in Conns, QuiesceClears(c) PROVE IInv'
<1> USE DEF QuiesceClears, connVars, tunnelVars
<1>1. /\ stopping /\ slot = None /\ ~quiescenceBlocked /\ journals = {}
      /\ snap \in Snapshots /\ published \in Snapshots
  BY DEF IInv, QuiesceSerialized, TypeOK
<1>2. snap' \in Snapshots
  BY <1>1 DEF Snapshots
<1>3. TypeOK'
  BY <1>2 DEF IInv, TypeOK
<1>4. SessionConsistent'
  BY <1>1 DEF IInv, SessionConsistent, Snapshots
<1>5. StoppingDrains' /\ SubscribersCurrent' /\ NoOrphanAttempt'
  BY <1>1 DEF IInv, StoppingDrains, SubscribersCurrent, NoOrphanAttempt, Snapshots
<1>6. TasksBound' /\ ReportsJustified'
  BY DEF IInv, TasksBound, Live, ReportsJustified, Justified
<1>7. BlocksOrdered' /\ UncertainRemembered' /\ RecoveryKnown'
  BY <1>1 DEF IInv, BlocksOrdered, UncertainRemembered, RecoveryKnown
<1>8. QuiesceSerialized'
  BY DEF IInv, TypeOK, QuiesceSerialized
<1> QED BY <1>3, <1>4, <1>5, <1>6, <1>7, <1>8 DEF IInv

\* QuiesceTimeout keeps the inductive invariant.
LEMMA QuiesceTimeoutStep == ASSUME IInv, NEW c \in Conns, QuiesceTimeout(c) PROVE IInv'
<1> USE DEF QuiesceTimeout, GuardAfterTimeout, sessionVars, connVars, tunnelVars
<1>1. TypeOK'
  BY DEF IInv, TypeOK
<1>2. SessionConsistent' /\ StoppingDrains' /\ SubscribersCurrent' /\ NoOrphanAttempt'
  BY DEF IInv, SessionConsistent, StoppingDrains, SubscribersCurrent, NoOrphanAttempt
<1>3. TasksBound'
  BY DEF IInv, TypeOK, TasksBound, Live
<1>4. ReportsJustified'
  BY DEF IInv, TypeOK, TasksBound, ReportsJustified, Justified, Live
<1>5. BlocksOrdered' /\ UncertainRemembered' /\ RecoveryKnown'
  BY DEF IInv, TypeOK, TasksBound, Live, BlocksOrdered, UncertainRemembered, RecoveryKnown
<1>6. QuiesceSerialized'
  BY DEF IInv, TypeOK, QuiesceSerialized, UncertainRemembered
<1> QED BY <1>1, <1>2, <1>3, <1>4, <1>5, <1>6 DEF IInv

\* Stop keeps the inductive invariant.
LEMMA StopStep == ASSUME IInv, Stop PROVE IInv'
<1>1. CancelSlot /\ CancelUnchanged
  BY DEF Stop
<1>2. /\ SessionConsistent' /\ TasksBound' /\ ReportsJustified'
     /\ BlocksOrdered' /\ UncertainRemembered' /\ RecoveryKnown'
  BY <1>1, CancelSlotKeeps
<1>3. TypeOK'
  BY <1>1, CancelSlotKeeps DEF IInv, TypeOK, CancelUnchanged, Stop, connVars, adminVars
<1>4. StoppingDrains' /\ SubscribersCurrent' /\ NoOrphanAttempt'
  BY <1>1, CancelSlotKeeps DEF IInv, StoppingDrains, SubscribersCurrent, NoOrphanAttempt, Stop, connVars, adminVars
<1>5. QuiesceSerialized'
  BY <1>1, CancelSlotKeeps DEF IInv, TypeOK, QuiesceSerialized, CancelUnchanged, Stop, connVars, adminVars
<1> QED BY <1>2, <1>3, <1>4, <1>5 DEF IInv

\* Exit keeps the inductive invariant.
LEMMA ExitStep == ASSUME IInv, Exit PROVE IInv'
<1> USE DEF Exit, sessionVars, tunnelVars
<1>1. TypeOK'
  BY DEF IInv, TypeOK
<1>2. SessionConsistent' /\ StoppingDrains' /\ SubscribersCurrent' /\ NoOrphanAttempt'
  BY DEF IInv, SessionConsistent, StoppingDrains, SubscribersCurrent, NoOrphanAttempt
<1>3. TasksBound'
  BY DEF IInv, TypeOK, TasksBound, Live
<1>4. ReportsJustified'
  BY DEF IInv, TypeOK, TasksBound, ReportsJustified, Justified, Live
<1>5. BlocksOrdered' /\ UncertainRemembered' /\ RecoveryKnown'
  BY DEF IInv, TypeOK, TasksBound, Live, BlocksOrdered, UncertainRemembered, RecoveryKnown
<1>6. QuiesceSerialized'
  BY DEF IInv, TypeOK, QuiesceSerialized, UncertainRemembered
<1> QED BY <1>1, <1>2, <1>3, <1>4, <1>5, <1>6 DEF IInv

----------------------------------------------------------------------------
(* Theorems                                                                *)

\* The initial states satisfy the inductive invariant.
LEMMA InitInvariant == Init => IInv
<1> SUFFICES ASSUME Init PROVE IInv
  OBVIOUS
<1>1. snap \in Snapshots
  BY DEF Init, Snapshots, States, Errors
<1>2. TypeOK
  <2>1. inner \in [Attempts -> Finishes]
    BY DEF Init, Finished, Finishes
  <2>2. slot \in Slots \cup {None} /\ lastOwner \in Peers \cup {None} /\ used \subseteq Attempts
    BY DEF Init
  <2>5. updates \in [Attempts -> Seq(Updates)]
    BY DEF Init
  <2>3. journals \subseteq Attempts \cup {Prior} /\ recoveryBlocked \in BOOLEAN
    BY DEF Init
  <2>4. conn \in [Conns -> {"closed", "open", "following", "closing"}]
        /\ peer \in [Conns -> Peers \cup {None}] /\ \A c \in Conns : conn[c] = "closed"
    BY DEF Init
  <2>6. /\ quiesce \in [Conns -> {"none", "locking", "draining", "recovering", "clearing"}]
        /\ sup \in [Attempts -> {"none", "running", "recovering", "reporting", "ended"}]
        /\ consumer \in [Attempts -> {"none", "receiving", "joining", "done"}]
        /\ cancelled \in [Attempts -> BOOLEAN] /\ tree \in [Attempts -> BOOLEAN]
    BY DEF Init
  <2>7. /\ published = snap /\ quiescenceBlocked \in BOOLEAN /\ stopping \in BOOLEAN
        /\ run = "serving" /\ guard = "free" /\ recoverers = 0
    BY DEF Init
  <2> QED BY <1>1, <2>1, <2>2, <2>3, <2>4, <2>5, <2>6, <2>7 DEF TypeOK
<1>3. SubscribersCurrent
  BY <1>1 DEF Init, SubscribersCurrent, Snapshots
<1>4. SessionConsistent /\ StoppingDrains /\ NoOrphanAttempt
  BY DEF Init, SessionConsistent, StoppingDrains, NoOrphanAttempt
<1>5. TasksBound /\ ReportsJustified
  BY DEF Init, TasksBound, ReportsJustified, Live
<1>6. BlocksOrdered /\ UncertainRemembered /\ RecoveryKnown /\ QuiesceSerialized
  BY DEF Init, BlocksOrdered, UncertainRemembered, RecoveryKnown, QuiesceSerialized
<1> QED BY <1>2, <1>3, <1>4, <1>5, <1>6 DEF IInv

\* Every step keeps the inductive invariant.
LEMMA NextInvariant == IInv /\ [Next]_vars => IInv'
<1> SUFFICES ASSUME IInv, [Next]_vars PROVE IInv'
  OBVIOUS
<1>1. CASE UNCHANGED vars
  BY <1>1 DEF vars, sessionVars, connVars, adminVars, tunnelVars, IInv, TypeOK, SessionConsistent,
              StoppingDrains, SubscribersCurrent, NoOrphanAttempt, TasksBound, Live,
              ReportsJustified, Justified, BlocksOrdered, UncertainRemembered, RecoveryKnown,
              QuiesceSerialized
<1>2. CASE \E c \in Conns : Client(c)
  BY <1>2, AcceptStep, FollowStep, HangupStep, ConnectionClosedStep, ReserveStep, StartStep,
     AuthProgressStep, CancelStep, DisconnectStep DEF Client
<1>3. CASE \E c \in Conns : Admin(c)
  BY <1>3, AdminQuiesceStep, QuiesceLockedStep, QuiesceDrainedStep, QuiesceClearsStep,
     QuiesceTimeoutStep DEF Admin
<1>4. CASE \E a \in Attempts : Tunnel(a)
  BY <1>4, WorkerJournalsStep, SupSpawnStep, SupForwardStep, SupQuietStep, SupUncertainStep,
     SupRecoverStep, SupReportStep, SupPanicStep, TreeExitsStep, ConsumeStep, ChannelClosedStep,
     JoinStep DEF Tunnel
<1>5. CASE ClockTick \/ LeaseTick \/ RecoveryTaskEnds \/ Stop \/ Exit
  BY <1>5, ClockTickStep, LeaseTickStep, RecoveryTaskEndsStep, StopStep, ExitStep
<1>6. CASE Exited
  BY <1>1, <1>6 DEF Exited
<1> QED BY <1>1, <1>2, <1>3, <1>4, <1>5, <1>6 DEF Next

\* The inductive invariant holds in every reachable state of the service.
THEOREM DaemonInvariant == Spec => []IInv
BY InitInvariant, NextInvariant, PTL DEF Spec

\* Every variable of the service keeps its type.
THEOREM DaemonTypes == Spec => []TypeOK
<1>1. IInv => TypeOK
  BY DEF IInv
<1> QED BY <1>1, DaemonInvariant, PTL

\* No new attempt is admitted while an older supervisor runs, recovers or has
\* not reported: a supervisor that is alive belongs to the slot.
THEOREM DaemonOneSupervisor == Spec => []OneSupervisor
<1>1. IInv => OneSupervisor
  BY DEF IInv, TasksBound, OneSupervisor
<1> QED BY <1>1, DaemonInvariant, PTL

\* Network changes left on disk belong to the tunnel that holds the slot or
\* keep reservations blocked.
THEOREM DaemonRecoveryKnown == Spec => []RecoveryKnown
<1>1. IInv => RecoveryKnown
  BY DEF IInv
<1> QED BY <1>1, DaemonInvariant, PTL

\* Journal restoration never overlaps another restoration or a process that
\* may still change the network.
THEOREM DaemonRecoveryAlone == Spec => []RecoveryAlone
<1>1. ASSUME IInv PROVE RecoveryAlone
  <2>1. recoverers <= 1
    BY <1>1 DEF IInv, QuiesceSerialized
  <2>2. ASSUME NEW a \in Attempts, sup[a] = "recovering"
        PROVE  recoverers = 0 /\ \A b \in Attempts : ~tree[b] /\ (sup[b] = "recovering" => b = a)
    <3>1. slot # None /\ slot.attempt = a /\ consumer[a] = "receiving"
      BY <1>1, <2>2 DEF IInv, TasksBound, Live
    <3>2. ~(recoverers > 0) /\ recoverers \in Nat
      BY <1>1, <3>1 DEF IInv, QuiesceSerialized, TypeOK
    <3>3. ~tree[a]
      BY <1>1, <2>2 DEF IInv, ReportsJustified
    <3>4. \A b \in Attempts : b # a => ~tree[b]
      BY <1>1, <3>1 DEF IInv, UncertainRemembered, BlocksOrdered
    <3>5. \A b \in Attempts : sup[b] = "recovering" => b = a
      BY <1>1, <3>1 DEF IInv, TasksBound, Live
    <3> QED BY <3>2, <3>3, <3>4, <3>5
  <2>3. recoverers > 0 => \A a \in Attempts : ~tree[a]
    BY <1>1 DEF IInv, QuiesceSerialized, UncertainRemembered
  <2> QED BY <2>1, <2>2, <2>3 DEF RecoveryAlone
<1> QED BY <1>1, DaemonInvariant, PTL

\* A worker tree whose end was not established keeps both blocks raised.
THEOREM DaemonUncertainRemembered == Spec => []UncertainRemembered
<1>1. IInv => UncertainRemembered
  BY DEF IInv
<1> QED BY <1>1, DaemonInvariant, PTL

\* recovery_blocked, quiescence_blocked and the recovery guard together: nothing
\* left on disk or alive is forgotten, and restoration runs alone.
THEOREM DaemonRecoverySafe == Spec => []RecoverySafe
<1>1. RecoveryKnown /\ RecoveryAlone /\ UncertainRemembered => RecoverySafe
  BY DEF RecoverySafe
<1> QED BY <1>1, DaemonRecoveryKnown, DaemonRecoveryAlone, DaemonUncertainRemembered, PTL

\* A pending attempt never outlives the connection that reserved it.
THEOREM DaemonNoOrphanAttempt == Spec => []NoOrphanAttempt
<1>1. IInv => NoOrphanAttempt
  BY DEF IInv
<1> QED BY <1>1, DaemonInvariant, PTL

\* A stopping service has no tunnel it has not told to stop.
THEOREM DaemonStoppingDrains == Spec => []StoppingDrains
<1>1. IInv => StoppingDrains
  BY DEF IInv
<1> QED BY <1>1, DaemonInvariant, PTL

----------------------------------------------------------------------------
(* What a step may never do                                                *)

Sticks == snap.state = "Disconnecting" /\ slot' # None => snap'.state = "Disconnecting"
Orders ==
    snap.state \in {"Connected", "Reconnecting"} /\ snap'.state = "Disconnecting" =>
        /\ conn' = conn
        /\ stopping' \/ \E c \in Conns : conn[c] = "open" /\ peer[c] = slot.owner

\* Session::cancel frees the slot or leaves the tunnel on its way down; a tunnel
\* that is up holds the slot.
LEMMA CancelSlotSticks ==
  ASSUME IInv, CancelSlot
  PROVE  /\ Sticks
         /\ snap.state \in {"Connected", "Reconnecting"} => slot # None
<1>1. snap.state \in {"Disconnecting", "Connected", "Reconnecting"} => slot # None /\ slot.worker
  BY DEF IInv, SessionConsistent
<1>2. slot # None /\ slot.worker /\ CancelSlot => snap'.state = "Disconnecting"
  BY SnapshotState DEF IInv, TypeOK, CancelSlot, Snapshots
<1> QED BY <1>1, <1>2 DEF Sticks

\* A request, or the end of a connection.
LEMMA ClientDown == ASSUME IInv, NEW c \in Conns, Client(c) PROVE Sticks /\ Orders
<1>1. ASSUME UNCHANGED <<snap, slot>> PROVE Sticks /\ Orders
  BY <1>1 DEF Sticks, Orders
<1>2. ASSUME NEW p \in Peers, Accept(c, p) PROVE Sticks /\ Orders
  BY <1>1, <1>2 DEF Accept, sessionVars
<1>3. CASE Follow(c)
  BY <1>1, <1>3 DEF Follow, sessionVars
<1>4. CASE Hangup(c)
  BY <1>1, <1>4 DEF Hangup, sessionVars
<1>5. CASE ConnectionClosed(c)
  <2>1. CASE Pending(c)
    BY <1>5, <2>1, CancelSlotSticks DEF ConnectionClosed, Pending, Sticks, Orders
  <2>2. CASE ~Pending(c)
    BY <1>1, <1>5, <2>2 DEF ConnectionClosed
  <2> QED BY <2>1, <2>2
<1>6. ASSUME NEW a \in Attempts, Reserve(c, a) PROVE Sticks /\ Orders
  BY <1>6 DEF IInv, SessionConsistent, Reserve, Admit, Sticks, Orders
<1>7. ASSUME NEW a \in Attempts, Start(c, a) PROVE Sticks /\ Orders
  BY <1>7 DEF IInv, SessionConsistent, Start, Current, Sticks, Orders
<1>8. ASSUME NEW a \in Attempts, AuthProgress(c, a) PROVE Sticks /\ Orders
  BY <1>8 DEF AuthProgress, Sticks, Orders
<1>9. ASSUME NEW a \in Attempts, Cancel(c, a) PROVE Sticks /\ Orders
  BY <1>9, CancelSlotSticks DEF Cancel, Ready, Authorized, Orders, connVars
<1>10. CASE Disconnect(c)
  BY <1>10, CancelSlotSticks DEF Disconnect, Ready, Authorized, Orders, connVars
<1> QED BY <1>2, <1>3, <1>4, <1>5, <1>6, <1>7, <1>8, <1>9, <1>10 DEF Client

\* A step of an administrator's quiesce.
LEMMA AdminDown == ASSUME IInv, NEW c \in Conns, Admin(c) PROVE Sticks /\ Orders
<1>1. ASSUME UNCHANGED <<snap, slot>> PROVE Sticks /\ Orders
  BY <1>1 DEF Sticks, Orders
<1>2. CASE AdminQuiesce(c)
  BY <1>1, <1>2 DEF AdminQuiesce, sessionVars
<1>3. CASE QuiesceLocked(c)
  BY <1>3, CancelSlotSticks DEF QuiesceLocked, Orders, connVars
<1>4. CASE QuiesceDrained(c)
  BY <1>1, <1>4 DEF QuiesceDrained, sessionVars
<1>5. CASE QuiesceClears(c)
  BY <1>5, SnapshotState DEF QuiesceClears, IInv, TypeOK, Snapshots, Sticks, Orders
<1>6. CASE QuiesceTimeout(c)
  BY <1>1, <1>6 DEF QuiesceTimeout, sessionVars
<1> QED BY <1>2, <1>3, <1>4, <1>5, <1>6 DEF Admin

\* A step of the supervisor of an attempt, or of its consumer.
LEMMA TunnelDown == ASSUME IInv, NEW a \in Attempts, Tunnel(a) PROVE Sticks /\ Orders
<1>1. ASSUME UNCHANGED <<snap, slot>> PROVE Sticks /\ Orders
  BY <1>1 DEF Sticks, Orders
<1>2. CASE UNCHANGED sessionVars
  BY <1>1, <1>2 DEF sessionVars
<1>3. CASE Consume(a)
  <2>1. ASSUME NEW e, NEW q, NEW b, EndSession(e, q, b) PROVE Sticks /\ Orders
    BY <2>1, SnapshotState DEF EndSession, IInv, TypeOK, Snapshots, Sticks, Orders
  <2>2. ASSUME NEW u, ApplyUpdate(u), UNCHANGED slot PROVE Sticks /\ Orders
    <3>1. CASE Superseded(u)
      BY <1>1, <2>2, <3>1 DEF ApplyUpdate
    <3>2. CASE ~Superseded(u) /\ u.kind = "Connected"
      <4>1. snap.state # "Disconnecting" /\ snap'.state = "Connected"
        BY <2>2, <3>2 DEF ApplyUpdate, Superseded, IInv, TypeOK, Snapshots
      <4> QED BY <4>1 DEF Sticks, Orders
    <3>3. CASE ~Superseded(u) /\ u.kind = "Reconnecting"
      <4>1. snap.state # "Disconnecting" /\ snap'.state = "Reconnecting"
        BY <2>2, <3>3 DEF ApplyUpdate, Superseded, IInv, TypeOK, Snapshots
      <4> QED BY <4>1 DEF Sticks, Orders
    <3>4. CASE ~Superseded(u) /\ u.kind \notin {"Connected", "Reconnecting"}
      <4>1. snap' = snap
        BY <2>2, <3>4 DEF ApplyUpdate
      <4> QED BY <1>1, <2>2, <4>1
    <3> QED BY <3>1, <3>2, <3>3, <3>4
  <2> QED BY <1>1, <1>3, <2>1, <2>2 DEF Consume, FinishSession
<1>4. CASE Join(a)
  BY <1>1, <1>4 DEF Join, Unreported, EndSession, IInv, TypeOK, Snapshots, Sticks, Orders
<1> QED BY <1>2, <1>3, <1>4 DEF Tunnel, WorkerJournals, SupSpawn, SupForward, SupQuiet, SupUncertain,
       SupRecover, SupReport, SupPanic, TreeExits, ChannelClosed

\* Every step keeps a requested end, and takes a tunnel down on request only.
LEMMA NextDown == IInv /\ [Next]_vars => Sticks /\ Orders
<1> SUFFICES ASSUME IInv, [Next]_vars PROVE Sticks /\ Orders
  OBVIOUS
<1>1. ASSUME UNCHANGED <<snap, slot>> PROVE Sticks /\ Orders
  BY <1>1 DEF Sticks, Orders
<1>2. CASE UNCHANGED vars
  BY <1>1, <1>2 DEF vars, sessionVars
<1>3. CASE ClockTick
  BY <1>3 DEF ClockTick, Sticks, Orders
<1>4. CASE LeaseTick
  BY <1>4, CancelSlotSticks DEF LeaseTick, LeaseExpired, IInv, SessionConsistent, Orders
<1>5. CASE RecoveryTaskEnds
  BY <1>1, <1>5 DEF RecoveryTaskEnds, sessionVars
<1>6. CASE Stop
  BY <1>6, CancelSlotSticks DEF Stop, Orders, connVars
<1>7. CASE Exit
  BY <1>1, <1>7 DEF Exit, sessionVars
<1> QED BY <1>2, <1>3, <1>4, <1>5, <1>6, <1>7, ClientDown, AdminDown, TunnelDown DEF Next, Exited

\* A tunnel goes down on request of its owner, by a quiesce or by a stop only, and
\* no update that was under way takes that back (dispatch, the consumer of Start).
THEOREM DaemonDownOnRequest == Spec => DownOnRequest
<1>1. IInv /\ [Next]_vars => [Sticks]_vars /\ [Orders]_vars
  BY NextDown
<1>2. Spec => [][Sticks]_vars /\ [][Orders]_vars
  BY <1>1, DaemonInvariant, PTL DEF Spec
<1> QED BY <1>2 DEF DownOnRequest, CancellationSticky, OnlyOwnerDisconnects, Sticks, Orders

----------------------------------------------------------------------------
(* The service implements MachineSlot                                      *)

PromiseKept == [Promise!SlotNext]_(Promise!slotVars)

\* Outside a tunnel, an open service has nothing pending on the machine.
Quiet == IInv /\ ~recoveryBlocked /\ Phase # "tunnel" => ~Dirty

\* A service that admits work has nothing pending of the abstract machine.
LEMMA OpenIsQuiet == Quiet
<1> USE DEF Quiet
<1> SUFFICES ASSUME IInv, ~recoveryBlocked, Phase # "tunnel" PROVE ~Dirty
  OBVIOUS
<1>1. slot = None \/ ~slot.worker
  BY DEF Phase
<1>2. journals = {}
  BY <1>1 DEF IInv, RecoveryKnown
<1>3. ASSUME NEW a \in Attempts, tree[a] PROVE FALSE
  <2>1. slot # None /\ slot.attempt = a
    BY <1>3 DEF IInv, UncertainRemembered
  <2>2. consumer[a] = "none"
    BY <1>1, <2>1 DEF IInv, TasksBound
  <2> QED BY <1>3, <2>2 DEF IInv, TasksBound
<1> QED BY <1>2, <1>3 DEF Dirty

\* The same of the next state.
LEMMA OpenIsQuietNext == Quiet'
BY OpenIsQuiet, PTL

\* The abstract flag of pending recovery is a Boolean in both states of a step.
LEMMA DirtyType == Dirty \in BOOLEAN /\ Dirty' \in BOOLEAN
BY DEF Dirty

\* A step that neither grants nor ends anything: the tunnel mutates the network,
\* repairs run in a closed service, or nothing is seen of it.
LEMMA SamePhase ==
  ASSUME IInv, IInv', recoveryBlocked' = recoveryBlocked, Holder' = Holder, Phase' = Phase
  PROVE  PromiseKept
<1>1. CASE Phase = "tunnel"
  BY <1>1, DirtyType DEF PromiseKept, Promise!SlotNext, Promise!Mutate
<1>2. CASE Phase = "idle" /\ recoveryBlocked
  BY <1>2, DirtyType DEF PromiseKept, Promise!SlotNext, Promise!Repair
<1>3. CASE Phase # "tunnel" /\ ~recoveryBlocked
  <2>1. Dirty' = Dirty
    BY <1>3, OpenIsQuiet, OpenIsQuietNext, DirtyType DEF Quiet
  <2> QED BY <2>1 DEF PromiseKept, Promise!slotVars
<1>4. Phase = "reserved" => ~recoveryBlocked
  BY DEF Phase, IInv, BlocksOrdered
<1>5. Phase \in {"idle", "reserved", "tunnel"}
  BY DEF Phase
<1> QED BY <1>1, <1>2, <1>3, <1>4, <1>5

\* A step that leaves the slot and its surroundings alone is a stutter of MachineSlot.
LEMMA SameSlot ==
  ASSUME IInv, IInv', recoveryBlocked' = recoveryBlocked, slot' = slot
  PROVE  PromiseKept
BY SamePhase DEF Holder, Phase

\* Session::cancel withdraws a reservation, or is not seen.
LEMMA CancelSlotWithdraws ==
  ASSUME IInv, IInv', CancelSlot, UNCHANGED <<recoveryBlocked, journals, tree>>
  PROVE  PromiseKept
<1>1. CASE slot' = slot
  BY <1>1, SameSlot
<1>2. CASE slot # None /\ ~slot.worker /\ slot' = None
  <2>1. Phase = "reserved" /\ Phase' = "idle" /\ Holder' = None /\ Dirty' = Dirty
    BY <1>2 DEF Phase, Holder, Dirty
  <2> QED BY <2>1 DEF PromiseKept, Promise!SlotNext, Promise!Withdraw
<1> QED BY <1>1, <1>2 DEF CancelSlot

\* Session ends: what the tunnel leaves behind has raised the block.
LEMMA EndSessionReleases ==
  ASSUME IInv, IInv', slot # None, slot.worker, slot' = None, UNCHANGED <<journals, tree>>
  PROVE  PromiseKept
<1>1. Phase = "tunnel" /\ Phase' = "idle" /\ Holder' = None /\ Dirty' = Dirty
  BY DEF Phase, Holder, Dirty
<1>2. recoveryBlocked' \in BOOLEAN
  BY DEF IInv, TypeOK
<1>3. Dirty => recoveryBlocked'
  BY <1>1, OpenIsQuietNext DEF Quiet
<1> QED BY <1>1, <1>2, <1>3 DEF PromiseKept, Promise!SlotNext, Promise!Release

\* A client's request is a step of MachineSlot, or a stutter.
LEMMA ClientKeeps == ASSUME IInv, IInv', NEW c \in Conns, Client(c) PROVE PromiseKept
<1>1. CASE UNCHANGED <<slot, recoveryBlocked>>
  BY <1>1, SameSlot
<1>2. ASSUME NEW p \in Peers, Accept(c, p) PROVE PromiseKept
  BY <1>1, <1>2 DEF Accept, sessionVars
<1>3. CASE Follow(c)
  BY <1>1, <1>3 DEF Follow, sessionVars
<1>4. CASE Hangup(c)
  BY <1>1, <1>4 DEF Hangup, sessionVars
<1>5. CASE ConnectionClosed(c)
  BY <1>1, <1>5, CancelSlotWithdraws DEF ConnectionClosed, CancelUnchanged
<1>6. ASSUME NEW a \in Attempts, Reserve(c, a) PROVE PromiseKept
  <2>1. Phase = "idle" /\ ~recoveryBlocked /\ peer[c] \in Peers
    BY <1>6 DEF Reserve, Ready, Phase, IInv, TypeOK
  <2>2. slot' = [owner |-> peer[c], conn |-> c, attempt |-> a, worker |-> FALSE, age |-> 0]
    BY <1>6 DEF Reserve, Admit
  <2>3. slot' \in Slots /\ ~slot'.worker /\ slot'.owner = peer[c]
    BY <2>1, <2>2, LeaseAssumption DEF Slots
  <2>4. Phase' = "reserved" /\ Holder' = peer[c]
    BY <2>3, NoneAssumption DEF Phase, Holder
  <2>5. ~Dirty /\ Dirty' = Dirty /\ recoveryBlocked' = recoveryBlocked
    BY <1>6, <2>1, OpenIsQuiet DEF Quiet, Reserve, Admit, Dirty, tunnelVars
  <2> QED BY <2>1, <2>4, <2>5 DEF PromiseKept, Promise!SlotNext, Promise!Grant
<1>7. ASSUME NEW a \in Attempts, Start(c, a) PROVE PromiseKept
  <2>1. slot \in Slots /\ ~slot.worker /\ slot' = [slot EXCEPT !.worker = TRUE]
    BY <1>7 DEF Start, Current, IInv, TypeOK
  <2>2. slot' # None /\ slot'.worker /\ slot'.owner = slot.owner
    BY <2>1, SlotWorker
  <2>3. Phase = "reserved" /\ Phase' = "tunnel" /\ Holder' = Holder
    BY <2>1, <2>2, NoneAssumption DEF Phase, Holder
  <2>4. Dirty' = Dirty /\ recoveryBlocked' = recoveryBlocked
    BY <1>7 DEF Start, Dirty
  <2> QED BY <2>3, <2>4 DEF PromiseKept, Promise!SlotNext, Promise!Begin
<1>8. ASSUME NEW a \in Attempts, AuthProgress(c, a) PROVE PromiseKept
  <2>1. slot \in Slots /\ slot # None /\ slot' = [slot EXCEPT !.age = 0] /\ 0 \in 0..LeaseLimit
    BY <1>8, LeaseAssumption DEF AuthProgress, Current, IInv, TypeOK
  <2>2. Phase' = Phase /\ Holder' = Holder
    BY <2>1, SlotAge, NoneAssumption DEF Phase, Holder
  <2> QED BY <1>8, <2>2, SamePhase DEF AuthProgress
<1>9. ASSUME NEW a \in Attempts, Cancel(c, a) PROVE PromiseKept
  BY <1>9, CancelSlotWithdraws DEF Cancel, CancelUnchanged
<1>10. CASE Disconnect(c)
  BY <1>10, CancelSlotWithdraws DEF Disconnect, CancelUnchanged
<1> QED BY <1>2, <1>3, <1>4, <1>5, <1>6, <1>7, <1>8, <1>9, <1>10 DEF Client

\* An administrator's request is a step of MachineSlot, or a stutter.
LEMMA AdminKeeps == ASSUME IInv, IInv', NEW c \in Conns, Admin(c) PROVE PromiseKept
<1>1. CASE UNCHANGED <<slot, recoveryBlocked>>
  BY <1>1, SameSlot
<1>2. CASE AdminQuiesce(c)
  BY <1>1, <1>2 DEF AdminQuiesce, sessionVars
<1>3. CASE QuiesceLocked(c)
  BY <1>3, CancelSlotWithdraws DEF QuiesceLocked, CancelUnchanged
<1>4. CASE QuiesceDrained(c)
  BY <1>1, <1>4 DEF QuiesceDrained, sessionVars
<1>5. CASE QuiesceClears(c)
  <2>1. slot = None /\ journals = {} /\ ~quiescenceBlocked
    BY <1>5 DEF QuiesceClears, IInv, QuiesceSerialized
  <2>2. \A a \in Attempts : ~tree[a]
    BY <2>1 DEF IInv, UncertainRemembered
  <2>3. ~Dirty /\ Phase = "idle"
    BY <2>1, <2>2 DEF Dirty, Phase
  <2>4. Dirty' = Dirty /\ Phase' = Phase /\ Holder' = Holder /\ recoveryBlocked' = FALSE
    BY <1>5 DEF QuiesceClears, Dirty, Phase, Holder, tunnelVars
  <2> QED BY <2>3, <2>4 DEF PromiseKept, Promise!SlotNext, Promise!Reopen
<1>6. CASE QuiesceTimeout(c)
  BY <1>1, <1>6 DEF QuiesceTimeout, sessionVars
<1> QED BY <1>2, <1>3, <1>4, <1>5, <1>6 DEF Admin

\* A supervisor's step is a step of MachineSlot, or a stutter.
LEMMA TunnelKeeps == ASSUME IInv, IInv', NEW a \in Attempts, Tunnel(a) PROVE PromiseKept
<1>1. CASE UNCHANGED <<slot, recoveryBlocked>>
  BY <1>1, SameSlot
<1>2. CASE UNCHANGED sessionVars
  BY <1>1, <1>2 DEF sessionVars
<1>3. CASE Consume(a)
  <2>1. slot # None /\ slot.attempt = a /\ slot.worker
    BY <1>3 DEF Consume, IInv, TasksBound
  <2>2. CASE slot' = None
    BY <1>3, <2>1, <2>2, EndSessionReleases DEF Consume
  <2>3. slot' = None \/ UNCHANGED <<slot, recoveryBlocked>>
    BY <1>3 DEF Consume, FinishSession, EndSession
  <2> QED BY <1>1, <2>2, <2>3
<1>4. CASE Join(a)
  <2>1. CASE slot # None /\ slot.attempt = a
    <3>1. slot.worker
      BY <1>4, <2>1 DEF Join, IInv, TasksBound
    <3>2. slot' = None /\ UNCHANGED <<journals, tree>>
      BY <1>4, <2>1 DEF Join, Unreported, EndSession
    <3> QED BY <2>1, <3>1, <3>2, EndSessionReleases
  <2>2. CASE ~(slot # None /\ slot.attempt = a)
    BY <1>1, <1>4, <2>2 DEF Join
  <2> QED BY <2>1, <2>2
<1> QED BY <1>2, <1>3, <1>4 DEF Tunnel, WorkerJournals, SupSpawn, SupForward, SupQuiet, SupUncertain,
       SupRecover, SupReport, SupPanic, TreeExits, ChannelClosed

\* Every step of the service is a step of MachineSlot, or a stutter.
LEMMA NextKeeps == IInv /\ IInv' /\ [Next]_vars => PromiseKept
<1> SUFFICES ASSUME IInv, IInv', [Next]_vars PROVE PromiseKept
  OBVIOUS
<1>1. CASE UNCHANGED <<slot, recoveryBlocked>>
  BY <1>1, SameSlot
<1>2. CASE UNCHANGED vars
  BY <1>1, <1>2 DEF vars, sessionVars
<1>3. CASE ClockTick
  <2>1. slot \in Slots /\ slot # None /\ slot.age + 1 \in 0..LeaseLimit /\ slot' = [slot EXCEPT !.age = slot.age + 1]
    BY <1>3, LeaseAssumption DEF ClockTick, IInv, TypeOK, Slots
  <2>2. Phase' = Phase /\ Holder' = Holder
    BY <2>1, SlotAge, NoneAssumption DEF Phase, Holder
  <2> QED BY <1>3, <2>2, SamePhase DEF ClockTick
<1>4. CASE LeaseTick
  BY <1>4, CancelSlotWithdraws DEF LeaseTick, CancelUnchanged
<1>5. CASE RecoveryTaskEnds
  BY <1>1, <1>5 DEF RecoveryTaskEnds, sessionVars
<1>6. CASE Stop
  BY <1>6, CancelSlotWithdraws DEF Stop, CancelUnchanged
<1>7. CASE Exit
  BY <1>1, <1>7 DEF Exit, sessionVars
<1> QED BY <1>2, <1>3, <1>4, <1>5, <1>6, <1>7, ClientKeeps, AdminKeeps, TunnelKeeps DEF Next, Exited

\* Start-up recovery has run: a journal that is left has raised the block.
LEMMA InitKeeps == Init => Promise!SlotInit
<1> SUFFICES ASSUME Init PROVE Promise!SlotInit
  OBVIOUS
<1>1. slot = None /\ recoveryBlocked \in BOOLEAN
  BY DEF Init
<1>2. Holder = None /\ Phase = "idle" /\ Dirty \in BOOLEAN
  BY <1>1 DEF Holder, Phase, Dirty
<1>3. Dirty => recoveryBlocked
  BY DEF Init, Dirty
<1> QED BY <1>1, <1>2, <1>3 DEF Promise!SlotInit

\* The service implements MachineSlot: the VPN is granted to one user at a time,
\* on a machine with nothing pending, and what a tunnel leaves behind closes the
\* service until it is repaired (dispatch, the consumer of Start, quiesce).
THEOREM DaemonKeepsPromise == Spec => KeepsPromise
<1>1. Init => Promise!SlotInit
  BY InitKeeps
<1>2. IInv /\ IInv' /\ [Next]_vars => [Promise!SlotNext]_(Promise!slotVars)
  BY NextKeeps DEF PromiseKept
<1> QED BY <1>1, <1>2, DaemonInvariant, PTL DEF Spec, KeepsPromise, Promise!SlotSpec
----------------------------------------------------------------------------
(* Every supervisor is used as TunnelContract says                         *)

\* What UsesContract says of one step.
Contracted == \A a \in Attempts : Contract(a)!ContractNext \/ UNCHANGED Contract(a)!contractVars

\* A transaction has processes and a journal only after its supervisor was started:
\* the repair of a quiesce never meets the journal of an attempt that has not begun.
JournalsStarted == \A a \in Attempts : sup[a] = "none" => ~tree[a] /\ a \notin journals

\* An attempt none of whose six parts changes takes no step of its contract.
LEMMA Untouched ==
  ASSUME NEW a \in Attempts, sup'[a] = sup[a], inner'[a] = inner[a], cancelled'[a] = cancelled[a],
         tree'[a] = tree[a], updates'[a] = updates[a], a \in journals' <=> a \in journals
  PROVE  UNCHANGED Contract(a)!contractVars
BY DEF Contract!contractVars

\* Session::cancel asks the supervisor that holds the slot and no other.
LEMMA CancelAsks == ASSUME IInv, CancelSlot, CancelUnchanged PROVE Contracted
<1> SUFFICES ASSUME NEW a \in Attempts
             PROVE  Contract(a)!ContractNext \/ UNCHANGED Contract(a)!contractVars
  BY DEF Contracted
<1> USE DEF CancelUnchanged
<1>1. CASE cancelled' = cancelled
  BY <1>1, Untouched
<1>2. CASE slot # None /\ cancelled' = [cancelled EXCEPT ![slot.attempt] = TRUE] /\ a # slot.attempt
  BY <1>2, Untouched DEF IInv, TypeOK
<1>3. CASE slot # None /\ cancelled' = [cancelled EXCEPT ![slot.attempt] = TRUE] /\ a = slot.attempt
  <2>1. cancelled'[a] = TRUE
    BY <1>3 DEF IInv, TypeOK
  <2>2. Contract(a)!Asked
    BY <2>1 DEF Contract!Asked
  <2> QED BY <2>2 DEF Contract!ContractNext
<1> QED BY <1>1, <1>2, <1>3 DEF CancelSlot

\* What the connections ask of the service: Start begins the one supervisor of
\* a fresh attempt, Cancel and Disconnect ask it to stop.
LEMMA ClientContracts == ASSUME IInv, NEW c \in Conns, Client(c) PROVE Contracted
<1>1. CASE ConnectionClosed(c) \/ (\E a \in Attempts : Cancel(c, a)) \/ Disconnect(c)
  <2>1. CASE CancelSlot /\ CancelUnchanged
    BY <2>1, CancelAsks
  <2>2. CASE UNCHANGED tunnelVars
    <3>1. \A a \in Attempts : UNCHANGED Contract(a)!contractVars
      BY <2>2, Untouched DEF tunnelVars
    <3> QED BY <3>1 DEF Contracted
  <2> QED BY <1>1, <2>1, <2>2 DEF ConnectionClosed, Cancel, Disconnect, CancelUnchanged, tunnelVars
<1>2. ASSUME NEW b \in Attempts, Start(c, b) PROVE Contracted
  <2> SUFFICES ASSUME NEW a \in Attempts
               PROVE  Contract(a)!ContractNext \/ UNCHANGED Contract(a)!contractVars
    BY DEF Contracted
  <2>1. CASE a # b
    BY <1>2, <2>1, Untouched DEF Start, IInv, TypeOK
  <2>2. CASE a = b
    <3>1. sup[a] = "none" /\ sup'[a] = "running"
      BY <1>2, <2>2 DEF Start, Current, IInv, TypeOK, TasksBound
    <3>2. Contract(a)!Started
      BY <1>2, <3>1 DEF Start, Contract!Started
    <3> QED BY <3>2 DEF Contract!ContractNext
  <2> QED BY <2>1, <2>2
<1>3. CASE UNCHANGED tunnelVars
  <2>1. \A a \in Attempts : UNCHANGED Contract(a)!contractVars
    BY <1>3, Untouched DEF tunnelVars
  <2> QED BY <2>1 DEF Contracted
<1> QED
  BY <1>1, <1>2, <1>3 DEF Client, Accept, Follow, Hangup, Reserve, Admit, AuthProgress

\* The tasks of attempt b do to it what its contract allows, and leave the
\* other attempts alone.
LEMMA TunnelContracts == ASSUME IInv, NEW b \in Attempts, Tunnel(b) PROVE Contracted
<1> SUFFICES ASSUME NEW a \in Attempts
             PROVE  Contract(a)!ContractNext \/ UNCHANGED Contract(a)!contractVars
  BY DEF Contracted
<1>t. /\ sup \in [Attempts -> {"none", "running", "recovering", "reporting", "ended"}]
      /\ inner \in [Attempts -> Finishes] /\ cancelled \in [Attempts -> BOOLEAN]
      /\ tree \in [Attempts -> BOOLEAN] /\ updates \in [Attempts -> Seq(Updates)]
  BY DEF IInv, TypeOK
<1>1. CASE WorkerJournals(b)
  <2>1. CASE a = b
    BY <1>1, <2>1 DEF WorkerJournals, Contract!TreeConfigures, Contract!ContractNext
  <2>2. CASE a # b
    <3>1. a \notin journals /\ a \notin journals'
      BY <1>1, <2>2 DEF WorkerJournals
    <3> QED BY <1>1, <3>1, Untouched DEF WorkerJournals
  <2> QED BY <2>1, <2>2
<1>2. CASE SupSpawn(b)
  <2>1. CASE a = b
    <3>1. Contract(a)!TreeStarts
      BY <1>2, <2>1, <1>t DEF SupSpawn, Contract!TreeStarts
    <3> QED BY <3>1 DEF Contract!ContractNext
  <2>2. CASE a # b
    BY <1>2, <2>2, <1>t, Untouched DEF SupSpawn
  <2> QED BY <2>1, <2>2
<1>3. ASSUME NEW k \in {"Connected", "Reconnecting", "Traffic"}, SupForward(b, k)
      PROVE  Contract(a)!ContractNext \/ UNCHANGED Contract(a)!contractVars
  <2>1. CASE a = b
    <3>1. Contract(a)!Forwards
      BY <1>3, <2>1, <1>t DEF SupForward, Contract!Forwards
    <3> QED BY <3>1 DEF Contract!ContractNext
  <2>2. CASE a # b
    BY <1>3, <2>2, <1>t, Untouched DEF SupForward
  <2> QED BY <2>1, <2>2
<1>4. CASE SupQuiet(b)
  <2>1. CASE a = b
    <3>1. Contract(a)!Settles
      BY <1>4, <2>1, <1>t DEF SupQuiet, Finished, Contract!Settles, Contract!FinishedUpdate
    <3> QED BY <3>1 DEF Contract!ContractNext
  <2>2. CASE a # b
    BY <1>4, <2>2, <1>t, Untouched DEF SupQuiet
  <2> QED BY <2>1, <2>2
<1>5. CASE SupUncertain(b)
  <2>1. CASE a = b
    <3>1. Contract(a)!GivesUp
      BY <1>5, <2>1, <1>t DEF SupUncertain, Finished, Contract!GivesUp, Contract!FinishedUpdate
    <3> QED BY <3>1 DEF Contract!ContractNext
  <2>2. CASE a # b
    BY <1>5, <2>2, <1>t, Untouched DEF SupUncertain
  <2> QED BY <2>1, <2>2
<1>6. CASE SupRecover(b)
  <2>1. CASE a = b
    <3>0. sup[a] = "recovering" /\ sup'[a] = "reporting" /\ UNCHANGED <<cancelled, tree, updates>>
      BY <1>6, <2>1, <1>t DEF SupRecover
    <3>1. \/ ~(a \in journals') /\ inner' = inner
          \/ ~(a \in journals') /\ inner'[a] = Finished("RecoveryRequired", TRUE)
          \/ journals' = journals /\ inner'[a] = Finished("RecoveryRequired", TRUE)
      BY <1>6, <2>1, <1>t DEF SupRecover
    <3> USE DEF Finished, Contract!Recovers, Contract!FinishedUpdate
    <3>2. ASSUME a \notin journals' PROVE Contract(a)!Recovers
      <4>1. FALSE = (a \in journals')
        BY <3>2
      <4> QED BY <3>0, <3>1, <4>1
    <3>3. ASSUME journals' = journals, inner'[a] = Finished("RecoveryRequired", TRUE)
          PROVE  Contract(a)!Recovers
      BY <3>0, <3>3
    <3>4. Contract(a)!Recovers
      BY <3>1, <3>2, <3>3
    <3> QED BY <3>4 DEF Contract!ContractNext
  <2>2. CASE a # b
    BY <1>6, <2>2, <1>t, Untouched DEF SupRecover
  <2> QED BY <2>1, <2>2
<1>7. CASE SupReport(b)
  <2>1. CASE a = b
    <3>1. Contract(a)!Reports
      BY <1>7, <2>1, <1>t DEF SupReport, Finished, Contract!Reports, Contract!FinishedUpdate
    <3> QED BY <3>1 DEF Contract!ContractNext
  <2>2. CASE a # b
    BY <1>7, <2>2, <1>t, Untouched DEF SupReport
  <2> QED BY <2>1, <2>2
<1>8. CASE SupPanic(b)
  <2>1. CASE a = b
    <3>1. Contract(a)!Dies
      BY <1>8, <2>1, <1>t DEF SupPanic, Contract!Dies
    <3> QED BY <3>1 DEF Contract!ContractNext
  <2>2. CASE a # b
    BY <1>8, <2>2, <1>t, Untouched DEF SupPanic
  <2> QED BY <2>1, <2>2
<1>9. CASE TreeExits(b)
  <2>1. CASE a = b
    <3>1. Contract(a)!TreeDies
      BY <1>9, <2>1, <1>t DEF TreeExits, Contract!TreeDies
    <3> QED BY <3>1 DEF Contract!ContractNext
  <2>2. CASE a # b
    BY <1>9, <2>2, <1>t, Untouched DEF TreeExits
  <2> QED BY <2>1, <2>2
<1>10. CASE Consume(b)
  <2>1. CASE a = b
    <3>1. Contract(a)!Received
      BY <1>10, <2>1, <1>t DEF Consume, Contract!Received
    <3> QED BY <3>1 DEF Contract!ContractNext
  <2>2. CASE a # b
    BY <1>10, <2>2, <1>t, Untouched DEF Consume
  <2> QED BY <2>1, <2>2
<1>11. CASE ChannelClosed(b) \/ Join(b)
  BY <1>11, Untouched DEF ChannelClosed, Join
<1> QED BY <1>1, <1>2, <1>3, <1>4, <1>5, <1>6, <1>7, <1>8, <1>9, <1>10, <1>11 DEF Tunnel

\* The recovery task of a quiesce touches the journals of attempts whose
\* supervisor has ended and whose tree is gone.
LEMMA RecoveryContracts ==
  ASSUME IInv, JournalsStarted, RecoveryTaskEnds PROVE Contracted
<1> SUFFICES ASSUME NEW a \in Attempts
             PROVE  Contract(a)!ContractNext \/ UNCHANGED Contract(a)!contractVars
  BY DEF Contracted
<1>1. journals' \subseteq journals
  BY DEF RecoveryTaskEnds
<1>2. CASE a \in journals' <=> a \in journals
  BY <1>2, Untouched DEF RecoveryTaskEnds
<1>3. CASE a \in journals /\ a \notin journals'
  <2>1. slot = None /\ ~quiescenceBlocked
    BY DEF RecoveryTaskEnds, IInv, TypeOK, QuiesceSerialized
  <2>2. ~tree[a]
    BY <2>1 DEF IInv, UncertainRemembered
  <2>3. ~Live(a)
    BY <2>1 DEF IInv, TasksBound
  <2>4. sup[a] = "ended"
    BY <1>3, <2>3 DEF JournalsStarted, Live, IInv, TypeOK
  <2>5. Contract(a)!RepairedLater
    BY <1>3, <2>2, <2>4 DEF RecoveryTaskEnds, Contract!RepairedLater
  <2> QED BY <2>5 DEF Contract!ContractNext
<1> QED BY <1>1, <1>2, <1>3

\* Every step of the service.
LEMMA NextContracts == IInv /\ JournalsStarted /\ [Next]_vars => Contracted
<1> SUFFICES ASSUME IInv, JournalsStarted, [Next]_vars PROVE Contracted
  OBVIOUS
<1>1. ASSUME NEW c \in Conns, Client(c) PROVE Contracted
  BY <1>1, ClientContracts
<1>2. ASSUME NEW b \in Attempts, Tunnel(b) PROVE Contracted
  BY <1>2, TunnelContracts
<1>3. CASE RecoveryTaskEnds
  BY <1>3, RecoveryContracts
<1>4. CASE CancelSlot /\ CancelUnchanged
  BY <1>4, CancelAsks
<1>5. CASE UNCHANGED tunnelVars
  <2>1. \A a \in Attempts : UNCHANGED Contract(a)!contractVars
    BY <1>5, Untouched DEF tunnelVars
  <2> QED BY <2>1 DEF Contracted
<1>6. ASSUME NEW c \in Conns, Admin(c)
      PROVE  (CancelSlot /\ CancelUnchanged) \/ UNCHANGED tunnelVars
  BY <1>6 DEF Admin, AdminQuiesce, QuiesceLocked, QuiesceDrained, QuiesceClears, QuiesceTimeout
<1>7. LeaseTick \/ Stop => CancelSlot /\ CancelUnchanged
  BY DEF LeaseTick, Stop
<1>8. ClockTick \/ Exit \/ Exited \/ UNCHANGED vars => UNCHANGED tunnelVars
  BY DEF ClockTick, Exit, Exited, vars
<1> QED BY <1>1, <1>2, <1>3, <1>4, <1>5, <1>6, <1>7, <1>8 DEF Next

\* No journal precedes its supervisor: nothing is on disk for an attempt at the
\* start, and only a living tree, which its supervisor spawned, writes one.
LEMMA JournalsStartedKept == IInv /\ JournalsStarted /\ [Next]_vars => JournalsStarted'
<1> SUFFICES ASSUME IInv, JournalsStarted, [Next]_vars, NEW a \in Attempts, sup'[a] = "none"
             PROVE  ~tree'[a] /\ a \notin journals'
  BY DEF JournalsStarted
<1>1. Contract(a)!ContractNext \/ UNCHANGED Contract(a)!contractVars
  BY NextContracts DEF Contracted
<1>2. sup[a] = "none" /\ (tree'[a] => tree[a]) /\ (a \in journals' => a \in journals \/ tree[a])
  BY <1>1 DEF Contract!ContractNext, Contract!contractVars, Contract!Started, Contract!Asked,
              Contract!Received, Contract!TreeStarts, Contract!TreeConfigures, Contract!TreeDies,
              Contract!Forwards, Contract!Settles, Contract!GivesUp, Contract!Recovers,
              Contract!Reports, Contract!Dies, Contract!RepairedLater
<1> QED BY <1>2 DEF JournalsStarted

\* Every attempt begins as its contract does.
LEMMA InitContracts == Init => JournalsStarted /\ \A a \in Attempts : Contract(a)!ContractInit
<1> SUFFICES ASSUME Init, NEW a \in Attempts
             PROVE  ~tree[a] /\ a \notin journals /\ Contract(a)!ContractInit
  BY DEF JournalsStarted
<1>1. a \notin journals
  BY PriorAssumption DEF Init
<1>2. /\ sup[a] = "none" /\ inner[a] = Finished(None, TRUE) /\ cancelled[a] = FALSE
      /\ tree[a] = FALSE /\ updates[a] = <<>>
  BY DEF Init
<1> QED BY <1>1, <1>2 DEF Contract!ContractInit, Contract!FinishedUpdate, Finished

\* The service uses every supervisor as TunnelContract allows, over every
\* sequence of attempts and quiesces: it starts each once, asks it to stop,
\* receives its updates, and repairs its journal only after it ended and its
\* tree is gone.  Module Supervisor is proved to keep its side of this contract.
\* (Start, Session::cancel, the consumer task and quiesce() of daemon.rs.)
THEOREM DaemonUsesContract == Spec => UsesContract
<1>1. Init => JournalsStarted /\ \A a \in Attempts : Contract(a)!ContractInit
  BY InitContracts
<1>2. IInv /\ JournalsStarted /\ [Next]_vars => JournalsStarted'
  BY JournalsStartedKept
<1>3. IInv /\ JournalsStarted /\ [Next]_vars => [Contracted]_vars
  BY NextContracts
<1> QED BY <1>1, <1>2, <1>3, DaemonInvariant, PTL DEF Spec, UsesContract, Contracted

=============================================================================
