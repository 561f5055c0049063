---------------------------- MODULE EventStream ----------------------------
(***************************************************************************)
(* The event stream of one subscriber: publish, visible and the following  *)
(* half of the connection handler in crates/service/src/daemon.rs, and     *)
(* Connection and Events of crates/client/src/daemon.rs.                   *)
(*                                                                         *)
(* Every change of the session is published under the session's lock, with *)
(* a sequence number of its own for the log record and for the snapshot.   *)
(* A handler forwards what it receives from the broadcast channel, which   *)
(* keeps only the last RingLimit events.  The client skips what it knows,  *)
(* and fetches a snapshot over another connection when it misses a number. *)
(* The service may be restarted, which starts the numbers again under a    *)
(* new instance id, and another user may take the slot.                    *)
(*                                                                         *)
(* The content of a snapshot is its place: the instance and the number.    *)
(***************************************************************************)
EXTENDS Naturals, Sequences, StreamPromise

CONSTANTS
    Me,          \* the subscriber
    NoOne,       \* Rust's None, for owners
    MaxSeq,      \* events an instance publishes
    MaxInst,     \* starts of the service
    RingLimit,   \* capacity of the broadcast channel (256)
    WireLimit    \* frames the socket holds

ASSUME UserAssumption == Me # Other /\ NoOne \notin {Me, Other}
ASSUME LimitAssumption ==
    /\ MaxSeq \in Nat /\ MaxInst \in Nat \ {0}
    /\ RingLimit \in Nat \ {0} /\ WireLimit \in Nat \ {0}

Owners == {Me, Other, NoOne}
Places == [inst : 1..MaxInst, seq : 0..MaxSeq]
Events == [at : Places, log : BOOLEAN, owner : Owners]

\* Responses and events on the wire; a response to Logs carries the backlog.
Frames == [type : {"event"}, event : Events]
          \cup [type : {"logs"}, backlog : SUBSET (0..MaxSeq)]

VARIABLES
    seq, slot, lastOwner, logs,   \* Session, with inst
    handler,    \* the connection handler: "none", "registered", "streaming", "writing", "closed"
    ring,       \* what the broadcast channel holds for it
    lagged,     \* it has missed some
    hand        \* the frame it is writing

sessionVars == <<inst, seq, slot, lastOwner, logs>>
handlerVars == <<handler, ring, lagged, hand>>
clientVars  == <<client, last, shown, records>>
vars == <<sessionVars, handlerVars, wire, wanted, clientVars, due>>

Here == [inst |-> inst, seq |-> seq]
Some(p) == <<p>>

TypeOK ==
    /\ inst \in 1..MaxInst /\ seq \in 0..MaxSeq
    /\ slot \in Owners /\ lastOwner \in Owners /\ logs \subseteq 0..MaxSeq
    /\ handler \in {"none", "registered", "streaming", "writing", "closed"}
    /\ ring \in Seq(Events) /\ Len(ring) <= RingLimit /\ lagged \in BOOLEAN
    /\ hand \in Frames \cup {<<>>} /\ (hand # <<>> <=> handler = "writing")
    /\ wire \in Seq(Frames) /\ Len(wire) <= WireLimit
    /\ wanted \in {"snapshots", "logs"}
    /\ client \in {"idle", "asked", "following", "fetching"}
    /\ last \in {<<>>} \cup {Some(p) : p \in Places}
    /\ shown \in [at : Places, owner : Owners]
    /\ records \subseteq 0..MaxSeq /\ due \subseteq 0..MaxSeq

Init ==
    /\ inst = 1 /\ seq = 0 /\ slot = NoOne /\ lastOwner = NoOne /\ logs = {}
    /\ handler = "none" /\ ring = <<>> /\ lagged = FALSE /\ hand = <<>> /\ wire = <<>>
    /\ wanted \in {"snapshots", "logs"} /\ client = "idle" /\ last = <<>>
    /\ shown = [at |-> [inst |-> 1, seq |-> 0], owner |-> NoOne] /\ records = {} /\ due = {}

----------------------------------------------------------------------------
(* The service                                                             *)

\* Fault: the channel is joined when the answer has been written.
ReceivingLate == handler = "streaming" \/ (handler = "writing" /\ client = "following")

\* The handler has joined the channel.
Receiving == handler \in {"registered", "streaming", "writing"}

\* One or two events into the broadcast channel, which forgets the oldest.
Broadcast(new) ==
    LET all == ring \o new
        surplus == IF Len(all) > RingLimit THEN Len(all) - RingLimit ELSE 0
    IN IF Receiving
         THEN /\ ring' = SubSeq(all, surplus + 1, Len(all))
              /\ lagged' = (lagged \/ surplus > 0)
         ELSE UNCHANGED <<ring, lagged>>

\* publish with the message that goes with every change of the session but
\* new traffic counters; `kept' are the records from before.
Publish(kept, owner) ==
    /\ lastOwner' = owner
    /\ seq + 2 <= MaxSeq /\ seq' = seq + 2
    /\ logs' = kept \cup {seq + 1}
    /\ due' = IF handler \in {"streaming", "writing"} THEN due \cup {seq + 1} ELSE due
    /\ Broadcast(<<[at |-> [inst |-> inst, seq |-> seq + 1], log |-> TRUE, owner |-> owner],
                   [at |-> [inst |-> inst, seq |-> seq + 2], log |-> FALSE, owner |-> owner]>>)
    /\ UNCHANGED <<inst, handler, hand, wire, wanted, clientVars>>

Reserve(u) ==
    /\ slot = NoOne /\ slot' = u /\ Publish({}, u)

\* The tunnel comes up or goes down.
Changes == slot # NoOne /\ Publish(logs, lastOwner) /\ UNCHANGED slot

Releases == slot # NoOne /\ slot' = NoOne /\ Publish(logs, lastOwner)

\* Traffic counters are published without a message.
Traffic ==
    /\ slot # NoOne /\ seq < MaxSeq /\ seq' = seq + 1
    /\ Broadcast(<<[at |-> [inst |-> inst, seq |-> seq + 1], log |-> FALSE, owner |-> lastOwner]>>)
    /\ UNCHANGED <<inst, slot, lastOwner, logs, handler, hand, wire, wanted, clientVars, due>>

Closed == handler' = "closed" /\ ring' = <<>> /\ lagged' = FALSE /\ hand' = <<>>

Restart ==
    /\ inst < MaxInst /\ inst' = inst + 1 /\ seq' = 0 /\ slot' = NoOne /\ lastOwner' = NoOne
    /\ logs' = {} /\ due' = {}
    /\ IF handler = "none" THEN UNCHANGED handlerVars ELSE Closed
    /\ UNCHANGED <<wire, wanted, clientVars>>

----------------------------------------------------------------------------
(* The connection handler                                                  *)

Authorized == slot \in {NoOne, Me}

\* visible: whose session a snapshot for the subscriber shows.
Visible == IF slot = NoOne /\ lastOwner = Other THEN NoOne ELSE lastOwner

SnapshotFrame ==
    [type |-> "event", event |-> [at |-> Here, log |-> FALSE, owner |-> Visible]]
LogsFrame ==
    [type |-> "logs", backlog |-> IF lastOwner = Other THEN {} ELSE logs]

\* The request has been read: the channel is joined before the answer is made.
Register ==
    /\ handler = "none" /\ client = "asked" /\ handler' = "registered"
    /\ UNCHANGED <<sessionVars, ring, lagged, hand, wire, wanted, clientVars, due>>

\* The answer, under the session's lock; a refused request ends the stream.
Dispatch ==
    /\ handler = "registered"
    /\ IF Authorized
         THEN /\ handler' = "writing" /\ UNCHANGED <<ring, lagged>>
              /\ hand' = IF wanted = "logs" THEN LogsFrame ELSE SnapshotFrame
         ELSE Closed
    /\ due' = {}
    /\ UNCHANGED <<sessionVars, wire, wanted, clientVars>>

\* An event of another user's session, or of mine when he has the slot, ends
\* the stream.
MayForward(e) == Authorized /\ e.owner \in {NoOne, Me}

Forward ==
    /\ handler = "streaming" /\ ~lagged /\ ring # <<>>
    /\ IF MayForward(Head(ring))
         THEN /\ handler' = "writing" /\ hand' = [type |-> "event", event |-> Head(ring)]
              /\ ring' = Tail(ring) /\ UNCHANGED lagged
         ELSE Closed
    /\ UNCHANGED <<sessionVars, wire, wanted, clientVars, due>>

\* RecvError::Lagged: the current snapshot instead of what was missed.  The
\* channel goes on with the oldest event it still has.
ForwardLagged ==
    /\ handler = "streaming" /\ lagged
    /\ IF Authorized /\ wanted = "snapshots"
         THEN handler' = "writing" /\ hand' = SnapshotFrame /\ lagged' = FALSE /\ UNCHANGED ring
         ELSE Closed
    /\ UNCHANGED <<sessionVars, wire, wanted, clientVars, due>>

Write ==
    /\ handler = "writing" /\ Len(wire) < WireLimit
    /\ wire' = Append(wire, hand) /\ hand' = <<>> /\ handler' = "streaming"
    /\ UNCHANGED <<sessionVars, ring, lagged, wanted, clientVars, due>>

\* Ten seconds without room, or the client is gone.
WriteFails ==
    /\ handler = "writing" /\ Len(wire) = WireLimit /\ Closed
    /\ UNCHANGED <<sessionVars, wire, wanted, clientVars, due>>

----------------------------------------------------------------------------
(* The client                                                              *)

\* Connection::open and subscribe or follow_logs; a new stream knows nothing.
Subscribe ==
    /\ client = "idle" /\ handler = "none"
    /\ client' = "asked" /\ last' = <<>> /\ records' = {} /\ due' = {}
    /\ UNCHANGED <<sessionVars, handlerVars, wire, wanted, shown>>

\* next() or the subscription returned an error: its caller drops the stream.
Dropped ==
    /\ client' = "idle" /\ handler' = "none" /\ ring' = <<>> /\ lagged' = FALSE
    /\ hand' = <<>> /\ wire' = <<>> /\ last' = <<>> /\ records' = {} /\ due' = {}

Broken ==
    /\ client \in {"asked", "following"} /\ handler = "closed" /\ wire = <<>> /\ Dropped
    /\ UNCHANGED <<sessionVars, wanted, shown>>

\* The interface leaves, also in the middle of a read.
Leaves ==
    /\ client # "idle" /\ Dropped
    /\ UNCHANGED <<sessionVars, wanted, shown>>

Show(e) == shown' = [at |-> e.at, owner |-> e.owner] /\ last' = Some(e.at)

\* The response: a snapshot becomes the initial event, a backlog is kept.
Answer ==
    /\ client = "asked" /\ wire # <<>> /\ client' = "following" /\ wire' = Tail(wire)
    /\ IF wanted = "logs"
         THEN records' = Head(wire).backlog /\ UNCHANGED <<shown, last>>
         ELSE Show(Head(wire).event) /\ UNCHANGED records
    /\ UNCHANGED <<sessionVars, handlerVars, wanted, due>>

\* The event next() has read, and how it compares with the cursor.
Incoming == Head(wire).event
Known    == last # <<>> /\ last[1].inst = Incoming.at.inst /\ Incoming.at.seq <= last[1].seq
Follows  == last # <<>> => Incoming.at = [last[1] EXCEPT !.seq = @ + 1]

Reads == client = "following" /\ wire # <<>> /\ UNCHANGED <<sessionVars, wanted>>
Pops  == wire' = Tail(wire) /\ UNCHANGED <<handlerVars, due>>

Skip == Reads /\ Known /\ Pops /\ UNCHANGED clientVars

\* The next number: returned if it is of the wanted kind.
Accept ==
    /\ Reads /\ ~Known /\ Follows /\ Pops
    /\ \/ /\ Incoming.log /\ wanted = "logs" /\ last' = Some(Incoming.at)
          /\ records' = records \cup {Incoming.at.seq} /\ UNCHANGED shown
       \/ ~Incoming.log /\ wanted = "snapshots" /\ Show(Incoming) /\ UNCHANGED records
       \/ /\ Incoming.log # (wanted = "logs") /\ last' = Some(Incoming.at)
          /\ UNCHANGED <<shown, records>>
    /\ UNCHANGED client

\* Fault: an event after a gap is ignored.
GapIgnored == Reads /\ ~Known /\ ~Follows /\ Pops /\ UNCHANGED clientVars

\* A gap, or another instance: a log stream ends (in fact the handler has
\* ended it before), the other one asks.
Gap ==
    /\ Reads /\ ~Known /\ ~Follows
    /\ IF wanted = "logs"
         THEN Dropped /\ UNCHANGED shown
         ELSE Pops /\ client' = "fetching" /\ UNCHANGED <<last, shown, records>>

\* Fault: the snapshot is shown but does not move the cursor.
FetchKeepsCursor ==
    /\ client = "fetching" /\ Authorized
    /\ client' = "following" /\ shown' = [at |-> Here, owner |-> Visible]
    /\ UNCHANGED <<sessionVars, handlerVars, wire, wanted, last, records, due>>

\* The snapshot, over a connection of its own to whichever instance runs.
Fetch ==
    /\ client = "fetching" /\ Authorized
    /\ client' = "following" /\ Show([at |-> Here, owner |-> Visible])
    /\ UNCHANGED <<sessionVars, handlerVars, wire, wanted, records, due>>

\* It is refused, or there is no service.
FetchFails ==
    /\ client = "fetching" /\ Dropped
    /\ UNCHANGED <<sessionVars, wanted, shown>>

----------------------------------------------------------------------------
Service == (\E u \in {Me, Other} : Reserve(u)) \/ Changes \/ Releases \/ Traffic \/ Restart
Handler == Register \/ Dispatch \/ Forward \/ ForwardLagged \/ Write
Client  == Broken \/ Answer \/ Skip \/ Accept \/ Gap \/ Fetch

Next == Service \/ Handler \/ WriteFails \/ Client \/ Subscribe \/ Leaves \/ FetchFails

Spec == Init /\ [][Next]_vars

\* The handler's task runs, and an interface that follows calls next().
Fairness == WF_vars(Handler) /\ WF_vars(Client) /\ WF_vars(FetchFails /\ ~Authorized)

FairSpec == Spec /\ Fairness

----------------------------------------------------------------------------
(* Properties: those of StreamPromise, and that nothing is lost for good   *)

\* A subscriber that goes on following comes to show the current snapshot
\* once the service is quiet: nothing it needs is lost behind a lag.
CatchesUp ==
    <>[](client # "idle" /\ wanted = "snapshots") => <>[](shown.at = Here)
=============================================================================
