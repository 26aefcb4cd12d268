------------------------- MODULE CoordinationProofs -------------------------
(* What holds of the coordination tables for every number of connections,   *)
(* every declaration and every bound: type correctness, and the safety      *)
(* invariants of the roster, the couplers and the subscriptions.           *)
EXTENDS Coordination, SequenceTheorems, TLAPS

(* Offering a batch to a queue yields a queue no longer than the depth.     *)
LEMMA OfferType ==
  ASSUME NEW q \in Seq(Messages), Len(q) <= Depth, NEW batch \in Seq(Messages)
  PROVE  Offer(q, batch) \in Seq(Messages) /\ Len(Offer(q, batch)) <= Depth
<1> DEFINE all == q \o batch
<1>1. all \in Seq(Messages) /\ Len(all) \in Nat
  BY ConcatProperties, LenProperties
<1>2. CASE Len(all) <= Depth
  BY <1>1, <1>2 DEF Offer
<1>3. CASE ~(Len(all) <= Depth)
  <2>1. \A i \in 1 .. Depth : all[i] \in Messages
    BY <1>1, <1>3, ElementOfSeq, BoundsAssumption
  <2>2. /\ SubSeq(all, 1, Depth) \in Seq(Messages)
        /\ Len(SubSeq(all, 1, Depth)) = IF 1 <= Depth THEN Depth - 1 + 1 ELSE 0
    <3>1. 1 \in Int /\ Depth \in Int
      BY BoundsAssumption
    <3> HIDE DEF all
    <3>2. QED
      BY <2>1, <3>1, SubSeqProperties
  <2>3. QED
    BY <2>2, <1>3, BoundsAssumption DEF Offer
<1>4. QED
  BY <1>2, <1>3

QueuesOK ==
  /\ outbound \in [Conns -> Seq(Messages)]
  /\ \A c \in Conns : Len(outbound[c]) <= Depth
  /\ lost \in [Conns -> BOOLEAN]

(* Notifying connections keeps the queues well formed.                      *)
LEMMA TrySendType ==
  ASSUME QueuesOK, NEW batch \in [Conns -> Seq(Messages)], TrySend(batch)
  PROVE  QueuesOK'
<1>1. \A c \in Conns : outbound'[c] \in Seq(Messages) /\ Len(outbound'[c]) <= Depth
  BY OfferType DEF TrySend, QueuesOK
<1>2. lost' \in [Conns -> BOOLEAN]
  BY DEF TrySend, QueuesOK
<1>3. outbound' \in [Conns -> Seq(Messages)]
  BY <1>1 DEF TrySend
<1>4. QED
  BY <1>1, <1>2, <1>3 DEF QueuesOK

(* So does a broadcast. *)
LEMMA BroadcastType ==
  ASSUME QueuesOK, NEW R, NEW topic, NEW m \in Messages, Broadcast(R, topic, m)
  PROVE  QueuesOK'
<1> DEFINE b == [c \in Conns |->
       IF \E p \in subscriptions'[topic] : R[p] # None /\ R[p].conn = c THEN <<m>> ELSE <<>>]
<1>1. <<m>> \in Seq(Messages) /\ <<>> \in Seq(Messages)
  OBVIOUS
<1>2. b \in [Conns -> Seq(Messages)]
  BY <1>1
<1>3. TrySend(b)
  BY DEF Broadcast
<1>4. QED
  BY <1>2, <1>3, TrySendType

TablesOK ==
  /\ roster \in [Ids -> Info \cup {None}]
  /\ couplers \subseteq Coupler
  /\ subscriptions \in [Topics -> SUBSET Ids]
  /\ nextProcessId \in Ids /\ nextCouplerId \in Ids
  /\ registrations \in 0 .. MaxRegistrations
  /\ creations \in 0 .. MaxCouplers

ThreadsOK ==
  /\ session \in [Conns -> Session]
  /\ sinkOpen \in [Conns -> BOOLEAN]
  /\ gone \in [Conns -> BOOLEAN]
  /\ mirror \in [Conns -> {"none", "synced", "given_up"}]
  /\ seen \in [Conns -> Seen]

(* The parts the type invariant is proved in.                                *)
LEMMA TypeParts == TypeOK <=> QueuesOK /\ TablesOK /\ ThreadsOK
BY DEF TypeOK, QueuesOK, TablesOK, ThreadsOK

(* Every message a handler constructs is one of Messages.                    *)
LEMMA MessageTypes ==
  /\ Ok \in Replies /\ Refusal \in Replies
  /\ \A S \in SUBSET Ids : Snapshot(S) \in Replies
  /\ \A k \in Ids : Removed(k) \in Replies
  /\ \A e \in Events, p \in Ids : Event(e, p) \in Messages
  /\ \A k \in Ids, i \in Foci : Update(k, i) \in Messages
  /\ Replies \subseteq Messages
BY DEF Replies, Messages

(* The next id is an id, after a wrap too.                                  *)
LEMMA IdTypes ==
  /\ None \notin Ids
  /\ \A n \in Ids : WrappingInc(n) \in Ids
BY BoundsAssumption, InputsAssumption DEF Ids, WrappingInc

(* The answer is noted and nothing else changes in the sessions. *)
LEMMA AnswerType ==
  ASSUME ThreadsOK, NEW c \in Conns, NEW r \in Replies, Answer(c, r)
  PROVE  /\ session' \in [Conns -> Session]
         /\ \A d \in Conns : session'[d].pid = session[d].pid
<1> DEFINE s == [[session[c] EXCEPT !.pc = "replying"] EXCEPT !.reply = r]
<1>1. session \in [Conns -> Session] /\ session[c] \in Session
  BY DEF ThreadsOK
<1>2. s \in Session /\ s.pid = session[c].pid
  BY <1>1 DEF Session
<1>3. session' = [session EXCEPT ![c] = s]
  BY <1>1 DEF Answer
<1> HIDE DEF s
<1>4. QED
  BY <1>1, <1>2, <1>3

(* Removing a process keeps every table well formed. *)
LEMMA DropProcessType ==
  ASSUME TypeOK, NEW p \in Ids, DropProcess(p)
  PROVE  /\ QueuesOK'
         /\ roster' \in [Ids -> Info \cup {None}]
         /\ couplers' \subseteq Coupler
         /\ subscriptions' \in [Topics -> SUBSET Ids]
<1>1. CASE roster[p] = None
  BY <1>1 DEF DropProcess, TypeOK, QueuesOK
<1>2. CASE roster[p] # None
  <2>1. QueuesOK'
    <3>1. Event("unregistered", p) \in Messages
      BY MessageTypes DEF Events
    <3>2. QED
      BY <1>2, <3>1, BroadcastType, TypeParts DEF DropProcess
  <2>2. /\ roster' \in [Ids -> Info \cup {None}]
        /\ couplers' \subseteq Coupler
    BY <1>2 DEF DropProcess, TypeOK
  <2>3. subscriptions' \in [Topics -> SUBSET Ids]
    BY <1>2 DEF DropProcess, TypeOK
  <2>4. QED
    BY <2>1, <2>2, <2>3
<1>3. QED
  BY <1>1, <1>2

(* session.register keeps every table well formed.                          *)
LEMMA RegisterType ==
  ASSUME TypeOK, NEW c \in Conns, NEW profile \in Profiles, Register(c, profile)
  PROVE  TypeOK'
<1>1. QueuesOK'
  <2>1. Event("registered", nextProcessId) \in Messages
    BY MessageTypes DEF TypeOK, Events
  <2>2. QED
    BY <2>1, BroadcastType, TypeParts DEF Register
<1>2. TablesOK'
  <2>1. [conn |-> c, provides |-> profile.provides, consumes |-> profile.consumes,
         interest |-> None] \in Info
    BY ProfilesAssumption DEF Info
  <2>2. registrations' \in 0 .. MaxRegistrations
    BY BoundsAssumption DEF Register, TypeOK
  <2>3. QED
    BY <2>1, <2>2, IdTypes DEF Register, TypeOK, TablesOK
<1>3. ThreadsOK'
  <2>1. [pc |-> "replying", pid |-> nextProcessId, ever |-> TRUE, reply |-> Ok] \in Session
    BY MessageTypes DEF Session, TypeOK
  <2>2. QED
    BY <2>1 DEF Register, TypeOK, ThreadsOK, clientSide
<1>4. QED
  BY <1>1, <1>2, <1>3 DEF TypeOK, QueuesOK, TablesOK, ThreadsOK

(* So does session.unregister.                                              *)
LEMMA UnregisterType ==
  ASSUME TypeOK, NEW c \in Conns, Unregister(c)
  PROVE  TypeOK'
<1>1. session[c].pid \in Ids
  BY DEF Unregister, Registered, TypeOK, Session
<1>2. /\ QueuesOK'
      /\ roster' \in [Ids -> Info \cup {None}]
      /\ couplers' \subseteq Coupler
      /\ subscriptions' \in [Topics -> SUBSET Ids]
  BY <1>1, DropProcessType DEF Unregister
<1>3. TablesOK'
  BY <1>2 DEF Unregister, TypeOK, TablesOK, counts
<1>4. ThreadsOK'
  <2>1. Ok \in Replies
    BY MessageTypes
  <2> DEFINE s == [session[c] EXCEPT !.pc = "replying", !.pid = None, !.reply = Ok]
  <2>2. session' = [session EXCEPT ![c] = s]
    BY DEF Unregister
  <2>3. s \in Session
    <3>1. session[c] \in Session
      BY DEF TypeOK
    <3>2. QED
      BY <2>1, <3>1 DEF Session
  <2>4. session' \in [Conns -> Session]
    BY <2>2, <2>3 DEF TypeOK
  <2>5. QED
    BY <2>4 DEF Unregister, TypeOK, ThreadsOK, clientSide
<1>5. QED
  BY <1>2, <1>3, <1>4 DEF TypeOK, QueuesOK, TablesOK, ThreadsOK

(* So does the end of a connection.                                         *)
LEMMA LeaveType ==
  ASSUME TypeOK, NEW c \in Conns, Leave(c)
  PROVE  TypeOK'
<1>1. /\ QueuesOK'
      /\ roster' \in [Ids -> Info \cup {None}]
      /\ couplers' \subseteq Coupler
      /\ subscriptions' \in [Topics -> SUBSET Ids]
  <2>1. CASE session[c].pid = None
    BY <2>1 DEF Leave, TypeOK, QueuesOK
  <2>2. CASE session[c].pid # None
    <3>1. session[c].pid \in Ids
      BY <2>2 DEF TypeOK, Session
    <3>2. QED
      BY <2>2, <3>1, DropProcessType DEF Leave
  <2>3. QED
    BY <2>1, <2>2
<1>2. TablesOK'
  BY <1>1 DEF Leave, TypeOK, TablesOK, counts
<1>3. ThreadsOK'
  <2> DEFINE s == [session[c] EXCEPT !.pc = "done", !.pid = None]
  <2>1. session' = [session EXCEPT ![c] = s]
    BY DEF Leave
  <2>2. session[c] \in Session
    BY DEF TypeOK
  <2>3. s \in Session
    BY <2>2 DEF Session
  <2>4. QED
    BY <2>1, <2>3 DEF Leave, TypeOK, ThreadsOK, clientSide
<1>4. QED
  BY <1>1, <1>2, <1>3 DEF TypeOK, QueuesOK, TablesOK, ThreadsOK

(* Requests that touch at most the subscriptions, the mirror and the answer. *)
LEMMA PlainCallType ==
  ASSUME TypeOK, NEW c \in Conns,
         \/ Refuse(c) \/ HandlerPanics(c) \/ RosterSnapshot(c) \/ ReaderBreaks(c)
         \/ \E topic \in UsedTopics : Subscribe(c, topic) \/ Unsubscribe(c, topic)
         \/ \E k \in couplers : CouplerRemove(c, k)
  PROVE  TypeOK'
<1> USE DEF stateThread, counts, clientSide
<1>1. CASE Refuse(c)
  BY <1>1, MessageTypes, AnswerType, TypeParts
  DEF Refuse, TypeOK, ThreadsOK
<1>2. CASE HandlerPanics(c)
  <2> DEFINE s == [session[c] EXCEPT !.pc = "last_reply", !.reply = Refusal]
  <2>1. s \in Session
    <3>1. session[c] \in Session /\ Refusal \in Replies
      BY MessageTypes DEF TypeOK
    <3>2. QED
      BY <3>1 DEF Session
  <2>2. session' = [session EXCEPT ![c] = s]
    BY <1>2 DEF HandlerPanics
  <2>3. QED
    BY <1>2, <2>1, <2>2 DEF HandlerPanics, TypeOK
<1>3. CASE RosterSnapshot(c)
  <2>1. Snapshot(Live) \in Replies
    BY MessageTypes DEF Live
  <2>2. session' \in [Conns -> Session]
    BY <1>3, <2>1, AnswerType, TypeParts DEF RosterSnapshot
  <2>3. mirror' \in [Conns -> {"none", "synced", "given_up"}]
    BY <1>3 DEF RosterSnapshot, TypeOK
  <2>4. QED
    BY <1>3, <2>2, <2>3 DEF RosterSnapshot, TypeOK
<1>4. CASE ReaderBreaks(c)
  <2>1. session' \in [Conns -> Session]
    <3> DEFINE s == [session[c] EXCEPT !.pc = "leaving"]
    <3>1. session \in [Conns -> Session] /\ session[c] \in Session
      BY DEF TypeOK
    <3>2. s \in Session
      BY <3>1 DEF Session
    <3>3. session' = [session EXCEPT ![c] = s]
      BY <1>4 DEF ReaderBreaks
    <3> HIDE DEF s
    <3>4. QED
      BY <3>1, <3>2, <3>3
  <2>2. UNCHANGED <<stateThread, outbound, sinkOpen, clientSide, lost, mirror, counts>>
    BY <1>4 DEF ReaderBreaks
  <2>3. QED
    BY <2>1, <2>2 DEF TypeOK
<1>5. ASSUME NEW topic \in UsedTopics, Subscribe(c, topic)
      PROVE  TypeOK'
  <2>1. session[c].pid \in Ids
    BY <1>5 DEF Subscribe, Registered, TypeOK, Session
  <2>2. session' \in [Conns -> Session]
    BY <1>5, MessageTypes, AnswerType, TypeParts DEF Subscribe
  <2>3. subscriptions' \in [Topics -> SUBSET Ids]
    <3>1. CASE roster[session[c].pid] = None
      BY <1>5, <3>1 DEF Subscribe, TypeOK
    <3>2. CASE roster[session[c].pid] # None
      <4>1. topic \in Topics
        BY InputsAssumption
      <4>2. subscriptions' =
              [subscriptions EXCEPT ![topic] = subscriptions[topic] \cup {session[c].pid}]
        BY <1>5, <3>2 DEF Subscribe
      <4>3. QED
        BY <2>1, <4>1, <4>2 DEF TypeOK
    <3>3. QED
      BY <3>1, <3>2
  <2>4. QED
    BY <1>5, <2>2, <2>3 DEF Subscribe, TypeOK
<1>6. ASSUME NEW topic \in UsedTopics, Unsubscribe(c, topic)
      PROVE  TypeOK'
  <2>1. session' \in [Conns -> Session]
    BY <1>6, MessageTypes, AnswerType, TypeParts DEF Unsubscribe
  <2>2. /\ subscriptions' \in [Topics -> SUBSET Ids]
        /\ mirror' \in [Conns -> {"none", "synced", "given_up"}]
    BY <1>6, InputsAssumption DEF Unsubscribe, TypeOK
  <2>3. QED
    BY <1>6, <2>1, <2>2 DEF Unsubscribe, TypeOK
<1>7. ASSUME NEW k \in couplers, CouplerRemove(c, k)
      PROVE  TypeOK'
  <2>1. Removed(k.id) \in Replies
    BY <1>7, MessageTypes DEF TypeOK, Coupler
  <2>2. session' \in [Conns -> Session]
    BY <1>7, <2>1, AnswerType, TypeParts DEF CouplerRemove
  <2>3. QED
    BY <1>7, <2>2 DEF CouplerRemove, TypeOK
<1>8. QED
  BY <1>1, <1>2, <1>3, <1>4, <1>5, <1>6, <1>7

(* session.update_label queues an event at most.                            *)
LEMMA UpdateLabelType ==
  ASSUME TypeOK, NEW c \in Conns, UpdateLabel(c)
  PROVE  TypeOK'
<1> DEFINE p == session[c].pid
<1>1. p \in Ids
  BY DEF UpdateLabel, Registered, TypeOK, Session
<1>2. session' \in [Conns -> Session]
  BY MessageTypes, AnswerType, TypeParts DEF UpdateLabel
<1>3. QueuesOK'
  <2>1. Event("label_updated", p) \in Messages
    BY <1>1, MessageTypes DEF Events
  <2>2. CASE roster[p] = None
    BY <2>2 DEF UpdateLabel, TypeOK, QueuesOK
  <2>3. CASE roster[p] # None
    BY <2>1, <2>3, BroadcastType, TypeParts DEF UpdateLabel
  <2>4. QED
    BY <2>2, <2>3
<1>4. QED
  BY <1>2, <1>3 DEF UpdateLabel, TypeOK, QueuesOK, stateThread, clientSide, counts

(* However the updates are ordered, what a connection is offered is a        *)
(* sequence of messages.                                                   *)
LEMMA BatchType ==
  ASSUME TypeOK, NEW D \in SUBSET couplers, NEW i \in Foci, NEW b \in Batches(D, i)
  PROVE  b \in [Conns -> Seq(Messages)]
<1>1. ASSUME NEW c \in Conns
      PROVE  b[c] \in Seq(Messages)
  <2>1. UpdatesTo(c, D, i) \subseteq Messages
    BY MessageTypes DEF UpdatesTo, TypeOK, Coupler
  <2>2. PICK n \in 0 .. MaxCouplers : b[c] \in [1 .. n -> UpdatesTo(c, D, i)]
    BY DEF Batches, Orders
  <2>3. n \in Nat
    BY BoundsAssumption
  <2>4. b[c] \in [1 .. n -> Messages]
    BY <2>1, <2>2
  <2>5. QED
    BY <2>3, <2>4, SeqDef
<1>2. QED
  BY <1>1 DEF Batches

(* A publication sets a focus and queues updates, whichever couplers derive  *)
(* one and in whichever order.                                             *)
LEMMA PublishInterestType ==
  ASSUME TypeOK, NEW c \in Conns, NEW i \in Foci, PublishInterest(c, i)
  PROVE  TypeOK'
<1> DEFINE p == session[c].pid
<1>1. p \in Ids
  BY DEF PublishInterest, Registered, TypeOK, Session
<1>2. PICK D \in SUBSET {k \in couplers : k.master = p} :
        \E b \in Batches(D, i) : TrySend(b)
  BY DEF PublishInterest, LedBy
<1>3. QueuesOK'
  <2>1. PICK b \in Batches(D, i) : TrySend(b)
    BY <1>2
  <2>2. b \in [Conns -> Seq(Messages)]
    BY <1>2, BatchType
  <2>3. QED
    BY <2>1, <2>2, TrySendType, TypeParts
<1>4. roster' \in [Ids -> Info \cup {None}]
  <2>1. roster[p] \in Info
    BY <1>1 DEF PublishInterest, TypeOK
  <2>2. [roster[p] EXCEPT !.interest = i] \in Info
    BY <2>1 DEF Info
  <2>3. roster' = [roster EXCEPT ![p] = [roster[p] EXCEPT !.interest = i]]
    BY DEF PublishInterest
  <2>4. QED
    BY <1>1, <2>2, <2>3 DEF TypeOK
<1>5. QED
  BY <1>3, <1>4 DEF PublishInterest, TypeOK, QueuesOK, clientSide, counts

(* coupler.create adds a coupler under an id, and queues one update at most. *)
LEMMA CouplerCreateType ==
  ASSUME TypeOK, NEW c \in Conns, NEW master \in Ids, NEW follower \in Ids,
         NEW kind \in UsedKinds, CouplerCreate(c, master, follower, kind)
  PROVE  TypeOK'
<1> DEFINE id == nextCouplerId
           new == [id |-> id, master |-> master, follower |-> follower, kind |-> kind]
           focus == roster[master].interest
           update == [d \in Conns |->
                        IF d = roster[follower].conn THEN <<Update(id, focus)>> ELSE <<>>]
<1>1. session' \in [Conns -> Session]
  <2>1. Answer(c, Ok) \/ Answer(c, Refusal)
    BY DEF CouplerCreate
  <2>2. QED
    BY <2>1, MessageTypes, AnswerType, TypeParts
<1>2. couplers' \subseteq Coupler
  <2>1. new \in Coupler
    BY InputsAssumption DEF Coupler, TypeOK
  <2>2. couplers' = couplers \/ couplers' = {k \in couplers : k.id # id} \cup {new}
    BY DEF CouplerCreate
  <2>3. QED
    BY <2>1, <2>2 DEF TypeOK
<1>3. nextCouplerId' \in Ids /\ creations' \in 0 .. MaxCouplers
  BY IdTypes, BoundsAssumption DEF CouplerCreate, TypeOK
<1>4. QueuesOK'
  <2>1. \/ UNCHANGED <<outbound, lost>>
        \/ focus # None /\ roster[master] # None /\ TrySend(update)
    BY DEF CouplerCreate
  <2>2. CASE UNCHANGED <<outbound, lost>>
    BY <2>2 DEF TypeOK, QueuesOK
  <2>3. CASE focus # None /\ roster[master] # None /\ TrySend(update)
    <3>1. focus \in Foci
      BY <2>3 DEF TypeOK, Info
    <3>2. Update(id, focus) \in Messages
      BY <3>1, MessageTypes DEF TypeOK
    <3>3. <<Update(id, focus)>> \in Seq(Messages) /\ <<>> \in Seq(Messages)
      BY <3>2
    <3>4. update \in [Conns -> Seq(Messages)]
      BY <3>3
    <3>5. QED
      BY <2>3, <3>4, TrySendType, TypeParts
  <2>4. QED
    BY <2>1, <2>2, <2>3
<1>5. UNCHANGED <<roster, subscriptions, nextProcessId, sinkOpen, gone, seen, mirror,
                  registrations>>
  BY DEF CouplerCreate, clientSide
<1>6. QED
  BY <1>1, <1>2, <1>3, <1>4, <1>5 DEF TypeOK, QueuesOK

(* A blocking send waits for room, so the queue stays within its depth.     *)
LEMMA PushReplyType ==
  ASSUME TypeOK, NEW c \in Conns, PushReply(c)
  PROVE  TypeOK'
<1> USE DEF stateThread, counts, clientSide
<1>1. session' \in [Conns -> Session]
  <2> DEFINE next == IF session[c].pc = "replying" THEN "reading" ELSE "leaving"
             s == [session[c] EXCEPT !.pc = next, !.reply = None]
  <2>1. session' = [session EXCEPT ![c] = s]
    BY DEF PushReply
  <2>2. session[c] \in Session
    BY DEF TypeOK
  <2>3. s \in Session
    BY <2>2 DEF Session
  <2>4. QED
    BY <2>1, <2>3 DEF TypeOK
<1>2. CASE sinkOpen[c]
  <2>1. outbound' = [outbound EXCEPT ![c] = Append(outbound[c], session[c].reply)]
    BY <1>2 DEF PushReply
  <2>2. session[c].reply \in Messages
    BY MessageTypes DEF PushReply, TypeOK, Session
  <2>3. /\ Append(outbound[c], session[c].reply) \in Seq(Messages)
        /\ Len(Append(outbound[c], session[c].reply)) = Len(outbound[c]) + 1
    BY <2>2, AppendProperties DEF TypeOK
  <2>4. Len(outbound[c]) + 1 <= Depth
    <3>1. Len(outbound[c]) < Depth /\ Len(outbound[c]) \in Nat
      BY <1>2, LenProperties DEF PushReply, TypeOK
    <3>2. QED
      BY <3>1, BoundsAssumption
  <2>5. outbound' \in [Conns -> Seq(Messages)] /\ \A d \in Conns : Len(outbound'[d]) <= Depth
    BY <2>1, <2>3, <2>4 DEF TypeOK
  <2>6. QED
    BY <1>1, <2>5 DEF PushReply, TypeOK
<1>3. CASE ~sinkOpen[c]
  BY <1>1, <1>3 DEF PushReply, TypeOK
<1>4. QED
  BY <1>2, <1>3

(* What a client remembers stays well formed. *)
LEMMA ReceivedType ==
  ASSUME NEW c \in Conns, NEW s \in Seen, NEW m \in Messages
  PROVE  Received(c, s, m) \in Seen
<1>1. CASE m \in {Snapshot(S) : S \in SUBSET Ids}
  BY <1>1 DEF Snapshot, Received, Seen
<1>2. CASE m \in {Event(e, p) : e \in Events, p \in Ids}
  BY <1>2 DEF Event, Events, Received, Seen
<1>3. CASE m \in {Update(k, i) : k \in Ids, i \in Foci}
  BY <1>3 DEF Update, Received, Seen
<1>4. CASE m \in {Ok, Refusal} \cup {Removed(k) : k \in Ids}
  BY <1>4 DEF Ok, Refusal, Removed, Received
<1>5. QED
  BY <1>1, <1>2, <1>3, <1>4 DEF Messages, Replies

(* The writer thread and the client leave everything well formed.           *)
LEMMA WriterType ==
  ASSUME TypeOK, NEW c \in Conns, WriterSends(c) \/ WriterFails(c) \/ ClientGoes(c)
  PROVE  TypeOK'
<1> USE DEF stateThread, counts, clientSide
<1>1. CASE WriterSends(c)
  <2>1. outbound[c] \in Seq(Messages) /\ outbound[c] # <<>> /\ Len(outbound[c]) <= Depth
    BY <1>1 DEF WriterSends, TypeOK
  <2>2. /\ Head(outbound[c]) \in Messages
        /\ Tail(outbound[c]) \in Seq(Messages)
        /\ Len(Tail(outbound[c])) = Len(outbound[c]) - 1
        /\ Len(outbound[c]) \in Nat
    BY <2>1, HeadTailProperties, LenProperties
  <2>3. Len(Tail(outbound[c])) <= Depth
    BY <2>1, <2>2, BoundsAssumption
  <2>4. outbound' \in [Conns -> Seq(Messages)] /\ \A d \in Conns : Len(outbound'[d]) <= Depth
    BY <1>1, <2>2, <2>3 DEF WriterSends, TypeOK
  <2>5. seen' \in [Conns -> Seen]
    BY <1>1, <2>2, ReceivedType DEF WriterSends, TypeOK
  <2>6. QED
    BY <1>1, <2>4, <2>5 DEF WriterSends, TypeOK
<1>2. CASE WriterFails(c)
  <2>1. outbound' \in [Conns -> Seq(Messages)] /\ \A d \in Conns : Len(outbound'[d]) <= Depth
    BY <1>2, BoundsAssumption DEF WriterFails, TypeOK
  <2>2. QED
    BY <1>2, <2>1 DEF WriterFails, TypeOK
<1>3. CASE ClientGoes(c)
  BY <1>3 DEF ClientGoes, TypeOK
<1>4. QED
  BY <1>1, <1>2, <1>3

(* The initial state has the right types.                                   *)
LEMMA InitType == Init => TypeOK
<1> SUFFICES ASSUME Init PROVE TypeOK
  OBVIOUS
<1>1. 0 \in Nat /\ 1 \in Ids
  BY BoundsAssumption DEF Ids
<1>2. session \in [Conns -> Session]
  BY DEF Init, Session
<1>3. seen \in [Conns -> Seen]
  BY DEF Init, Seen
<1>4. outbound \in [Conns -> Seq(Messages)] /\ \A c \in Conns : Len(outbound[c]) <= Depth
  BY BoundsAssumption DEF Init
<1>5. registrations \in 0 .. MaxRegistrations /\ creations \in 0 .. MaxCouplers
  BY BoundsAssumption DEF Init
<1>6. QED
  BY <1>1, <1>2, <1>3, <1>4, <1>5 DEF Init, TypeOK

(* Every step keeps the types.                                              *)
LEMMA NextType == TypeOK /\ [Next]_vars => TypeOK'
<1> SUFFICES ASSUME TypeOK, [Next]_vars PROVE TypeOK'
  OBVIOUS
<1>1. CASE UNCHANGED vars
  BY <1>1 DEF vars, TypeOK
<1>2. ASSUME NEW c \in Conns, Handshake(c)
      PROVE  TypeOK'
  BY <1>2, RegisterType, UnregisterType DEF Handshake
<1>3. ASSUME NEW c \in Conns, Call(c)
      PROVE  TypeOK'
  BY <1>3, PlainCallType, UpdateLabelType, PublishInterestType, CouplerCreateType DEF Call
<1>4. ASSUME NEW c \in Conns,
             \/ PushReply(c) \/ ReaderBreaks(c) \/ Leave(c)
             \/ WriterSends(c) \/ WriterFails(c) \/ ClientGoes(c)
      PROVE  TypeOK'
  BY <1>4, PushReplyType, PlainCallType, LeaveType, WriterType
<1>5. QED
  BY <1>1, <1>2, <1>3, <1>4 DEF Next

(* Type correctness of the coordination state: every table, queue and        *)
(* thread record keeps its shape in every reachable state.                 *)
THEOREM TypeCorrect == Spec => []TypeOK
BY InitType, NextType, PTL DEF Spec

-----------------------------------------------------------------------------
(* What a step does to the tables, whoever takes it. *)

Untouched == UNCHANGED <<roster, couplers, subscriptions, nextProcessId, registrations>>
OwnersKept == \A d \in Conns : session'[d].pid = session[d].pid

Added(c, profile) ==
  /\ session[c].pid = None
  /\ roster' = [roster EXCEPT ![nextProcessId] =
       [conn |-> c, provides |-> profile.provides, consumes |-> profile.consumes,
        interest |-> None]]
  /\ nextProcessId' = WrappingInc(nextProcessId)
  /\ registrations' = registrations + 1
  /\ UNCHANGED <<couplers, subscriptions>>
  /\ session'[c].pid = nextProcessId
  /\ \A d \in Conns \ {c} : session'[d].pid = session[d].pid

Dropped(c) ==
  /\ UNCHANGED <<nextProcessId, registrations>>
  /\ session'[c].pid = None
  /\ \A d \in Conns \ {c} : session'[d].pid = session[d].pid
  /\ LET p == session[c].pid IN
       \/ p = None /\ UNCHANGED <<roster, couplers, subscriptions>>
       \/ /\ p \in Ids /\ roster[p] = None
          /\ UNCHANGED <<roster, couplers, subscriptions>>
       \/ /\ p \in Ids /\ roster[p] # None
          /\ roster' = [roster EXCEPT ![p] = None]
          /\ couplers' = {k \in couplers : k.master # p /\ k.follower # p}
          /\ subscriptions' = [t \in Topics |-> subscriptions[t] \ {p}]

Refocused ==
  /\ UNCHANGED <<couplers, subscriptions, nextProcessId, registrations>>
  /\ OwnersKept
  /\ \E p \in Ids, i \in Foci : roster[p] # None /\ roster' = [roster EXCEPT ![p].interest = i]

Coupled ==
  /\ UNCHANGED <<roster, subscriptions, nextProcessId, registrations>>
  /\ OwnersKept
  /\ \E master, follower \in Ids, kind \in CouplerKinds :
       /\ roster[master] # None /\ roster[follower] # None
       /\ ~CreatesCycle(master, follower)
       /\ Compatible(kind, roster[master].provides, roster[follower].consumes)
       /\ couplers' = {k \in couplers : k.id # nextCouplerId} \cup
            {[id |-> nextCouplerId, master |-> master, follower |-> follower, kind |-> kind]}

Uncoupled ==
  /\ UNCHANGED <<roster, subscriptions, nextProcessId, registrations>>
  /\ OwnersKept
  /\ couplers' \subseteq couplers

Resubscribed ==
  /\ UNCHANGED <<roster, couplers, nextProcessId, registrations>>
  /\ OwnersKept
  /\ \E t \in Topics :
       \/ \E p \in Ids : roster[p] # None
            /\ subscriptions' = [subscriptions EXCEPT ![t] = @ \cup {p}]
       \/ \E p \in Ids : subscriptions' = [subscriptions EXCEPT ![t] = @ \ {p}]

(* Every step of the system is one of these. *)
Effect ==
  \/ Untouched /\ OwnersKept
  \/ \E c \in Conns, profile \in Profiles : Added(c, profile)
  \/ \E c \in Conns : Dropped(c)
  \/ Refocused
  \/ Coupled
  \/ Uncoupled
  \/ Resubscribed

(* A registered connection has registered once: it owns a process only       *)
(* after it has called session.register.                                   *)
OwnersRegistered == \A c \in Conns : session[c].pid # None => session[c].ever

(* session.register adds the caller's process and nothing else: the caller   *)
(* has none, since a connection registers once.                            *)
LEMMA RegisterEffect ==
  ASSUME TypeOK, OwnersRegistered, NEW c \in Conns, NEW profile \in Profiles,
         Register(c, profile)
  PROVE  Added(c, profile) /\ OwnersRegistered'
<1>1. session[c].pid = None
  BY DEF Register, OwnersRegistered
<1>2. session' = [session EXCEPT ![c] =
                    [pc |-> "replying", pid |-> nextProcessId, ever |-> TRUE, reply |-> Ok]]
  BY DEF Register
<1>3. /\ session'[c].pid = nextProcessId /\ session'[c].ever
      /\ \A d \in Conns \ {c} : session'[d] = session[d]
  BY <1>2 DEF TypeOK
<1>4. QED
  BY <1>1, <1>3 DEF Register, Added, OwnersRegistered

(* Leaving, in either way, drops the process the connection owned.          *)
LEMMA DroppedEffect ==
  ASSUME TypeOK, OwnersRegistered, NEW c \in Conns, Unregister(c) \/ Leave(c)
  PROVE  Dropped(c) /\ OwnersRegistered'
<1>1. /\ session'[c].pid = None
      /\ \A d \in Conns \ {c} : session'[d] = session[d]
  <2>1. CASE Unregister(c)
    BY <2>1 DEF Unregister, TypeOK, Session
  <2>2. CASE Leave(c)
    BY <2>2 DEF Leave, TypeOK, Session
  <2>3. QED
    BY <2>1, <2>2
<1>2. session[c].pid \in Ids \cup {None}
  BY DEF TypeOK, Session
<1>3. \/ session[c].pid = None /\ UNCHANGED <<roster, couplers, subscriptions>>
      \/ session[c].pid # None /\ DropProcess(session[c].pid)
  BY DEF Unregister, Registered, Leave
<1>4. UNCHANGED <<nextProcessId, registrations>>
  BY DEF Unregister, Leave, counts
<1>5. QED
  BY <1>1, <1>2, <1>3, <1>4, IdTypes DEF Dropped, DropProcess, OwnersRegistered

(* A step that leaves who owns what as it is keeps OwnersRegistered. *)
SameOwners == \A d \in Conns : session'[d].pid = session[d].pid /\ session'[d].ever = session[d].ever

(* An answer changes no owner.                                              *)
LEMMA AnswerOwners ==
  ASSUME TypeOK, NEW c \in Conns, NEW r, Answer(c, r)
  PROVE  SameOwners
<1>1. session' = [session EXCEPT ![c] = [session[c] EXCEPT !.pc = "replying", !.reply = r]]
  BY DEF Answer
<1>2. session[c] \in Session
  BY DEF TypeOK
<1>3. QED
  BY <1>1, <1>2 DEF SameOwners, TypeOK, Session

(* Each call changes one table at most, and no owner.                       *)
LEMMA CallEffect ==
  ASSUME TypeOK, NEW c \in Conns, Call(c)
  PROVE  SameOwners /\ (Untouched \/ Refocused \/ Coupled \/ Uncoupled \/ Resubscribed)
<1> USE DEF stateThread, counts
<1> DEFINE p == session[c].pid
<1>1. CASE Refuse(c)
  BY <1>1, AnswerOwners DEF Refuse, Untouched
<1>2. CASE HandlerPanics(c)
  BY <1>2 DEF HandlerPanics, Untouched, SameOwners, TypeOK, Session
<1>3. CASE UpdateLabel(c)
  BY <1>3, AnswerOwners DEF UpdateLabel, Untouched
<1>4. CASE RosterSnapshot(c)
  BY <1>4, AnswerOwners DEF RosterSnapshot, Untouched
<1>5. ASSUME NEW i \in Foci, PublishInterest(c, i)
      PROVE  SameOwners /\ Refocused
  <2>1. p \in Ids
    BY <1>5 DEF PublishInterest, Registered, TypeOK, Session
  <2>2. QED
    BY <1>5, <2>1 DEF PublishInterest, SameOwners, Refocused, OwnersKept
<1>6. ASSUME NEW master \in Ids, NEW follower \in Ids, NEW kind \in UsedKinds,
             CouplerCreate(c, master, follower, kind)
      PROVE  SameOwners /\ (Untouched \/ Coupled)
  <2>1. SameOwners
    <3>1. Answer(c, Ok) \/ Answer(c, Refusal)
      BY <1>6 DEF CouplerCreate
    <3>2. QED
      BY <3>1, AnswerOwners
  <2>2. kind \in CouplerKinds
    BY InputsAssumption
  <2>3. QED
    BY <1>6, <2>1, <2>2 DEF CouplerCreate, Untouched, Coupled, SameOwners, OwnersKept
<1>7. ASSUME NEW k \in couplers, CouplerRemove(c, k)
      PROVE  SameOwners /\ Uncoupled
  BY <1>7, AnswerOwners DEF CouplerRemove, Uncoupled, SameOwners, OwnersKept
<1>8. ASSUME NEW topic \in UsedTopics, Subscribe(c, topic)
      PROVE  SameOwners /\ (Untouched \/ Resubscribed)
  <2>1. SameOwners
    <3>1. Answer(c, Ok) \/ Answer(c, Refusal)
      BY <1>8 DEF Subscribe
    <3>2. QED
      BY <3>1, AnswerOwners
  <2>2. topic \in Topics /\ p \in Ids
    BY <1>8, InputsAssumption DEF Subscribe, Registered, TypeOK, Session
  <2>3. CASE roster[p] = None
    BY <1>8, <2>1, <2>3 DEF Subscribe, Untouched
  <2>4. CASE roster[p] # None
    <3>1. subscriptions' = [subscriptions EXCEPT ![topic] = @ \cup {p}]
      BY <1>8, <2>4 DEF Subscribe
    <3>2. UNCHANGED <<roster, couplers, nextProcessId, registrations>>
      BY <1>8 DEF Subscribe
    <3>3. QED
      BY <2>1, <2>2, <2>4, <3>1, <3>2 DEF Resubscribed, SameOwners, OwnersKept
  <2>5. QED
    BY <2>3, <2>4
<1>9. ASSUME NEW topic \in UsedTopics, Unsubscribe(c, topic)
      PROVE  SameOwners /\ Resubscribed
  <2>1. topic \in Topics /\ p \in Ids
    BY <1>9, InputsAssumption DEF Unsubscribe, Registered, TypeOK, Session
  <2>2. subscriptions' = [subscriptions EXCEPT ![topic] = @ \ {p}]
    BY <1>9 DEF Unsubscribe
  <2>3. SameOwners /\ UNCHANGED <<roster, couplers, nextProcessId, registrations>>
    BY <1>9, AnswerOwners DEF Unsubscribe
  <2>4. QED
    BY <2>1, <2>2, <2>3 DEF Resubscribed, SameOwners, OwnersKept
<1>10. QED
  BY <1>1, <1>2, <1>3, <1>4, <1>5, <1>6, <1>7, <1>8, <1>9 DEF Call

(* Queues, writers and clients change no table.                             *)
LEMMA ThreadEffect ==
  ASSUME TypeOK, NEW c \in Conns,
         \/ PushReply(c) \/ ReaderBreaks(c)
         \/ WriterSends(c) \/ WriterFails(c) \/ ClientGoes(c)
  PROVE  SameOwners /\ Untouched
<1> USE DEF stateThread, counts
<1>1. CASE PushReply(c)
  BY <1>1 DEF PushReply, SameOwners, Untouched, TypeOK, Session
<1>2. CASE ReaderBreaks(c)
  BY <1>2 DEF ReaderBreaks, SameOwners, Untouched, TypeOK, Session
<1>3. CASE WriterSends(c) \/ WriterFails(c) \/ ClientGoes(c)
  BY <1>3 DEF WriterSends, WriterFails, ClientGoes, SameOwners, Untouched
<1>4. QED
  BY <1>1, <1>2, <1>3

(* Every step has one of the effects.                                       *)
LEMMA NextEffect ==
  ASSUME TypeOK, OwnersRegistered, [Next]_vars
  PROVE  Effect /\ OwnersRegistered'
<1>1. SameOwners => OwnersKept /\ OwnersRegistered'
  BY DEF SameOwners, OwnersKept, OwnersRegistered
<1>2. CASE UNCHANGED vars
  BY <1>2 DEF vars, Effect, Untouched, OwnersKept, OwnersRegistered
<1>3. ASSUME NEW c \in Conns, Handshake(c)
      PROVE  Effect /\ OwnersRegistered'
  BY <1>3, RegisterEffect, DroppedEffect DEF Handshake, Effect
<1>4. ASSUME NEW c \in Conns, Leave(c)
      PROVE  Effect /\ OwnersRegistered'
  BY <1>4, DroppedEffect DEF Effect
<1>5. ASSUME NEW c \in Conns, Call(c)
      PROVE  Effect /\ OwnersRegistered'
  BY <1>1, <1>5, CallEffect DEF Effect
<1>6. ASSUME NEW c \in Conns,
             \/ PushReply(c) \/ ReaderBreaks(c)
             \/ WriterSends(c) \/ WriterFails(c) \/ ClientGoes(c)
      PROVE  Effect /\ OwnersRegistered'
  BY <1>1, <1>6, ThreadEffect DEF Effect
<1>7. QED
  BY <1>2, <1>3, <1>4, <1>5, <1>6 DEF Next

-----------------------------------------------------------------------------
(* Safety of the tables.  None of the properties is inductive alone: what a  *)
(* coupler's ends declared can only be relied on while they are in the      *)
(* roster, and a fresh process must not take the id of a live one.         *)

(* Process ids are given out in order, and only ids given out are in use,    *)
(* until as many have been given out as there are ids.                     *)
IdsFresh ==
  registrations < IdModulus =>
    /\ nextProcessId = WrappingInc(registrations)
    /\ \A p \in Ids : roster[p] # None => p \in 1 .. registrations

TablesInv ==
  /\ TypeOK
  /\ OwnersRegistered
  /\ CouplerEndsLive
  /\ CouplersAcyclic
  /\ SubscribersLive
  /\ IdsFresh
  /\ OwnersAgree
  /\ CouplersCompatible

(* Removing couplers opens no path: whatever is closed under the edges is     *)
(* closed under fewer of them.                                             *)
LEMMA FewerReach ==
  ASSUME NEW K, NEW J \in SUBSET K, NEW a, NEW b, Reaches(J, a, b)
  PROVE  Reaches(K, a, b)
BY DEF Reaches, ClosedUnder

(* The step of the depth-first search's correctness: an edge whose follower   *)
(* does not reach its master closes no cycle, and no older edge gets onto   *)
(* one through it.                                                         *)
LEMMA EdgeKeepsAcyclic ==
  ASSUME NEW K \in SUBSET Coupler, NEW new \in Coupler,
         \A k \in K : ~Reaches(K, k.follower, k.master),
         new.master # new.follower, ~Reaches(K, new.follower, new.master),
         NEW k \in K \cup {new}
  PROVE  ~Reaches(K \cup {new}, k.follower, k.master)
<1>1. PICK S0 \in SUBSET Ids :
        new.follower \in S0 /\ ClosedUnder(K, S0) /\ new.master \notin S0
  BY DEF Reaches
<1>2. CASE k = new
  BY <1>1, <1>2 DEF Reaches, ClosedUnder
<1>3. CASE k \in K
  <2>1. PICK S1 \in SUBSET Ids :
          k.follower \in S1 /\ ClosedUnder(K, S1) /\ k.master \notin S1
    BY <1>3 DEF Reaches
  <2>2. CASE new.master \notin S1
    BY <2>1, <2>2 DEF Reaches, ClosedUnder
  <2>3. CASE new.master \in S1 /\ k.master \in S0
    <3>1. k.follower \in S0 \cap S1
      BY <1>1, <1>3, <2>1, <2>3 DEF ClosedUnder
    <3>2. ClosedUnder(K \cup {new}, S0 \cap S1)
      BY <1>1, <2>1 DEF ClosedUnder
    <3>3. QED
      BY <2>1, <3>1, <3>2 DEF Reaches
  <2>4. CASE new.master \in S1 /\ k.master \notin S0
    <3>1. k.follower \in S0 \cup S1
      BY <2>1
    <3>2. ClosedUnder(K \cup {new}, S0 \cup S1)
      BY <1>1, <2>1 DEF ClosedUnder
    <3>3. k.master \notin S0 \cup S1
      BY <2>1, <2>4
    <3>4. QED
      BY <3>1, <3>2, <3>3 DEF Reaches
  <2>5. QED
    BY <2>2, <2>3, <2>4
<1>4. QED
  BY <1>2, <1>3

(* A process that registers gets a roster entry, without a focus yet.       *)
LEMMA AddedEntry ==
  ASSUME TypeOK, NEW c \in Conns, NEW profile \in Profiles, Added(c, profile)
  PROVE  /\ roster'[nextProcessId] # None
         /\ roster'[nextProcessId].conn = c
         /\ \A p \in Ids \ {nextProcessId} : roster'[p] = roster[p]
<1> DEFINE entry == [conn |-> c, provides |-> profile.provides,
                     consumes |-> profile.consumes, interest |-> None]
<1>1. entry \in Info
  BY ProfilesAssumption DEF Info
<1>2. entry # None
  BY <1>1, InputsAssumption
<1>3. roster' = [roster EXCEPT ![nextProcessId] = entry] /\ nextProcessId \in Ids
  BY DEF Added, TypeOK
<1>4. entry.conn = c
  OBVIOUS
<1> HIDE DEF entry
<1>5. QED
  BY <1>2, <1>3, <1>4 DEF TypeOK

(* A change of focus changes nothing else of a roster entry.               *)
LEMMA RefocusedEntry ==
  ASSUME TypeOK, Refocused, NEW p \in Ids
  PROVE  /\ roster'[p] = None <=> roster[p] = None
         /\ roster[p] # None => /\ roster'[p].conn = roster[p].conn
                                /\ roster'[p].provides = roster[p].provides
                                /\ roster'[p].consumes = roster[p].consumes
<1>1. PICK q \in Ids, i \in Foci :
        roster[q] # None /\ roster' = [roster EXCEPT ![q].interest = i]
  BY DEF Refocused
<1>2. CASE p # q
  BY <1>1, <1>2 DEF TypeOK
<1>3. CASE p = q
  <2> DEFINE r == [roster[p] EXCEPT !.interest = i]
  <2>1. roster[p] \in Info
    BY <1>1, <1>3 DEF TypeOK
  <2>2. r \in Info /\ r.conn = roster[p].conn
        /\ r.provides = roster[p].provides /\ r.consumes = roster[p].consumes
    BY <2>1 DEF Info
  <2>3. r # None
    BY <2>2, InputsAssumption
  <2>4. roster'[p] = r
    BY <1>1, <1>3 DEF TypeOK
  <2>5. QED
    BY <1>1, <1>3, <2>2, <2>3, <2>4
<1>4. QED
  BY <1>2, <1>3

(* No step leaves a coupler without one of its ends.                        *)
LEMMA EndsStep ==
  ASSUME TypeOK, CouplerEndsLive, Effect
  PROVE  CouplerEndsLive'
<1>1. CASE Untouched
  BY <1>1 DEF Untouched, CouplerEndsLive
<1>2. ASSUME NEW c \in Conns, NEW profile \in Profiles, Added(c, profile)
      PROVE  CouplerEndsLive'
  <2>1. \A p \in Ids : roster[p] # None => roster'[p] # None
    BY <1>2, AddedEntry DEF Added, TypeOK
  <2>2. QED
    BY <1>2, <2>1 DEF Added, TypeOK, Coupler, CouplerEndsLive
<1>3. ASSUME NEW c \in Conns, Dropped(c)
      PROVE  CouplerEndsLive'
  BY <1>3 DEF Dropped, TypeOK, Coupler, CouplerEndsLive
<1>4. CASE Refocused
  BY <1>4, RefocusedEntry DEF Refocused, TypeOK, Coupler, CouplerEndsLive
<1>5. CASE Coupled
  BY <1>5 DEF Coupled, CouplerEndsLive
<1>6. CASE Uncoupled
  BY <1>6 DEF Uncoupled, CouplerEndsLive
<1>7. CASE Resubscribed
  BY <1>7 DEF Resubscribed, CouplerEndsLive
<1>8. QED
  BY <1>1, <1>2, <1>3, <1>4, <1>5, <1>6, <1>7 DEF Effect

(* No step closes a cycle of couplers.                                      *)
LEMMA AcyclicStep ==
  ASSUME TypeOK, CouplersAcyclic, Effect
  PROVE  CouplersAcyclic'
<1>1. CASE couplers' \subseteq couplers
  BY <1>1, FewerReach DEF CouplersAcyclic
<1>2. CASE Coupled
  <2>1. PICK master \in Ids, follower \in Ids, kind \in CouplerKinds :
          /\ ~CreatesCycle(master, follower)
          /\ couplers' = {k \in couplers : k.id # nextCouplerId} \cup
               {[id |-> nextCouplerId, master |-> master, follower |-> follower, kind |-> kind]}
    BY <1>2 DEF Coupled
  <2> DEFINE K == {k \in couplers : k.id # nextCouplerId}
             new == [id |-> nextCouplerId, master |-> master, follower |-> follower,
                     kind |-> kind]
  <2>2. K \in SUBSET Coupler /\ new \in Coupler
    BY DEF TypeOK, Coupler
  <2>3. new.master # new.follower /\ ~Reaches(K, new.follower, new.master)
    BY <2>1, FewerReach DEF CreatesCycle
  <2>4. \A k \in K : ~Reaches(K, k.follower, k.master)
    BY FewerReach DEF CouplersAcyclic
  <2>5. couplers' = K \cup {new}
    BY <2>1
  <2> HIDE DEF K, new
  <2>6. \A k \in K \cup {new} : ~Reaches(K \cup {new}, k.follower, k.master)
    BY <2>2, <2>3, <2>4, EdgeKeepsAcyclic
  <2>7. QED
    BY <2>5, <2>6 DEF CouplersAcyclic
<1>3. couplers' \subseteq couplers \/ Coupled
  BY DEF Effect, Untouched, Added, Dropped, Refocused, Uncoupled, Resubscribed
<1>4. QED
  BY <1>1, <1>2, <1>3

(* No step leaves a subscription of a process that is not in the roster.    *)
LEMMA SubscribersStep ==
  ASSUME TypeOK, SubscribersLive, Effect
  PROVE  SubscribersLive'
<1>1. CASE Untouched \/ Coupled \/ Uncoupled
  BY <1>1 DEF Untouched, Coupled, Uncoupled, SubscribersLive
<1>2. ASSUME NEW c \in Conns, NEW profile \in Profiles, Added(c, profile)
      PROVE  SubscribersLive'
  <2>1. \A p \in Ids : roster[p] # None => roster'[p] # None
    BY <1>2, AddedEntry
  <2>2. QED
    BY <1>2, <2>1 DEF Added, TypeOK, SubscribersLive
<1>3. ASSUME NEW c \in Conns, Dropped(c)
      PROVE  SubscribersLive'
  BY <1>3 DEF Dropped, TypeOK, SubscribersLive
<1>4. CASE Refocused
  BY <1>4, RefocusedEntry DEF Refocused, TypeOK, SubscribersLive
<1>5. CASE Resubscribed
  <2>1. PICK t \in Topics :
          \/ \E p \in Ids : roster[p] # None
               /\ subscriptions' = [subscriptions EXCEPT ![t] = @ \cup {p}]
          \/ \E p \in Ids : subscriptions' = [subscriptions EXCEPT ![t] = @ \ {p}]
    BY <1>5 DEF Resubscribed
  <2>2. roster' = roster
    BY <1>5 DEF Resubscribed
  <2>3. CASE \E p \in Ids : roster[p] # None
               /\ subscriptions' = [subscriptions EXCEPT ![t] = @ \cup {p}]
    <3>1. PICK p \in Ids : roster[p] # None
            /\ subscriptions' = [subscriptions EXCEPT ![t] = subscriptions[t] \cup {p}]
      BY <2>3
    <3>2. \A u \in Topics : subscriptions'[u] \subseteq subscriptions[u] \cup {p}
      BY <3>1 DEF TypeOK
    <3>3. QED
      BY <2>2, <3>1, <3>2 DEF SubscribersLive
  <2>4. CASE \E p \in Ids : subscriptions' = [subscriptions EXCEPT ![t] = @ \ {p}]
    <3>1. PICK p \in Ids :
            subscriptions' = [subscriptions EXCEPT ![t] = subscriptions[t] \ {p}]
      BY <2>4
    <3>2. \A u \in Topics : subscriptions'[u] \subseteq subscriptions[u]
      BY <3>1 DEF TypeOK
    <3>3. QED
      BY <2>2, <3>2 DEF SubscribersLive
  <2>5. QED
    BY <2>1, <2>3, <2>4
<1>6. QED
  BY <1>1, <1>2, <1>3, <1>4, <1>5 DEF Effect

(* Until ids run out, a process that registers gets one nobody has.         *)
LEMMA FreshStep ==
  ASSUME TypeOK, IdsFresh, Effect
  PROVE  IdsFresh'
<1> USE BoundsAssumption
<1>1. ASSUME NEW c \in Conns, NEW profile \in Profiles, Added(c, profile),
             registrations' < IdModulus
      PROVE  /\ nextProcessId' = WrappingInc(registrations')
             /\ \A p \in Ids : roster'[p] # None => p \in 1 .. registrations'
  <2>1. registrations \in Nat /\ registrations' = registrations + 1
    BY <1>1 DEF Added, TypeOK
  <2>2. nextProcessId = registrations + 1
    BY <1>1, <2>1 DEF IdsFresh, WrappingInc
  <2>3. nextProcessId' = WrappingInc(registrations')
    BY <1>1, <2>1, <2>2 DEF Added
  <2>4. \A p \in Ids : roster'[p] # None => p \in 1 .. registrations'
    <3>1. \A p \in Ids : roster[p] # None => p \in 1 .. registrations
      BY <1>1, <2>1 DEF IdsFresh
    <3>2. \A p \in Ids \ {nextProcessId} : roster'[p] = roster[p]
      BY <1>1, AddedEntry
    <3>3. QED
      BY <2>1, <2>2, <3>1, <3>2 DEF Ids
  <2>5. QED
    BY <2>3, <2>4
<1>2. ASSUME NEW c \in Conns, Dropped(c)
      PROVE  IdsFresh'
  BY <1>2 DEF Dropped, TypeOK, IdsFresh
<1>3. CASE Refocused
  BY <1>3, RefocusedEntry DEF Refocused, IdsFresh
<1>4. CASE Untouched \/ Coupled \/ Uncoupled \/ Resubscribed
  BY <1>4 DEF Untouched, Coupled, Uncoupled, Resubscribed, IdsFresh
<1>5. QED
  BY <1>1, <1>2, <1>3, <1>4 DEF Effect, IdsFresh

(* The id a registration takes is nobody's.                                 *)
LEMMA FreshId ==
  ASSUME TypeOK, IdsFresh, NEW c \in Conns, NEW profile \in Profiles, Added(c, profile),
         registrations' < IdModulus
  PROVE  registrations < IdModulus /\ roster[nextProcessId] = None
<1>1. registrations \in Nat /\ registrations' = registrations + 1
  BY BoundsAssumption DEF Added, TypeOK
<1>2. nextProcessId = registrations + 1 /\ nextProcessId \notin 1 .. registrations
  BY <1>1, BoundsAssumption DEF IdsFresh, WrappingInc
<1>3. QED
  BY <1>1, <1>2, BoundsAssumption DEF IdsFresh, TypeOK

(* Connection threads and roster agree after every step.                    *)
LEMMA OwnersStep ==
  ASSUME TypeOK, IdsFresh, OwnersAgree, Effect
  PROVE  OwnersAgree'
<1>1. ASSUME NEW c \in Conns, NEW profile \in Profiles, Added(c, profile),
             registrations' < IdModulus
      PROVE  OwnersAgree'
  <2>1. roster[nextProcessId] = None
        /\ \A p \in Ids, d \in Conns :
             session[d].pid = p <=> roster[p] # None /\ roster[p].conn = d
    BY <1>1, FreshId DEF OwnersAgree
  <2>2. /\ session[c].pid = None /\ session'[c].pid = nextProcessId
        /\ \A d \in Conns \ {c} : session'[d].pid = session[d].pid
        /\ nextProcessId \in Ids
    BY <1>1 DEF Added, TypeOK
  <2>3. ASSUME NEW p \in Ids, NEW d \in Conns
        PROVE  session'[d].pid = p <=> roster'[p] # None /\ roster'[p].conn = d
    <3>1. CASE p = nextProcessId
      BY <1>1, <2>1, <2>2, <3>1, AddedEntry
    <3>2. CASE p # nextProcessId
      BY <1>1, <2>1, <2>2, <3>2, AddedEntry, IdTypes
    <3>3. QED
      BY <3>1, <3>2
  <2>4. QED
    BY <2>3 DEF OwnersAgree
<1>2. ASSUME NEW c \in Conns, Dropped(c), registrations < IdModulus
      PROVE  OwnersAgree'
  <2>1. \A p \in Ids, d \in Conns :
          session[d].pid = p <=> roster[p] # None /\ roster[p].conn = d
    BY <1>2 DEF OwnersAgree
  <2>2. session'[c].pid = None /\ \A d \in Conns \ {c} : session'[d].pid = session[d].pid
    BY <1>2 DEF Dropped
  <2>3. \A p \in Ids : roster'[p] = IF session[c].pid = p THEN None ELSE roster[p]
    BY <1>2, IdTypes DEF Dropped, TypeOK
  <2>4. QED
    BY <2>1, <2>2, <2>3, IdTypes DEF OwnersAgree
<1>3. CASE Refocused
  <2>1. \A p \in Ids : /\ roster'[p] = None <=> roster[p] = None
                       /\ roster[p] # None => roster'[p].conn = roster[p].conn
    BY <1>3, RefocusedEntry
  <2>2. registrations' = registrations /\ \A d \in Conns : session'[d].pid = session[d].pid
    BY <1>3 DEF Refocused, OwnersKept
  <2>3. QED
    BY <2>1, <2>2 DEF OwnersAgree
<1>4. CASE (Untouched /\ OwnersKept) \/ Coupled \/ Uncoupled \/ Resubscribed
  BY <1>4 DEF Untouched, Coupled, Uncoupled, Resubscribed, OwnersKept, OwnersAgree
<1>5. \A c \in Conns : Dropped(c) => registrations' = registrations
  BY DEF Dropped
<1>6. QED
  BY <1>1, <1>2, <1>3, <1>4, <1>5 DEF Effect, OwnersAgree

(* What was checked when a coupler was made holds as long as it is in force. *)
LEMMA CompatibleStep ==
  ASSUME TypeOK, IdsFresh, CouplerEndsLive, CouplersCompatible, Effect
  PROVE  CouplersCompatible'
<1>1. ASSUME NEW c \in Conns, NEW profile \in Profiles, Added(c, profile),
             registrations' < IdModulus
      PROVE  CouplersCompatible'
  <2>1. roster[nextProcessId] = None /\ registrations < IdModulus
    BY <1>1, FreshId
  <2>2. \A p \in Ids : roster[p] # None => roster'[p] = roster[p]
    BY <1>1, <2>1, AddedEntry
  <2>3. couplers' = couplers /\ \A k \in couplers : k.master \in Ids /\ k.follower \in Ids
    BY <1>1 DEF Added, TypeOK, Coupler
  <2>4. QED
    BY <2>1, <2>2, <2>3 DEF CouplersCompatible
<1>2. ASSUME NEW c \in Conns, Dropped(c)
      PROVE  CouplersCompatible'
  <2>1. \A k \in couplers' : /\ k \in couplers
                             /\ roster'[k.master] = roster[k.master]
                             /\ roster'[k.follower] = roster[k.follower]
    BY <1>2 DEF Dropped, TypeOK, Coupler
  <2>2. registrations' = registrations
    BY <1>2 DEF Dropped
  <2>3. QED
    BY <2>1, <2>2 DEF CouplersCompatible
<1>3. CASE Refocused
  <2>1. couplers' = couplers /\ registrations' = registrations
    BY <1>3 DEF Refocused
  <2>2. \A p \in Ids : roster[p] # None =>
          /\ roster'[p] # None
          /\ roster'[p].provides = roster[p].provides
          /\ roster'[p].consumes = roster[p].consumes
    BY <1>3, RefocusedEntry
  <2>3. \A k \in couplers : k.master \in Ids /\ k.follower \in Ids
    BY DEF TypeOK, Coupler
  <2>4. QED
    BY <2>1, <2>2, <2>3 DEF CouplersCompatible
<1>4. CASE Coupled
  <2>1. PICK master \in Ids, follower \in Ids, kind \in CouplerKinds :
          /\ roster[master] # None /\ roster[follower] # None
          /\ Compatible(kind, roster[master].provides, roster[follower].consumes)
          /\ couplers' = {k \in couplers : k.id # nextCouplerId} \cup
               {[id |-> nextCouplerId, master |-> master, follower |-> follower, kind |-> kind]}
    BY <1>4 DEF Coupled
  <2>2. roster' = roster /\ registrations' = registrations
    BY <1>4 DEF Coupled
  <2>3. QED
    BY <2>1, <2>2 DEF CouplersCompatible, Compatible
<1>5. CASE Untouched \/ Uncoupled \/ Resubscribed
  BY <1>5 DEF Untouched, Uncoupled, Resubscribed, CouplersCompatible
<1>6. QED
  BY <1>1, <1>2, <1>3, <1>4, <1>5 DEF Effect, CouplersCompatible

(* The daemon starts with empty tables.                                     *)
LEMMA InitTables == Init => TablesInv
<1> SUFFICES ASSUME Init PROVE TablesInv
  OBVIOUS
<1>1. TypeOK
  BY InitType
<1>2. IdsFresh
  BY BoundsAssumption DEF Init, IdsFresh, WrappingInc
<1>3. OwnersAgree
  BY IdTypes DEF Init, OwnersAgree
<1>4. OwnersRegistered
  BY DEF Init, OwnersRegistered
<1>5. CouplerEndsLive /\ CouplersAcyclic /\ CouplersCompatible
  BY DEF Init, CouplerEndsLive, CouplersAcyclic, CouplersCompatible
<1>6. SubscribersLive
  BY DEF Init, SubscribersLive
<1>7. QED
  BY <1>1, <1>2, <1>3, <1>4, <1>5, <1>6 DEF TablesInv

(* Every step keeps the tables as they should be.                           *)
LEMMA NextTables == TablesInv /\ [Next]_vars => TablesInv'
<1> SUFFICES ASSUME TablesInv, [Next]_vars PROVE TablesInv'
  OBVIOUS
<1>1. TypeOK' /\ Effect /\ OwnersRegistered'
  BY NextType, NextEffect DEF TablesInv
<1>2. CouplerEndsLive' /\ CouplersAcyclic' /\ SubscribersLive' /\ IdsFresh'
  BY <1>1, EndsStep, AcyclicStep, SubscribersStep, FreshStep DEF TablesInv
<1>3. OwnersAgree' /\ CouplersCompatible'
  BY <1>1, OwnersStep, CompatibleStep DEF TablesInv
<1>4. QED
  BY <1>1, <1>2, <1>3 DEF TablesInv

(* The tables are as they should be in every reachable state.               *)
LEMMA TablesCorrect == Spec => []TablesInv
BY InitTables, NextTables, PTL DEF Spec

(* No coupler outlives a process it connects, whatever the clients do and    *)
(* even when process ids are used again (State::unregister).               *)
THEOREM EndsLive == Spec => []CouplerEndsLive
<1>1. TablesInv => CouplerEndsLive
  BY DEF TablesInv
<1>2. QED
  BY <1>1, TablesCorrect, PTL

(* The check made when a coupler is created keeps the whole graph acyclic,   *)
(* with any number of processes and couplers (coupler_creates_cycle).      *)
THEOREM GraphAcyclic == Spec => []CouplersAcyclic
<1>1. TablesInv => CouplersAcyclic
  BY DEF TablesInv
<1>2. QED
  BY <1>1, TablesCorrect, PTL

(* Nothing stays subscribed for a process that left (State::unregister).    *)
THEOREM SubscribersInRoster == Spec => []SubscribersLive
<1>1. TablesInv => SubscribersLive
  BY DEF TablesInv
<1>2. QED
  BY <1>1, TablesCorrect, PTL

(* Until the ids run out, connection threads and roster agree on who owns    *)
(* which process (handle_register, Command::Unregister).                   *)
THEOREM OwnersCorrect == Spec => []OwnersAgree
<1>1. TablesInv => OwnersAgree
  BY DEF TablesInv
<1>2. QED
  BY <1>1, TablesCorrect, PTL

(* Until the ids run out, a coupler in force connects processes whose         *)
(* declarations fit its kind (coupler_kind_compat, coupler_create).        *)
THEOREM CompatibleInForce == Spec => []CouplersCompatible
<1>1. TablesInv => CouplersCompatible
  BY DEF TablesInv
<1>2. QED
  BY <1>1, TablesCorrect, PTL

=============================================================================
