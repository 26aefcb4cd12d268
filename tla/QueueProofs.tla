----------------------------- MODULE QueueProofs -----------------------------
(***************************************************************************)
(* What the outbound queues bring to the clients, for any number of          *)
(* connections and couplers and any depth of the queues.  Until ids run out: *)
(* the answer to coupler.remove is a barrier, since an id whose removal has   *)
(* been answered is not in use again, so that nothing that is queued         *)
(* afterwards bears it; a follower to which every notification got through    *)
(* has been sent the current focus of each of its masters; and a client that  *)
(* subscribed before it asked for the roster can tell it at any time.        *)
(***************************************************************************)
EXTENDS CoordinationProofs

(* One coupler has an id at a time, and until ids run out none has had it      *)
(* before.                                                                  *)
CouplerIdsFresh ==
  /\ \A k, l \in couplers : k.id = l.id => k = l
  /\ creations < IdModulus =>
       /\ nextCouplerId = WrappingInc(creations)
       /\ \A k \in couplers : k.id \in 1 .. creations

(* The ids that have been given out and taken back. *)
Withdrawn == {id \in 1 .. creations : \A k \in couplers : k.id # id}

(* A queue in which what is removed has been withdrawn, and stays so.         *)
Barred(q, W) ==
  /\ \A n \in 1 .. Len(q) : q[n].type = "removed" => q[n].coupler \in W
  /\ \A m, n \in 1 .. Len(q) :
       m < n /\ q[m].type = "removed" /\ q[n].type = "coupler_update" => q[m].coupler # q[n].coupler

(* Notifications that answer nothing and concern no coupler that is gone.     *)
Harmless(b, W) ==
  \A n \in 1 .. Len(b) :
    b[n].type # "removed" /\ (b[n].type = "coupler_update" => b[n].coupler \notin W)

Answering(c) == session[c].pc \in {"replying", "last_reply"}

RemovalsSound ==
  creations < IdModulus =>
    \A c \in Conns :
      /\ Barred(outbound[c], Withdrawn)
      /\ Answering(c) /\ session[c].reply.type = "removed" => session[c].reply.coupler \in Withdrawn

RemovalInv == TypeOK /\ CouplerIdsFresh /\ RemovalsSound

-----------------------------------------------------------------------------
(* Queues. *)

(* Harmless notifications keep a queue barred, however many are dropped.    *)
LEMMA BarredOffer ==
  ASSUME NEW q \in Seq(Messages), NEW b \in Seq(Messages), NEW W, Barred(q, W), Harmless(b, W)
  PROVE  Barred(Offer(q, b), W)
<1> DEFINE all == q \o b
<1>1. /\ all \in Seq(Messages) /\ Len(all) = Len(q) + Len(b) /\ Len(q) \in Nat /\ Len(b) \in Nat
      /\ \A i \in 1 .. Len(q) + Len(b) : all[i] = IF i <= Len(q) THEN q[i] ELSE b[i - Len(q)]
  BY ConcatProperties
<1> HIDE DEF all
<1>2. \A i \in 1 .. Len(all) :
        \/ i \in 1 .. Len(q) /\ all[i] = q[i]
        \/ /\ i > Len(q) /\ all[i].type # "removed"
           /\ all[i].type = "coupler_update" => all[i].coupler \notin W
  <2> SUFFICES ASSUME NEW i \in 1 .. Len(all), ~(i \in 1 .. Len(q) /\ all[i] = q[i])
               PROVE  /\ i > Len(q) /\ all[i].type # "removed"
                      /\ all[i].type = "coupler_update" => all[i].coupler \notin W
    OBVIOUS
  <2>1. i > Len(q) /\ i - Len(q) \in 1 .. Len(b) /\ all[i] = b[i - Len(q)]
    BY <1>1
  <2>2. QED
    BY <2>1 DEF Harmless
<1>3. Barred(all, W)
  <2>1. \A n \in 1 .. Len(all) : all[n].type = "removed" => n \in 1 .. Len(q) /\ all[n] = q[n]
    BY <1>2
  <2>2. \A n \in 1 .. Len(all) : all[n].type = "removed" => all[n].coupler \in W
    BY <2>1 DEF Barred
  <2>3. ASSUME NEW m \in 1 .. Len(all), NEW n \in 1 .. Len(all), m < n,
               all[m].type = "removed", all[n].type = "coupler_update"
        PROVE  all[m].coupler # all[n].coupler
    <3>1. CASE n \in 1 .. Len(q) /\ all[n] = q[n]
      BY <2>1, <2>3, <3>1 DEF Barred
    <3>2. CASE all[n].coupler \notin W
      BY <2>2, <2>3, <3>2
    <3>3. QED
      BY <1>2, <2>3, <3>1, <3>2
  <2>4. QED
    BY <2>2, <2>3 DEF Barred
<1>4. CASE Len(all) <= Depth
  BY <1>3, <1>4 DEF Offer, all
<1>5. CASE ~(Len(all) <= Depth)
  <2>1. Depth \in Nat /\ Depth \in 1 .. Len(all)
    BY <1>1, <1>5, BoundsAssumption
  <2>2. \A i \in 1 .. Depth : all[i] \in Messages
    BY <1>1, <2>1, ElementOfSeq
  <2>3. /\ Len(SubSeq(all, 1, Depth)) = IF 1 <= Depth THEN Depth - 1 + 1 ELSE 0
        /\ \A i \in 1 .. Depth - 1 + 1 : SubSeq(all, 1, Depth)[i] = all[1 + i - 1]
    BY <2>1, <2>2, SubSeqProperties
  <2>4. Len(SubSeq(all, 1, Depth)) = Depth /\ Depth - 1 + 1 = Depth
    BY <2>1, <2>3
  <2>5. \A i \in 1 .. Depth : i \in 1 .. Len(all) /\ 1 + i - 1 = i
    BY <1>1, <2>1
  <2>6. \A i \in 1 .. Depth : SubSeq(all, 1, Depth)[i] = all[i] /\ i \in 1 .. Len(all)
    BY <2>3, <2>4, <2>5
  <2>7. Barred(SubSeq(all, 1, Depth), W)
    <3> DEFINE s == SubSeq(all, 1, Depth)
    <3>1. Len(s) = Depth /\ \A i \in 1 .. Depth : s[i] = all[i] /\ i \in 1 .. Len(all)
      BY <2>4, <2>6
    <3> HIDE DEF s
    <3>2. \A n \in 1 .. Len(s) : s[n] = all[n] /\ n \in 1 .. Len(all)
      BY Zenon, <3>1
    <3>3. \A n \in 1 .. Len(s) : s[n].type = "removed" => s[n].coupler \in W
      BY Zenon, <1>3, <3>2 DEF Barred
    <3>4. ASSUME NEW m \in 1 .. Len(s), NEW n \in 1 .. Len(s),
                 m < n, s[m].type = "removed", s[n].type = "coupler_update"
          PROVE  s[m].coupler # s[n].coupler
      <4>1. s[m] = all[m] /\ m \in 1 .. Len(all) /\ s[n] = all[n] /\ n \in 1 .. Len(all)
        BY Zenon, <3>2
      <4>2. QED
        BY Zenon, <1>3, <3>4, <4>1 DEF Barred
    <3>5. QED
      BY Zenon, <3>3, <3>4 DEF Barred, s
  <2>8. QED
    BY <1>5, <2>7 DEF Offer, all
<1>6. QED
  BY <1>4, <1>5

(* So does an answer, if what it says is removed has been withdrawn.        *)
LEMMA BarredAppend ==
  ASSUME NEW q \in Seq(Messages), NEW m \in Messages, NEW W, Barred(q, W),
         m.type = "removed" => m.coupler \in W, m.type # "coupler_update"
  PROVE  Barred(Append(q, m), W)
<1>1. /\ Len(Append(q, m)) = Len(q) + 1 /\ Len(q) \in Nat
      /\ \A i \in 1 .. Len(q) : Append(q, m)[i] = q[i]
      /\ Append(q, m)[Len(q) + 1] = m
  BY AppendProperties
<1>2. \A i \in 1 .. Len(q) + 1 : i \in 1 .. Len(q) \/ i = Len(q) + 1
  BY <1>1
<1>3. \A i \in 1 .. Len(q) + 1 :
        \/ i \in 1 .. Len(q) /\ Append(q, m)[i] = q[i]
        \/ i = Len(q) + 1 /\ Append(q, m)[i] = m
  BY <1>1, <1>2
<1>4. \A n \in 1 .. Len(q) + 1 : Append(q, m)[n].type = "removed" => Append(q, m)[n].coupler \in W
  BY <1>3 DEF Barred
<1>5. ASSUME NEW i \in 1 .. Len(q) + 1, NEW n \in 1 .. Len(q) + 1, i < n,
             Append(q, m)[i].type = "removed", Append(q, m)[n].type = "coupler_update"
      PROVE  Append(q, m)[i].coupler # Append(q, m)[n].coupler
  <2>1. n \in 1 .. Len(q) /\ Append(q, m)[n] = q[n]
    BY <1>3, <1>5
  <2>2. i \in 1 .. Len(q)
    BY <1>1, <1>5, <2>1
  <2>3. QED
    BY <1>1, <1>5, <2>1, <2>2 DEF Barred
<1>6. QED
  BY <1>1, <1>4, <1>5 DEF Barred

(* So does a message that is sent.                                          *)
LEMMA BarredTail ==
  ASSUME NEW q \in Seq(Messages), NEW W, Barred(q, W), q # <<>>
  PROVE  Barred(Tail(q), W)
<1>1. /\ Len(Tail(q)) = Len(q) - 1 /\ Len(q) \in Nat
      /\ \A i \in 1 .. Len(Tail(q)) : Tail(q)[i] = q[i + 1]
  BY HeadTailProperties
<1>2. \A i \in 1 .. Len(Tail(q)) : Tail(q)[i] = q[i + 1] /\ i + 1 \in 1 .. Len(q)
  BY <1>1
<1>3. \A m, n \in 1 .. Len(Tail(q)) : m < n => m + 1 < n + 1
  BY <1>1
<1>4. QED
  BY <1>2, <1>3 DEF Barred

(* A queue stays barred as more ids are withdrawn.                          *)
LEMMA BarredMore ==
  ASSUME NEW q, NEW W, NEW V, W \subseteq V, Barred(q, W)
  PROVE  Barred(q, V)
BY DEF Barred

-----------------------------------------------------------------------------
(* The ids of couplers. *)

(* What a step does to the couplers and their ids. *)
Fewer == couplers' \subseteq couplers /\ UNCHANGED <<nextCouplerId, creations>>
OneMore ==
  /\ \E new \in Coupler :
       new.id = nextCouplerId /\ couplers' = {k \in couplers : k.id # nextCouplerId} \cup {new}
  /\ nextCouplerId' = WrappingInc(nextCouplerId)
  /\ creations' = creations + 1

(* A step takes couplers away or makes one, under the next id.              *)
LEMMA CouplersMove ==
  ASSUME TypeOK, Next
  PROVE  Fewer \/ OneMore
<1>1. PICK c \in Conns :
        \/ Handshake(c) \/ Call(c) \/ PushReply(c) \/ ReaderBreaks(c) \/ Leave(c)
        \/ WriterSends(c) \/ WriterFails(c) \/ ClientGoes(c)
  BY DEF Next
<1> USE DEF stateThread, counts
<1>2. CASE Handshake(c) \/ Leave(c)
  BY <1>2 DEF Handshake, Register, Unregister, Leave, DropProcess, Fewer
<1>3. CASE Call(c)
  <2>1. ASSUME NEW master \in Ids, NEW follower \in Ids, NEW kind \in UsedKinds,
               CouplerCreate(c, master, follower, kind)
        PROVE  Fewer \/ OneMore
    <3>1. [id |-> nextCouplerId, master |-> master, follower |-> follower, kind |-> kind] \in Coupler
      BY InputsAssumption DEF Coupler, TypeOK
    <3>2. QED
      BY <2>1, <3>1 DEF CouplerCreate, Fewer, OneMore
  <2>2. QED
    BY <1>3, <2>1
       DEF Call, Refuse, HandlerPanics, UpdateLabel, RosterSnapshot, PublishInterest, CouplerRemove,
           Subscribe, Unsubscribe, Fewer
<1>4. CASE PushReply(c) \/ ReaderBreaks(c) \/ WriterSends(c) \/ WriterFails(c) \/ ClientGoes(c)
  BY <1>4 DEF PushReply, ReaderBreaks, WriterSends, WriterFails, ClientGoes, Fewer
<1>5. QED
  BY <1>1, <1>2, <1>3, <1>4

(* Until ids run out an id is given out once, and stays withdrawn.          *)
LEMMA FreshKept ==
  ASSUME TypeOK, CouplerIdsFresh, Next
  PROVE  CouplerIdsFresh' /\ (creations' < IdModulus => creations < IdModulus /\ Withdrawn \subseteq Withdrawn')
<1>1. creations \in Nat /\ IdModulus \in Nat /\ IdModulus > 1
  BY BoundsAssumption DEF TypeOK
<1>2. CASE Fewer
  BY <1>2 DEF Fewer, CouplerIdsFresh, Withdrawn
<1>3. CASE OneMore
  <2>1. PICK new \in Coupler :
          new.id = nextCouplerId /\ couplers' = {k \in couplers : k.id # nextCouplerId} \cup {new}
    BY <1>3 DEF OneMore
  <2>2. creations' = creations + 1 /\ nextCouplerId' = WrappingInc(nextCouplerId)
    BY <1>3 DEF OneMore
  <2>3. \A k, l \in couplers' : k.id = l.id => k = l
    BY <2>1 DEF CouplerIdsFresh
  <2>4. ASSUME creations' < IdModulus
        PROVE  /\ creations < IdModulus /\ nextCouplerId = creations + 1
               /\ nextCouplerId' = WrappingInc(creations')
               /\ \A k \in couplers' : k.id \in 1 .. creations'
               /\ Withdrawn \subseteq Withdrawn'
    <3>1. creations < IdModulus /\ nextCouplerId = creations + 1
      BY <1>1, <2>2, <2>4 DEF CouplerIdsFresh, WrappingInc
    <3>2. \A k \in couplers : k.id \in 1 .. creations
      BY <3>1 DEF CouplerIdsFresh
    <3>3. \A k \in couplers' : k.id \in 1 .. creations'
      BY <1>1, <2>1, <2>2, <3>1, <3>2
    <3>4. ASSUME NEW id \in Withdrawn
          PROVE  id \in Withdrawn'
      <4>1. id \in 1 .. creations /\ \A k \in couplers : k.id # id
        BY <3>4 DEF Withdrawn
      <4>2. id \in 1 .. creations' /\ id # nextCouplerId
        BY <1>1, <2>2, <3>1, <4>1
      <4>3. \A k \in couplers' : k.id # id
        BY <2>1, <4>1, <4>2
      <4>4. QED
        BY <4>2, <4>3 DEF Withdrawn
    <3>5. QED
      BY <2>2, <3>1, <3>3, <3>4
  <2>5. QED
    BY <2>3, <2>4 DEF CouplerIdsFresh
<1>4. QED
  BY <1>2, <1>3, CouplersMove

-----------------------------------------------------------------------------
(* What a step does to a queue. *)

Offered(d) ==
  \/ outbound'[d] = outbound[d]
  \/ \E b \in Seq(Messages) : Harmless(b, Withdrawn) /\ outbound'[d] = Offer(outbound[d], b)

(* What a step offers a queue, by action.                                   *)
LEMMA TrySendOffers ==
  ASSUME NEW batch \in [Conns -> Seq(Messages)], TrySend(batch), NEW d \in Conns,
         Harmless(batch[d], Withdrawn)
  PROVE  Offered(d)
BY DEF TrySend, Offered

(* An event concerns no coupler.                                            *)
LEMMA BroadcastOffers ==
  ASSUME NEW R, NEW topic, NEW m \in Messages, m.type = "roster_changed", Broadcast(R, topic, m),
         NEW d \in Conns
  PROVE  Offered(d)
<1> DEFINE b == [c \in Conns |->
       IF \E p \in subscriptions'[topic] : R[p] # None /\ R[p].conn = c THEN <<m>> ELSE <<>>]
<1>1. <<m>> \in Seq(Messages) /\ <<>> \in Seq(Messages) /\ Len(<<m>>) = 1 /\ <<m>>[1] = m /\ Len(<<>>) = 0
  OBVIOUS
<1>2. Harmless(<<m>>, Withdrawn) /\ Harmless(<<>>, Withdrawn)
  BY <1>1 DEF Harmless
<1>3. b \in [Conns -> Seq(Messages)] /\ Harmless(b[d], Withdrawn)
  BY <1>1, <1>2
<1>4. TrySend(b)
  BY DEF Broadcast
<1> HIDE DEF b
<1>5. QED
  BY <1>3, <1>4, TrySendOffers

(* A process that leaves is an event.                                       *)
LEMMA DropOffers ==
  ASSUME NEW p \in Ids, DropProcess(p), NEW d \in Conns
  PROVE  Offered(d)
<1>1. Event("unregistered", p) \in Messages /\ Event("unregistered", p).type = "roster_changed"
  BY MessageTypes DEF Events, Event
<1>2. QED
  BY <1>1, BroadcastOffers DEF DropProcess, Offered

(* The updates of a publication are to couplers in force. *)
LEMMA PublishOffers ==
  ASSUME TypeOK, NEW c \in Conns, NEW i \in Foci, PublishInterest(c, i), NEW d \in Conns
  PROVE  Offered(d)
<1>1. PICK D \in SUBSET couplers : \E b \in Batches(D, i) : TrySend(b)
  BY DEF PublishInterest, LedBy
<1>2. PICK b \in Batches(D, i) : TrySend(b)
  BY <1>1
<1>3. b \in [Conns -> Seq(Messages)]
  BY <1>1, BatchType
<1>4. Harmless(b[d], Withdrawn)
  <2>1. PICK n \in 0 .. MaxCouplers : b[d] \in [1 .. n -> UpdatesTo(d, D, i)]
    BY DEF Batches, Orders
  <2>2. Len(b[d]) = n
    BY <1>3, <2>1, BoundsAssumption, LenProperties
  <2>3. ASSUME NEW j \in 1 .. Len(b[d])
        PROVE  b[d][j].type # "removed" /\ b[d][j].coupler \notin Withdrawn
    <3>1. b[d][j] \in UpdatesTo(d, D, i)
      BY <2>1, <2>2
    <3>2. PICK k \in D : b[d][j] = Update(k.id, i)
      BY <3>1 DEF UpdatesTo
    <3>3. QED
      BY <3>2 DEF Update, Withdrawn
  <2>4. QED
    BY <2>3 DEF Harmless
<1>5. QED
  BY <1>2, <1>3, <1>4, TrySendOffers

(* The first update of a coupler bears an id that nobody had. *)
LEMMA CreateOffers ==
  ASSUME TypeOK, CouplerIdsFresh, creations < IdModulus, NEW c \in Conns, NEW master \in Ids,
         NEW follower \in Ids, NEW kind \in UsedKinds, CouplerCreate(c, master, follower, kind),
         NEW d \in Conns
  PROVE  Offered(d)
<1> DEFINE focus == roster[master].interest
           first == Update(nextCouplerId, focus)
           update == [e \in Conns |-> IF e = roster[follower].conn THEN <<first>> ELSE <<>>]
<1>1. \/ UNCHANGED outbound
      \/ focus # None /\ roster[master] # None /\ TrySend(update)
  BY DEF CouplerCreate
<1>2. CASE UNCHANGED outbound
  BY <1>2 DEF Offered
<1>3. CASE focus # None /\ roster[master] # None /\ TrySend(update)
  <2>1. focus \in Foci
    BY <1>3 DEF TypeOK, Info
  <2>2. first \in Messages
    BY <2>1, MessageTypes DEF TypeOK
  <2>3. nextCouplerId \notin Withdrawn
    BY BoundsAssumption DEF TypeOK, CouplerIdsFresh, WrappingInc, Withdrawn
  <2>4. first.type = "coupler_update" /\ first.coupler = nextCouplerId
    BY DEF Update
  <2> HIDE DEF first
  <2>5. <<first>> \in Seq(Messages) /\ <<>> \in Seq(Messages)
        /\ Len(<<first>>) = 1 /\ <<first>>[1] = first /\ Len(<<>>) = 0
    BY <2>2
  <2>6. Harmless(<<first>>, Withdrawn) /\ Harmless(<<>>, Withdrawn)
    BY <2>3, <2>4, <2>5 DEF Harmless
  <2>7. update \in [Conns -> Seq(Messages)] /\ Harmless(update[d], Withdrawn)
    BY <2>5, <2>6
  <2> HIDE DEF update
  <2>8. QED
    BY <1>3, <2>7, TrySendOffers
<1>4. QED
  BY <1>1, <1>2, <1>3

(* Every call offers notifications that do no harm.                         *)
LEMMA CallOffers ==
  ASSUME TypeOK, CouplerIdsFresh, creations < IdModulus, NEW c \in Conns, Call(c), NEW d \in Conns
  PROVE  Offered(d)
<1>1. CASE UpdateLabel(c)
  <2>1. session[c].pid \in Ids
    BY <1>1 DEF UpdateLabel, Registered, TypeOK, Session
  <2>2. /\ Event("label_updated", session[c].pid) \in Messages
        /\ Event("label_updated", session[c].pid).type = "roster_changed"
    BY <2>1, MessageTypes DEF Events, Event
  <2>3. QED
    BY <1>1, <2>2, BroadcastOffers DEF UpdateLabel, Offered
<1>2. ASSUME NEW i \in Foci, PublishInterest(c, i)
      PROVE  Offered(d)
  BY <1>2, PublishOffers
<1>3. ASSUME NEW master \in Ids, NEW follower \in Ids, NEW kind \in UsedKinds,
             CouplerCreate(c, master, follower, kind)
      PROVE  Offered(d)
  BY <1>3, CreateOffers
<1>4. ASSUME \/ Refuse(c) \/ HandlerPanics(c) \/ RosterSnapshot(c)
             \/ \E k \in couplers : CouplerRemove(c, k)
             \/ \E topic \in UsedTopics : Subscribe(c, topic) \/ Unsubscribe(c, topic)
      PROVE  Offered(d)
  BY <1>4 DEF Refuse, HandlerPanics, RosterSnapshot, CouplerRemove, Subscribe, Unsubscribe, Offered
<1>5. QED
  BY <1>1, <1>2, <1>3, <1>4 DEF Call

(* A queue is offered notifications, loses its head, or is given an answer. *)
LEMMA QueueMoves ==
  ASSUME TypeOK, CouplerIdsFresh, creations < IdModulus, Next, NEW d \in Conns
  PROVE  \/ Offered(d)
         \/ outbound'[d] = <<>>
         \/ outbound[d] # <<>> /\ outbound'[d] = Tail(outbound[d])
         \/ Answering(d) /\ outbound'[d] = Append(outbound[d], session[d].reply)
<1>0. outbound \in [Conns -> Seq(Messages)] /\ session \in [Conns -> Session]
  BY DEF TypeOK
<1>1. PICK c \in Conns :
        \/ Handshake(c) \/ Call(c) \/ PushReply(c) \/ ReaderBreaks(c) \/ Leave(c)
        \/ WriterSends(c) \/ WriterFails(c) \/ ClientGoes(c)
  BY DEF Next
<1>2. CASE Handshake(c)
  <2>1. ASSUME NEW profile \in Profiles, Register(c, profile)
        PROVE  Offered(d)
    <3>1. /\ Event("registered", nextProcessId) \in Messages
          /\ Event("registered", nextProcessId).type = "roster_changed"
      BY MessageTypes DEF Events, Event, TypeOK
    <3>2. QED
      BY <2>1, <3>1, BroadcastOffers DEF Register
  <2>2. CASE Unregister(c)
    <3>1. session[c].pid \in Ids
      BY <1>0, <2>2 DEF Unregister, Registered, Session
    <3>2. QED
      BY <2>2, <3>1, DropOffers DEF Unregister
  <2>3. QED
    BY <1>2, <2>1, <2>2 DEF Handshake
<1>3. CASE Call(c)
  BY <1>3, CallOffers
<1>4. CASE Leave(c)
  <2>1. session[c].pid = None \/ session[c].pid \in Ids
    BY <1>0 DEF Session
  <2>2. QED
    BY <1>4, <2>1, DropOffers DEF Leave, Offered
<1>5. CASE PushReply(c)
  BY <1>0, <1>5 DEF PushReply, Answering, Offered
<1>6. CASE WriterSends(c) \/ WriterFails(c)
  BY <1>0, <1>6 DEF WriterSends, WriterFails, Offered
<1>7. CASE ReaderBreaks(c) \/ ClientGoes(c)
  BY <1>7 DEF ReaderBreaks, ClientGoes, Offered
<1>8. QED
  BY <1>1, <1>2, <1>3, <1>4, <1>5, <1>6, <1>7

(* What a thread is about to queue. *)
LEMMA RepliesMove ==
  ASSUME TypeOK, CouplerIdsFresh, creations < IdModulus, Next, NEW d \in Conns, Answering(d)',
         session'[d].reply.type = "removed"
  PROVE  \/ session'[d] = session[d]
         \/ creations' = creations /\ session'[d].reply.coupler \in Withdrawn'
<1>0. session \in [Conns -> Session]
  BY DEF TypeOK
<1>1. PICK c \in Conns :
        \/ Handshake(c) \/ Call(c) \/ PushReply(c) \/ ReaderBreaks(c) \/ Leave(c)
        \/ WriterSends(c) \/ WriterFails(c) \/ ClientGoes(c)
  BY DEF Next
<1> USE DEF Answering, Answer, Ok, Refusal, Snapshot, Removed
<1>2. CASE Handshake(c) \/ Leave(c)
  <2>2. ASSUME NEW profile \in Profiles, Register(c, profile)
        PROVE  session'[d] = session[d]
    <3>2. session'[c].reply = Ok
      BY <1>0, <2>2 DEF Register
    <3>3. QED
      BY <1>0, <2>2, <3>2 DEF Register
  <2>3. ASSUME Unregister(c)
        PROVE  session'[d] = session[d]
    <3>1. session'[c].reply = Ok
      BY <1>0, <2>3 DEF Unregister, Session
    <3>2. QED
      BY <1>0, <2>3, <3>1 DEF Unregister
  <2>4. ASSUME Leave(c)
        PROVE  session'[d] = session[d]
    <3>1. session'[c].pc = "done"
      BY <1>0, <2>4 DEF Leave, Session
    <3>2. QED
      BY <1>0, <2>4, <3>1 DEF Leave
  <2>5. QED
    BY <1>2, <2>2, <2>3, <2>4 DEF Handshake
<1>3. CASE PushReply(c) \/ ReaderBreaks(c)
  <2>1. session'[c].pc \in {"reading", "leaving"}
    BY <1>0, <1>3 DEF PushReply, ReaderBreaks, Session
  <2>2. d # c => session'[d] = session[d]
    BY <1>0, <1>3 DEF PushReply, ReaderBreaks
  <2>3. QED
    BY <2>1, <2>2
<1>4. CASE WriterSends(c) \/ WriterFails(c) \/ ClientGoes(c)
  BY <1>4 DEF WriterSends, WriterFails, ClientGoes
<1>5. CASE Call(c)
  <2>1. ASSUME NEW k \in couplers, CouplerRemove(c, k)
        PROVE  session'[d] = session[d]
               \/ (creations' = creations /\ session'[d].reply.coupler \in Withdrawn')
    <3>1. k.id \in 1 .. creations /\ couplers' = couplers \ {k} /\ creations' = creations
      BY <2>1 DEF CouplerIdsFresh, CouplerRemove, counts
    <3>2. k.id \in Withdrawn'
      BY <3>1 DEF Withdrawn, CouplerIdsFresh
    <3>3. QED
      BY <1>0, <2>1, <3>1, <3>2 DEF CouplerRemove
  <2>2. ASSUME NEW reply \in {Ok, Refusal, Snapshot(Live)}, Answer(c, reply)
        PROVE  session'[d] = session[d]
    BY <1>0, <2>2
  <2>3. CASE UNCHANGED session
    BY <2>3
  <2>4. CASE HandlerPanics(c)
    BY <1>0, <2>4 DEF HandlerPanics
  <2>5. QED
    BY <1>5, <2>1, <2>2, <2>3, <2>4
       DEF Call, Refuse, UpdateLabel, RosterSnapshot, PublishInterest, CouplerCreate, Subscribe, Unsubscribe
<1>6. QED
  BY <1>1, <1>2, <1>3, <1>4, <1>5

-----------------------------------------------------------------------------
(* Every step keeps the barrier.                                            *)
LEMMA RemovalStep == RemovalInv /\ [Next]_vars => RemovalInv'
<1> SUFFICES ASSUME RemovalInv, [Next]_vars PROVE RemovalInv'
  OBVIOUS
<1>1. TypeOK'
  BY NextType DEF RemovalInv
<1>2. CASE Next
  <2>1. /\ CouplerIdsFresh'
        /\ creations' < IdModulus => creations < IdModulus /\ Withdrawn \subseteq Withdrawn'
    BY <1>2, FreshKept DEF RemovalInv
  <2>2. ASSUME creations' < IdModulus, NEW d \in Conns
        PROVE  /\ Barred(outbound'[d], Withdrawn')
               /\ Answering(d)' /\ session'[d].reply.type = "removed" =>
                    session'[d].reply.coupler \in Withdrawn'
    <3>1. /\ Barred(outbound[d], Withdrawn) /\ outbound[d] \in Seq(Messages)
          /\ Answering(d) /\ session[d].reply.type = "removed" => session[d].reply.coupler \in Withdrawn
          /\ creations < IdModulus
      BY <2>1, <2>2 DEF RemovalInv, RemovalsSound, TypeOK
    <3>2. Barred(outbound'[d], Withdrawn)
      <4>1. CASE Offered(d)
        BY <3>1, <4>1, BarredOffer DEF Offered
      <4>2. CASE outbound'[d] = <<>>
        <5>1. Len(<<>>) = 0
          OBVIOUS
        <5>2. QED
          BY <4>2, <5>1 DEF Barred
      <4>3. CASE outbound[d] # <<>> /\ outbound'[d] = Tail(outbound[d])
        BY <3>1, <4>3, BarredTail
      <4>4. CASE Answering(d) /\ outbound'[d] = Append(outbound[d], session[d].reply)
        <5>1. session[d].reply \in Replies
          BY <4>4 DEF Answering, RemovalInv, TypeOK, Session
        <5>2. session[d].reply \in Messages /\ session[d].reply.type # "coupler_update"
          BY <5>1 DEF Messages, Replies, Ok, Refusal, Snapshot, Removed
        <5>3. QED
          BY <3>1, <4>4, <5>2, BarredAppend
      <4>5. QED
        BY <1>2, <3>1, <4>1, <4>2, <4>3, <4>4, QueueMoves DEF RemovalInv
    <3>3. ASSUME Answering(d)', session'[d].reply.type = "removed"
          PROVE  session'[d].reply.coupler \in Withdrawn'
      <4>1. CASE session'[d] = session[d]
        BY <2>1, <2>2, <3>1, <3>3, <4>1 DEF Answering
      <4>2. QED
        BY <1>2, <3>1, <3>3, <4>1, RepliesMove DEF RemovalInv
    <3>4. Barred(outbound'[d], Withdrawn')
      BY <2>1, <2>2, <3>2, BarredMore
    <3>5. QED
      BY <3>3, <3>4
  <2>3. QED
    BY <1>1, <2>1, <2>2 DEF RemovalInv, RemovalsSound
<1>3. CASE UNCHANGED vars
  BY <1>1, <1>3 DEF vars, RemovalInv, CouplerIdsFresh, RemovalsSound, Withdrawn, Answering
<1>4. QED
  BY <1>2, <1>3

(* It holds of empty queues.                                                *)
LEMMA RemovalInit == Init => RemovalInv
<1> SUFFICES ASSUME Init PROVE RemovalInv
  OBVIOUS
<1>1. Len(<<>>) = 0 /\ 0 < IdModulus /\ WrappingInc(0) = 1
  BY BoundsAssumption DEF WrappingInc
<1>2. QED
  BY <1>1, InitType DEF Init, RemovalInv, CouplerIdsFresh, RemovalsSound, Barred, Answering

(* Whoever holds the answer to coupler.remove is sent no more of that coupler:  *)
(* the answer and the updates go through one queue (coupler_remove).         *)
THEOREM RemovalBars == Spec => []RemovalIsBarrier
<1>1. RemovalInv => RemovalIsBarrier
  <2> SUFFICES ASSUME RemovalInv, creations < IdModulus, NEW c \in Conns, NEW n \in DOMAIN outbound[c],
                      outbound[c][n].type = "coupler_update", NEW m \in 1 .. n - 1
               PROVE  outbound[c][m] # Removed(outbound[c][n].coupler)
    BY DEF RemovalIsBarrier
  <2>1. outbound[c] \in Seq(Messages) /\ Barred(outbound[c], Withdrawn)
    BY DEF RemovalInv, TypeOK, RemovalsSound
  <2>2. n \in 1 .. Len(outbound[c]) /\ m \in 1 .. Len(outbound[c]) /\ m < n
    BY <2>1, LenProperties
  <2>3. QED
    BY <2>1, <2>2 DEF Barred, Removed
<1>2. QED
  BY <1>1, RemovalInit, RemovalStep, PTL DEF Spec

-----------------------------------------------------------------------------
(* What a connection that loses nothing is sent. *)

(* Were nothing dropped, the whole batch is behind what was queued.         *)
LEMMA Delivered ==
  ASSUME TypeOK, NEW batch \in [Conns -> Seq(Messages)], TrySend(batch), NEW d \in Conns,
         sinkOpen[d], ~lost'[d]
  PROVE  ~lost[d] /\ outbound'[d] = outbound[d] \o batch[d]
<1>1. outbound[d] \in Seq(Messages) /\ Len(outbound[d]) <= Depth /\ batch[d] \in Seq(Messages)
  BY DEF TypeOK
<1>2. ~lost[d] /\ ~(batch[d] # <<>> /\ (~sinkOpen[d] \/ Len(outbound[d] \o batch[d]) > Depth))
  BY DEF TrySend
<1>3. outbound'[d] = Offer(outbound[d], batch[d])
  BY DEF TrySend
<1>4. Len(outbound[d] \o batch[d]) \in Nat /\ Depth \in Nat
  BY <1>1, ConcatProperties, LenProperties, BoundsAssumption
<1>5. Len(outbound[d] \o batch[d]) <= Depth
  <2>1. CASE batch[d] = <<>>
    <3>1. Len(outbound[d] \o <<>>) = Len(outbound[d]) + Len(<<>>) /\ Len(<<>>) = 0 /\ Len(outbound[d]) \in Nat
      BY <1>1, EmptySeq, ConcatProperties, LenProperties
    <3>2. QED
      BY <1>1, <2>1, <3>1
  <2>2. CASE batch[d] # <<>>
    BY <1>2, <1>4, <2>2
  <2>3. QED
    BY <2>1, <2>2
<1>6. QED
  BY <1>2, <1>3, <1>5 DEF Offer

(* A member of a concatenation is one of the first or one of the second.      *)
LEMMA ConcatMembers ==
  ASSUME NEW S, NEW q \in Seq(S), NEW b \in Seq(S)
  PROVE  /\ q \o b \in Seq(S) /\ Len(q \o b) = Len(q) + Len(b) /\ Len(q) \in Nat /\ Len(b) \in Nat
         /\ \A i \in 1 .. Len(q \o b) :
              \/ i \in 1 .. Len(q) /\ (q \o b)[i] = q[i]
              \/ i > Len(q) /\ i - Len(q) \in 1 .. Len(b) /\ (q \o b)[i] = b[i - Len(q)]
         /\ \A i \in 1 .. Len(q) : i \in 1 .. Len(q \o b) /\ (q \o b)[i] = q[i]
         /\ \A i \in 1 .. Len(b) : Len(q) + i \in 1 .. Len(q \o b) /\ (q \o b)[Len(q) + i] = b[i]
<1> DEFINE u == q \o b
<1>1. /\ u \in Seq(S) /\ Len(u) = Len(q) + Len(b) /\ Len(q) \in Nat /\ Len(b) \in Nat
      /\ \A i \in 1 .. Len(q) + Len(b) : u[i] = IF i <= Len(q) THEN q[i] ELSE b[i - Len(q)]
  BY ConcatProperties
<1> HIDE DEF u
<1>2. ASSUME NEW i \in 1 .. Len(u), ~(i \in 1 .. Len(q) /\ u[i] = q[i])
      PROVE  i > Len(q) /\ i - Len(q) \in 1 .. Len(b) /\ u[i] = b[i - Len(q)]
  <2>1. i > Len(q)
    BY <1>1, <1>2
  <2>2. QED
    BY <1>1, <2>1
<1>3. \A i \in 1 .. Len(q) : i \in 1 .. Len(u) /\ u[i] = q[i]
  BY <1>1
<1>4. ASSUME NEW i \in 1 .. Len(b)
      PROVE  Len(q) + i \in 1 .. Len(u) /\ u[Len(q) + i] = b[i]
  <2>1. Len(q) + i \in 1 .. Len(q) + Len(b) /\ ~(Len(q) + i <= Len(q)) /\ (Len(q) + i) - Len(q) = i
    BY <1>1
  <2>2. QED
    BY <1>1, <2>1
<1>5. QED
  BY <1>1, <1>2, <1>3, <1>4 DEF u

-----------------------------------------------------------------------------
(* The newest update for a coupler. *)

IsUpdate(m, k) == m.type = "coupler_update" /\ m.coupler = k

(* Of those in q, or if there are none the one received before, f.            *)
LastIs(q, f, k, i) ==
  \/ \E n \in 1 .. Len(q) : /\ IsUpdate(q[n], k) /\ q[n].interest = i
                            /\ \A m \in 1 .. Len(q) : IsUpdate(q[m], k) => m <= n
  \/ (\A m \in 1 .. Len(q) : ~IsUpdate(q[m], k)) /\ f = i

(* It is the one LatestUpdate picks.                                        *)
LEMMA LastFound ==
  ASSUME TypeOK, NEW c \in Conns, NEW k, NEW i, LastIs(outbound[c], seen[c].focus[k], k, i)
  PROVE  LatestUpdate(c, k) = i
<1> DEFINE q == outbound[c]
           at == {n \in DOMAIN q : q[n].type = "coupler_update" /\ q[n].coupler = k}
<1>1. DOMAIN q = 1 .. Len(q) /\ Len(q) \in Nat
  BY LenProperties DEF TypeOK
<1>2. at = {n \in 1 .. Len(q) : IsUpdate(q[n], k)}
  BY <1>1 DEF IsUpdate
<1>3. LatestUpdate(c, k) = IF at = {} THEN seen[c].focus[k]
                           ELSE q[CHOOSE n \in at : \A m \in at : m <= n].interest
  BY DEF LatestUpdate
<1> HIDE DEF at, q
<1>4. CASE \A m \in 1 .. Len(q) : ~IsUpdate(q[m], k)
  BY <1>2, <1>3, <1>4 DEF LastIs, q
<1>5. ASSUME NEW n \in 1 .. Len(q), IsUpdate(q[n], k), q[n].interest = i,
             \A m \in 1 .. Len(q) : IsUpdate(q[m], k) => m <= n
      PROVE  LatestUpdate(c, k) = i
  <2>1. n \in at /\ \A m \in at : m <= n
    BY <1>2, <1>5
  <2>2. \A x \in at : x \in Int
    BY <1>1, <1>2
  <2>3. \A x \in at : (\A m \in at : m <= x) => x = n
    BY <2>1, <2>2
  <2>4. (CHOOSE x \in at : \A m \in at : m <= x) = n
    BY <2>1, <2>3
  <2>5. QED
    BY <1>3, <1>5, <2>1, <2>4
<1>6. QED
  BY <1>4, <1>5 DEF LastIs, q

(* Behind other messages it stays. *)
LEMMA LastStays ==
  ASSUME NEW q \in Seq(Messages), NEW b \in Seq(Messages), NEW f, NEW k, NEW i, LastIs(q, f, k, i),
         \A n \in 1 .. Len(b) : ~IsUpdate(b[n], k)
  PROVE  LastIs(q \o b, f, k, i)
<1> DEFINE u == q \o b
<1>1. /\ \A j \in 1 .. Len(u) :
            \/ j \in 1 .. Len(q) /\ u[j] = q[j]
            \/ j > Len(q) /\ j - Len(q) \in 1 .. Len(b) /\ u[j] = b[j - Len(q)]
      /\ \A j \in 1 .. Len(q) : j \in 1 .. Len(u) /\ u[j] = q[j]
  BY ConcatMembers
<1> HIDE DEF u
<1>2. \A j \in 1 .. Len(u) : IsUpdate(u[j], k) => j \in 1 .. Len(q) /\ u[j] = q[j]
  BY <1>1
<1>3. QED
  BY <1>1, <1>2 DEF LastIs, u

(* The only one for the coupler of those that are sent is the newest.        *)
LEMMA LastNew ==
  ASSUME NEW q \in Seq(Messages), NEW b \in Seq(Messages), NEW f, NEW k, NEW i,
         NEW n \in 1 .. Len(b), IsUpdate(b[n], k), b[n].interest = i,
         \A m \in 1 .. Len(b) : IsUpdate(b[m], k) => m = n
  PROVE  LastIs(q \o b, f, k, i)
<1> DEFINE u == q \o b
<1>1. /\ Len(q) \in Nat
      /\ \A j \in 1 .. Len(u) :
            \/ j \in 1 .. Len(q) /\ u[j] = q[j]
            \/ j > Len(q) /\ j - Len(q) \in 1 .. Len(b) /\ u[j] = b[j - Len(q)]
      /\ \A j \in 1 .. Len(b) : Len(q) + j \in 1 .. Len(u) /\ u[Len(q) + j] = b[j]
  BY ConcatMembers
<1> HIDE DEF u
<1>2. Len(q) + n \in 1 .. Len(u) /\ IsUpdate(u[Len(q) + n], k) /\ u[Len(q) + n].interest = i
  BY <1>1
<1>3. ASSUME NEW j \in 1 .. Len(u), IsUpdate(u[j], k)
      PROVE  j <= Len(q) + n
  <2>1. CASE j \in 1 .. Len(q)
    BY <1>1, <2>1
  <2>2. CASE j - Len(q) \in 1 .. Len(b) /\ u[j] = b[j - Len(q)]
    <3>1. j - Len(q) = n
      BY <1>3, <2>2
    <3>2. QED
      BY <1>1, <3>1
  <2>3. QED
    BY <1>1, <2>1, <2>2
<1>4. QED
  BY <1>2, <1>3 DEF LastIs, u

(* It is received before it is forgotten. *)
LEMMA LastReceived ==
  ASSUME NEW q \in Seq(Messages), q # <<>>, NEW f, NEW g, NEW k, NEW i, LastIs(q, f, k, i),
         g = IF IsUpdate(Head(q), k) THEN Head(q).interest ELSE f
  PROVE  LastIs(Tail(q), g, k, i)
<1> DEFINE t == Tail(q)
<1>1. /\ Len(t) = Len(q) - 1 /\ Len(q) \in Nat /\ Len(q) >= 1
      /\ \A j \in 1 .. Len(t) : t[j] = q[j + 1]
      /\ Head(q) = q[1]
  BY HeadTailProperties, EmptySeq
<1> HIDE DEF t
<1>2. \A j \in 1 .. Len(t) : j + 1 \in 1 .. Len(q) /\ t[j] = q[j + 1] /\ j + 1 # 1 /\ j + 1 > 1
  BY <1>1
<1>3. 1 \in 1 .. Len(q)
  BY <1>1
<1>4. CASE (\A m \in 1 .. Len(q) : ~IsUpdate(q[m], k)) /\ f = i
  BY <1>1, <1>2, <1>3, <1>4 DEF LastIs, t
<1>5. ASSUME NEW n \in 1 .. Len(q), IsUpdate(q[n], k), q[n].interest = i,
             \A m \in 1 .. Len(q) : IsUpdate(q[m], k) => m <= n
      PROVE  LastIs(t, g, k, i)
  <2>1. CASE n = 1
    <3>1. g = i
      BY <1>1, <1>5, <2>1
    <3>2. ASSUME NEW m \in 1 .. Len(t)
          PROVE  ~IsUpdate(t[m], k)
      <4>1. ~(m + 1 <= n)
        BY <1>2, <2>1
      <4>2. QED
        BY <1>2, <1>5, <4>1
    <3>3. QED
      BY <3>1, <3>2 DEF LastIs
  <2>2. CASE n # 1
    <3>1. n - 1 \in 1 .. Len(t) /\ (n - 1) + 1 = n
      BY <1>1, <2>2
    <3>2. t[n - 1] = q[n]
      BY <1>1, <3>1
    <3>3. ASSUME NEW m \in 1 .. Len(t), IsUpdate(t[m], k)
          PROVE  m <= n - 1
      <4>1. m + 1 <= n
        BY <1>2, <1>5, <3>3
      <4>2. QED
        BY <4>1
    <3>4. QED
      BY <1>5, <3>1, <3>2, <3>3 DEF LastIs
  <2>3. QED
    BY <2>1, <2>2
<1>6. QED
  BY <1>4, <1>5 DEF LastIs, t

-----------------------------------------------------------------------------
(* Steps that send no update. *)

(* The newest updates of the connection d stay what they are. *)
KeepsLast(d) ==
  \A k \in Ids, i \in Foci :
    LastIs(outbound[d], seen[d].focus[k], k, i) => LastIs(outbound'[d], seen'[d].focus[k], k, i)

Standing(d) == sinkOpen[d] /\ ~lost[d]

(* They do if the queue and what was received stay.                         *)
LEMMA SameQueue ==
  ASSUME NEW d \in Conns, outbound'[d] = outbound[d], seen'[d] = seen[d]
  PROVE  KeepsLast(d)
BY DEF KeepsLast

(* They do if what is queued is no update.                                  *)
LEMMA SentPlain ==
  ASSUME TypeOK, NEW d \in Conns, NEW b \in Seq(Messages), outbound'[d] = outbound[d] \o b,
         seen'[d] = seen[d],
         \A n \in 1 .. Len(b) : b[n].type # "coupler_update"
  PROVE  KeepsLast(d)
<1>1. outbound[d] \in Seq(Messages)
  BY DEF TypeOK
<1>2. \A k : \A n \in 1 .. Len(b) : ~IsUpdate(b[n], k)
  BY DEF IsUpdate
<1>3. QED
  BY <1>1, <1>2, LastStays DEF KeepsLast

(* A broadcast adds the message behind the queues of the subscribers. *)
Recipient(d, R, topic) == \E p \in subscriptions'[topic] : R[p] # None /\ R[p].conn = d

LEMMA BroadcastDelivers ==
  ASSUME TypeOK, NEW R, NEW topic, NEW m \in Messages, Broadcast(R, topic, m), NEW d \in Conns,
         sinkOpen[d], ~lost'[d]
  PROVE  /\ ~lost[d]
         /\ IF Recipient(d, R, topic) THEN outbound'[d] = outbound[d] \o <<m>>
                                      ELSE outbound'[d] = outbound[d]
<1> DEFINE b == [c \in Conns |-> IF Recipient(c, R, topic) THEN <<m>> ELSE <<>>]
<1>1. <<m>> \in Seq(Messages) /\ <<>> \in Seq(Messages)
  OBVIOUS
<1>2. b \in [Conns -> Seq(Messages)]
  BY <1>1
<1>3. TrySend(b)
  BY DEF Broadcast, Recipient
<1>4. b[d] = IF Recipient(d, R, topic) THEN <<m>> ELSE <<>>
  OBVIOUS
<1> HIDE DEF b
<1>5. ~lost[d] /\ outbound'[d] = outbound[d] \o b[d]
  BY <1>2, <1>3, Delivered
<1>6. outbound[d] \o <<>> = outbound[d]
  BY ConcatEmptySeq DEF TypeOK
<1>7. QED
  BY <1>4, <1>5, <1>6

(* An event leaves the newest updates what they are.                        *)
LEMMA BroadcastKeeps ==
  ASSUME TypeOK, NEW R, NEW topic, NEW m \in Messages, m.type # "coupler_update", Broadcast(R, topic, m),
         UNCHANGED <<seen, sinkOpen>>, NEW d \in Conns, Standing(d)'
  PROVE  Standing(d) /\ KeepsLast(d)
<1>1. <<m>> \in Seq(Messages) /\ Len(<<m>>) = 1 /\ <<m>>[1] = m
  OBVIOUS
<1>2. \A n \in 1 .. Len(<<m>>) : <<m>>[n].type # "coupler_update"
  BY <1>1
<1>3. sinkOpen[d] /\ ~lost'[d] /\ seen'[d] = seen[d]
  BY DEF Standing
<1>4. ~lost[d] /\ (outbound'[d] = outbound[d] \o <<m>> \/ outbound'[d] = outbound[d])
  BY <1>3, BroadcastDelivers
<1>5. QED
  BY <1>1, <1>2, <1>3, <1>4, SentPlain, SameQueue DEF Standing

(* So does the removal of a process.                                        *)
LEMMA DropKeeps ==
  ASSUME TypeOK, NEW p \in Ids, DropProcess(p), UNCHANGED <<seen, sinkOpen>>, NEW d \in Conns,
         Standing(d)'
  PROVE  Standing(d) /\ KeepsLast(d)
<1>1. Event("unregistered", p) \in Messages /\ Event("unregistered", p).type # "coupler_update"
  BY MessageTypes DEF Events, Event
<1>2. QED
  BY <1>1, BroadcastKeeps, SameQueue DEF DropProcess, Standing

(* The answer is queued behind what there is. *)
LEMMA PushedKeeps ==
  ASSUME TypeOK, NEW c \in Conns, PushReply(c), NEW d \in Conns, Standing(d)'
  PROVE  Standing(d) /\ KeepsLast(d)
<1>1. UNCHANGED <<sinkOpen, lost, seen>>
  BY DEF PushReply, clientSide
<1>2. CASE outbound'[d] = outbound[d]
  BY <1>1, <1>2, SameQueue DEF Standing
<1>3. CASE outbound'[d] # outbound[d]
  <2>1. c = d /\ outbound'[d] = Append(outbound[d], session[d].reply)
    BY <1>3 DEF PushReply, TypeOK
  <2>2. session[d].reply \in Replies
    BY <2>1 DEF PushReply, TypeOK, Session
  <2> DEFINE r == session[d].reply
  <2>3. r \in Messages /\ r.type # "coupler_update"
    BY <2>2 DEF Messages, Replies, Ok, Refusal, Snapshot, Removed
  <2>4. outbound[d] \in Seq(Messages)
    BY DEF TypeOK
  <2> HIDE DEF r
  <2>5. <<r>> \in Seq(Messages) /\ Len(<<r>>) = 1 /\ <<r>>[1] = r
    BY <2>3
  <2>6. Append(outbound[d], r) = outbound[d] \o <<r>>
    BY <2>3, <2>4
  <2>7. \A n \in 1 .. Len(<<r>>) : <<r>>[n].type # "coupler_update"
    BY <2>3, <2>5
  <2>8. outbound'[d] = outbound[d] \o <<r>>
    BY <2>1, <2>6 DEF r
  <2>9. QED
    BY <1>1, <2>5, <2>7, <2>8, SentPlain DEF Standing
<1>4. QED
  BY <1>2, <1>3

(* What the client receives it remembers. *)
LEMMA SentKeeps ==
  ASSUME TypeOK, NEW c \in Conns, WriterSends(c), NEW d \in Conns, Standing(d)'
  PROVE  Standing(d) /\ KeepsLast(d)
<1>1. UNCHANGED <<sinkOpen, lost>>
  BY DEF WriterSends
<1>2. CASE d # c
  BY <1>1, <1>2, SameQueue DEF WriterSends, Standing, TypeOK
<1>3. CASE d = c
  <2> DEFINE q == outbound[d]
             s == seen[d]
  <2>1. /\ q \in Seq(Messages) /\ q # <<>> /\ outbound'[d] = Tail(q)
        /\ s \in Seen /\ seen'[d] = Received(d, s, Head(q))
    BY <1>3 DEF WriterSends, TypeOK
  <2>2. Head(q) \in Messages
    BY <2>1, HeadTailProperties
  <2> HIDE DEF q, s
  <2>3. ASSUME NEW k \in Ids
        PROVE  Received(d, s, Head(q)).focus[k] =
                 IF IsUpdate(Head(q), k) THEN Head(q).interest ELSE s.focus[k]
    <3> DEFINE m == Head(q)
    <3>1. CASE m \in {Update(j, i) : j \in Ids, i \in Foci}
      BY <2>1, <3>1 DEF Update, IsUpdate, Received, Seen
    <3>2. CASE m \in {Event(e, p) : e \in Events, p \in Ids}
      BY <2>1, <3>2 DEF Event, IsUpdate, Received, Seen
    <3>3. CASE m \in {Snapshot(S) : S \in SUBSET Ids}
      BY <2>1, <3>3 DEF Snapshot, IsUpdate, Received, Seen
    <3>4. CASE m \in {Ok, Refusal} \cup {Removed(j) : j \in Ids}
      BY <2>1, <3>4 DEF Ok, Refusal, Removed, IsUpdate, Received
    <3>5. QED
      BY <2>2, <3>1, <3>2, <3>3, <3>4 DEF Messages, Replies
  <2>4. ASSUME NEW k \in Ids, NEW i \in Foci, LastIs(q, s.focus[k], k, i)
        PROVE  LastIs(Tail(q), Received(d, s, Head(q)).focus[k], k, i)
    BY <2>1, <2>3, <2>4, LastReceived
  <2>5. QED
    BY <1>1, <2>1, <2>4 DEF KeepsLast, Standing, q, s
<1>4. QED
  BY <1>2, <1>3

(* The steps that neither publish a focus nor make a coupler. *)
Other(c) ==
  \/ Handshake(c) \/ Leave(c) \/ PushReply(c) \/ ReaderBreaks(c)
  \/ WriterSends(c) \/ WriterFails(c) \/ ClientGoes(c)
  \/ Refuse(c) \/ HandlerPanics(c) \/ UpdateLabel(c) \/ RosterSnapshot(c)
  \/ \E k \in couplers : CouplerRemove(c, k)
  \/ \E topic \in UsedTopics : Subscribe(c, topic) \/ Unsubscribe(c, topic)

(* They leave the newest updates of every connection what they are.         *)
LEMMA OtherKeeps ==
  ASSUME TypeOK, NEW c \in Conns, Other(c), NEW d \in Conns, Standing(d)'
  PROVE  Standing(d) /\ KeepsLast(d)
<1> USE DEF clientSide
<1>1. ASSUME NEW profile \in Profiles, Register(c, profile)
      PROVE  Standing(d) /\ KeepsLast(d)
  <2>1. /\ Event("registered", nextProcessId) \in Messages
        /\ Event("registered", nextProcessId).type # "coupler_update"
    BY MessageTypes DEF Events, Event, TypeOK
  <2>2. UNCHANGED <<seen, sinkOpen>> /\ Broadcast(roster', "roster_changed", Event("registered", nextProcessId))
    BY <1>1 DEF Register
  <2>3. QED
    BY <2>1, <2>2, BroadcastKeeps
<1>2. CASE Unregister(c) \/ Leave(c)
  <2>1. UNCHANGED <<seen, sinkOpen>>
    BY <1>2 DEF Unregister, Leave
  <2>2. \/ session[c].pid \in Ids /\ DropProcess(session[c].pid)
        \/ UNCHANGED <<outbound, lost>>
    BY <1>2 DEF Unregister, Leave, Registered, TypeOK, Session
  <2>3. QED
    BY <2>1, <2>2, DropKeeps, SameQueue DEF Standing
<1>3. CASE UpdateLabel(c)
  <2> DEFINE p == session[c].pid
  <2>1. p \in Ids /\ UNCHANGED <<seen, sinkOpen>>
    BY <1>3 DEF UpdateLabel, Registered, TypeOK, Session
  <2>2. /\ Event("label_updated", p) \in Messages
        /\ Event("label_updated", p).type # "coupler_update"
    BY <2>1, MessageTypes DEF Events, Event
  <2>3. UNCHANGED <<outbound, lost>> \/ Broadcast(roster, "roster_changed", Event("label_updated", p))
    BY <1>3 DEF UpdateLabel
  <2>4. QED
    BY <2>1, <2>2, <2>3, BroadcastKeeps, SameQueue DEF Standing
<1>4. CASE PushReply(c)
  BY <1>4, PushedKeeps
<1>5. CASE WriterSends(c)
  BY <1>5, SentKeeps
<1>6. CASE WriterFails(c)
  <2>1. d # c
    BY <1>6 DEF WriterFails, Standing, TypeOK
  <2>2. outbound'[d] = outbound[d] /\ seen'[d] = seen[d] /\ lost' = lost /\ sinkOpen'[d] = sinkOpen[d]
    BY <1>6, <2>1 DEF WriterFails, TypeOK
  <2>3. QED
    BY <2>2, SameQueue DEF Standing
<1>7. CASE UNCHANGED <<outbound, lost, seen, sinkOpen>>
  BY <1>7, SameQueue DEF Standing
<1>8. QED
  BY <1>1, <1>2, <1>3, <1>4, <1>5, <1>6, <1>7
  DEF Other, Handshake, ReaderBreaks, ClientGoes, Refuse, HandlerPanics, RosterSnapshot, CouplerRemove,
      Subscribe, Unsubscribe

(* They change no entry of a process at the end of a coupler. *)
LEMMA OtherEntries ==
  ASSUME TablesInv, NEW c \in Conns, Other(c), registrations' < IdModulus
  PROVE  /\ registrations < IdModulus /\ creations' = creations
         /\ \A k \in couplers' : /\ k \in couplers
                                 /\ roster'[k.master] = roster[k.master]
                                 /\ roster'[k.follower] = roster[k.follower]
<1> USE DEF stateThread, counts
<1>0. TypeOK /\ OwnersRegistered /\ IdsFresh /\ CouplerEndsLive
      /\ \A k \in couplers : k.master \in Ids /\ k.follower \in Ids
  BY DEF TablesInv, TypeOK, Coupler
<1>1. ASSUME NEW profile \in Profiles, Register(c, profile)
      PROVE  /\ registrations < IdModulus /\ creations' = creations /\ couplers' = couplers
             /\ \A k \in couplers : /\ roster'[k.master] = roster[k.master]
                                    /\ roster'[k.follower] = roster[k.follower]
  <2>1. Added(c, profile)
    BY <1>0, <1>1, RegisterEffect
  <2>2. registrations < IdModulus /\ roster[nextProcessId] = None
    BY <1>0, <2>1, FreshId
  <2>3. \A p \in Ids \ {nextProcessId} : roster'[p] = roster[p]
    BY <1>0, <2>1, AddedEntry
  <2>4. creations' = creations /\ couplers' = couplers
    BY <1>1 DEF Register
  <2>5. QED
    BY <1>0, <2>2, <2>3, <2>4 DEF CouplerEndsLive
<1>2. CASE Unregister(c) \/ Leave(c)
  <2>1. Dropped(c)
    BY <1>0, <1>2, DroppedEffect
  <2>2. creations' = creations /\ registrations' = registrations
    BY <1>2 DEF Unregister, Leave
  <2>3. QED
    BY <1>0, <2>1, <2>2 DEF Dropped, TypeOK
<1>3. CASE UNCHANGED <<roster, registrations, creations>> /\ couplers' \subseteq couplers
  BY <1>3
<1>4. \/ UNCHANGED <<roster, registrations, creations>> /\ couplers' \subseteq couplers
      \/ Handshake(c) \/ Leave(c)
  BY DEF Other, PushReply, WriterSends, WriterFails, UpdateLabel, ReaderBreaks, ClientGoes, Refuse, HandlerPanics,
         RosterSnapshot, CouplerRemove, Subscribe, Unsubscribe
<1>5. QED
  BY <1>1, <1>2, <1>3, <1>4 DEF Handshake

-----------------------------------------------------------------------------
(* Followers are up to date. *)

(* What FollowersUpToDate says of one coupler. *)
Current(k) ==
  LET c == roster[k.follower].conn
      i == roster[k.master].interest
  IN Standing(c) /\ i # None /\ AlwaysDerives(k.kind, i) =>
       LastIs(outbound[c], seen[c].focus[k.id], k.id, i)

CouplersCurrent ==
  creations < IdModulus /\ registrations < IdModulus => \A k \in couplers : Current(k)

(* The ends of a coupler have entries.                                      *)
LEMMA CouplerTypes ==
  ASSUME TablesInv, NEW k \in couplers
  PROVE  /\ k.id \in Ids /\ k.master \in Ids /\ k.follower \in Ids
         /\ roster[k.master] \in Info /\ roster[k.follower] \in Info
         /\ roster[k.follower].conn \in Conns /\ roster[k.master].interest \in Foci \cup {None}
BY DEF TablesInv, TypeOK, CouplerEndsLive, Coupler, Info

(* A coupler whose ends stay what they are stays current.                    *)
LEMMA OtherCurrent ==
  ASSUME TablesInv, CouplersCurrent, NEW c \in Conns, Other(c),
         creations' < IdModulus, registrations' < IdModulus
  PROVE  \A k \in couplers' : Current(k)'
<1> SUFFICES ASSUME NEW k \in couplers' PROVE Current(k)'
  OBVIOUS
<1>1. /\ k \in couplers /\ roster'[k.master] = roster[k.master] /\ roster'[k.follower] = roster[k.follower]
      /\ Current(k)
  BY OtherEntries DEF CouplersCurrent
<1> DEFINE d == roster[k.follower].conn
           i == roster[k.master].interest
<1>2. d \in Conns /\ i \in Foci \cup {None} /\ k.id \in Ids
  BY <1>1, CouplerTypes
<1>3. TypeOK
  BY DEF TablesInv
<1>4. Standing(d)' => Standing(d) /\ KeepsLast(d)
  <2> SUFFICES ASSUME NEW e \in Conns, e = d, Standing(e)' PROVE Standing(e) /\ KeepsLast(e)
    BY <1>1, <1>2
  <2>1. QED
    BY <1>3, OtherKeeps
<1>5. Current(k)' <=> (Standing(d)' /\ i # None /\ AlwaysDerives(k.kind, i) =>
                        LastIs(outbound'[d], seen'[d].focus[k.id], k.id, i))
  BY <1>1 DEF Current, Standing
<1>6. Standing(d) /\ i # None /\ AlwaysDerives(k.kind, i) =>
         LastIs(outbound[d], seen[d].focus[k.id], k.id, i)
  BY <1>1 DEF Current
<1> HIDE DEF d, i
<1>7. QED
  BY <1>2, <1>4, <1>5, <1>6 DEF KeepsLast

(* A publication reaches every coupler it leads, and no other.               *)
LEMMA PublishCurrent ==
  ASSUME TablesInv, CouplerIdsFresh, CouplersCurrent, NEW c \in Conns, NEW i \in Foci,
         PublishInterest(c, i),
         creations' < IdModulus, registrations' < IdModulus
  PROVE  \A k \in couplers' : Current(k)'
<1> SUFFICES ASSUME NEW k \in couplers' PROVE Current(k)'
  OBVIOUS
<1> DEFINE p == session[c].pid
           d == roster[k.follower].conn
           f == seen[d].focus[k.id]
<1>1. /\ TypeOK /\ p \in Ids /\ couplers' = couplers /\ k \in couplers
      /\ UNCHANGED <<sinkOpen, seen, creations, registrations>>
      /\ roster' = [roster EXCEPT ![p].interest = i] /\ roster[p] # None
  BY DEF TablesInv, PublishInterest, Registered, TypeOK, Session, clientSide, counts
<1>2. Current(k)
  BY <1>1 DEF CouplersCurrent
<1>3. /\ d \in Conns /\ k.id \in Ids /\ k.master \in Ids /\ k.follower \in Ids
      /\ roster[k.master] \in Info /\ roster[k.follower] \in Info
  BY <1>1, CouplerTypes
<1>4. roster'[k.follower].conn = d
  <2>1. Refocused
    BY <1>1, CallEffect DEF PublishInterest, Refocused, OwnersKept
  <2>2. QED
    BY <1>1, <1>3, <2>1, RefocusedEntry, InputsAssumption
<1>5. roster'[k.master].interest = IF k.master = p THEN i ELSE roster[k.master].interest
  BY <1>1, <1>3 DEF TypeOK, Info
<1>6. PICK D \in SUBSET LedBy(p) :
        /\ \A l \in LedBy(p) : AlwaysDerives(l.kind, i) => l \in D
        /\ \E b \in Batches(D, i) : TrySend(b)
  BY DEF PublishInterest
<1>7. PICK b \in Batches(D, i) : TrySend(b)
  BY <1>6
<1>8. D \in SUBSET couplers /\ b \in [Conns -> Seq(Messages)] /\ b[d] \in Seq(Messages)
  <2>1. D \in SUBSET couplers
    BY DEF LedBy
  <2>2. b \in [Conns -> Seq(Messages)]
    BY Zenon, <1>1, <1>3, <2>1, BatchType
  <2>3. QED
    BY <2>1, <2>2, <1>3
<1>9. SUFFICES ASSUME Standing(d)', roster'[k.master].interest # None,
                      AlwaysDerives(k.kind, roster'[k.master].interest)
               PROVE  LastIs(outbound'[d], seen'[d].focus[k.id], k.id, roster'[k.master].interest)
  BY <1>4 DEF Current
<1>10. sinkOpen[d] /\ ~lost'[d] /\ seen'[d] = seen[d]
  BY <1>1, <1>9 DEF Standing
<1>11. ~lost[d] /\ outbound'[d] = outbound[d] \o b[d] /\ outbound[d] \in Seq(Messages)
  BY <1>1, <1>3, <1>7, <1>8, <1>10, Delivered DEF TypeOK
<1>12. /\ \A m \in 1 .. Len(b[d]) : b[d][m] \in UpdatesTo(d, D, i)
       /\ \A m, n \in 1 .. Len(b[d]) : b[d][m] = b[d][n] => m = n
       /\ \A u \in UpdatesTo(d, D, i) : \E n \in 1 .. Len(b[d]) : b[d][n] = u
  <2>1. b[d] \in Orders(UpdatesTo(d, D, i))
    BY <1>3, <1>7 DEF Batches
  <2>2. PICK n \in 0 .. MaxCouplers : b[d] \in [1 .. n -> UpdatesTo(d, D, i)]
    BY <2>1 DEF Orders
  <2>3. Len(b[d]) = n /\ DOMAIN b[d] = 1 .. n
    BY <1>8, <2>2, BoundsAssumption, LenProperties
  <2>4. /\ \A m, n2 \in DOMAIN b[d] : m # n2 => b[d][m] # b[d][n2]
        /\ \A u \in UpdatesTo(d, D, i) : \E a \in DOMAIN b[d] : b[d][a] = u
    BY <2>1 DEF Orders
  <2>5. QED
    BY <2>2, <2>3, <2>4
<1>13. \A m \in 1 .. Len(b[d]) : \E l \in D : b[d][m] = Update(l.id, i) /\ l.master = p /\ l \in couplers
  BY <1>6, <1>12 DEF UpdatesTo, LedBy
<1>14. CASE k.master = p
  <2>1. k \in D
    BY <1>1, <1>5, <1>6, <1>9, <1>14 DEF LedBy
  <2>2. Update(k.id, i) \in UpdatesTo(d, D, i)
    BY <1>3, <2>1, InputsAssumption DEF UpdatesTo
  <2>3. PICK n \in 1 .. Len(b[d]) : b[d][n] = Update(k.id, i)
    BY <1>12, <2>2
  <2>4. IsUpdate(b[d][n], k.id) /\ b[d][n].interest = i
    BY <2>3 DEF IsUpdate, Update
  <2>5. ASSUME NEW m \in 1 .. Len(b[d]), IsUpdate(b[d][m], k.id)
        PROVE  m = n
    <3>1. PICK l \in D : b[d][m] = Update(l.id, i)
      BY <1>13
    <3>2. l.id = k.id
      BY <2>5, <3>1 DEF IsUpdate, Update
    <3>3. QED
      BY <1>12, <2>3, <3>1, <3>2
  <2> HIDE DEF d, p
  <2>6. LastIs(outbound[d] \o b[d], f, k.id, i)
    BY <1>8, <1>11, <2>4, <2>5, LastNew
  <2>7. QED
    BY <1>5, <1>10, <1>11, <1>14, <2>6
<1>15. CASE k.master # p
  <2>1. ASSUME NEW m \in 1 .. Len(b[d])
        PROVE  ~IsUpdate(b[d][m], k.id)
    <3>1. PICK l \in D : b[d][m] = Update(l.id, i) /\ l.master = p /\ l \in couplers
      BY <1>13
    <3>2. l.id # k.id
      BY <1>1, <1>15, <3>1 DEF CouplerIdsFresh
    <3>3. QED
      BY <3>1, <3>2 DEF IsUpdate, Update
  <2>2. LastIs(outbound[d], f, k.id, roster[k.master].interest)
    BY <1>2, <1>5, <1>9, <1>10, <1>11, <1>15 DEF Current, Standing
  <2> HIDE DEF d, p
  <2>3. LastIs(outbound[d] \o b[d], f, k.id, roster[k.master].interest)
    BY <1>8, <1>11, <2>1, <2>2, LastStays
  <2>4. QED
    BY <1>5, <1>10, <1>11, <1>15, <2>3
<1>16. QED
  BY <1>14, <1>15

(* A coupler starts with its master's focus, under an id nobody had.        *)
LEMMA CreateCurrent ==
  ASSUME TablesInv, CouplerIdsFresh, CouplersCurrent, NEW c \in Conns, NEW master \in Ids,
         NEW follower \in Ids, NEW kind \in UsedKinds, CouplerCreate(c, master, follower, kind),
         creations' < IdModulus, registrations' < IdModulus
  PROVE  \A k \in couplers' : Current(k)'
<1> DEFINE id == nextCouplerId
           new == [id |-> id, master |-> master, follower |-> follower, kind |-> kind]
           focus == roster[master].interest
           first == Update(id, focus)
           to == roster[follower].conn
           update == [e \in Conns |-> IF e = to THEN <<first>> ELSE <<>>]
<1>0. TypeOK /\ id \in Ids /\ UNCHANGED <<roster, registrations, sinkOpen, seen>>
  BY DEF TablesInv, TypeOK, CouplerCreate, clientSide
<1>1. CASE UNCHANGED <<couplers, outbound, lost, creations>>
  BY <1>0, <1>1 DEF CouplersCurrent, Current, Standing
<1>2. CASE /\ roster[master] # None /\ roster[follower] # None /\ creations' = creations + 1
           /\ couplers' = {k \in couplers : k.id # id} \cup {new}
           /\ \/ focus # None /\ TrySend(update)
              \/ ~(focus # None /\ AlwaysDerives(kind, focus)) /\ UNCHANGED <<outbound, lost>>
  <2>1. creations < IdModulus /\ \A k \in couplers : Current(k)
    BY <1>0, <1>2, BoundsAssumption DEF CouplersCurrent, TypeOK
  <2>2. to \in Conns /\ focus \in Foci \cup {None}
    BY <1>0, <1>2 DEF TypeOK, Info
  <2>3. ASSUME focus # None, TrySend(update), NEW d \in Conns, Standing(d)'
        PROVE  /\ Standing(d) /\ first \in Messages /\ outbound[d] \in Seq(Messages)
               /\ outbound'[d] = IF d = to THEN outbound[d] \o <<first>> ELSE outbound[d]
    <3>1. first \in Messages
      BY <1>0, <2>2, <2>3, MessageTypes
    <3> HIDE DEF first
    <3>2. <<first>> \in Seq(Messages) /\ <<>> \in Seq(Messages)
      BY <3>1
    <3>3. update \in [Conns -> Seq(Messages)] /\ update[d] = IF d = to THEN <<first>> ELSE <<>>
      BY <3>2
    <3> HIDE DEF update, to
    <3>4. sinkOpen[d] /\ ~lost'[d]
      BY <1>0, <2>3 DEF Standing
    <3>5. ~lost[d] /\ outbound'[d] = outbound[d] \o update[d]
      BY <1>0, <2>3, <3>3, <3>4, Delivered
    <3>6. outbound[d] \in Seq(Messages) /\ outbound[d] \o <<>> = outbound[d]
      BY <1>0, ConcatEmptySeq DEF TypeOK
    <3>7. QED
      BY <3>1, <3>3, <3>4, <3>5, <3>6 DEF Standing
  <2>4. ASSUME NEW k \in couplers, k.id # id
        PROVE  Current(k)'
    <3> DEFINE d == roster[k.follower].conn
               i == roster[k.master].interest
               f == seen[d].focus[k.id]
    <3>1. d \in Conns /\ Current(k)
      BY <2>1, CouplerTypes
    <3>2. Standing(d)' /\ i # None /\ AlwaysDerives(k.kind, i) => LastIs(outbound'[d], f, k.id, i)
      <4> SUFFICES ASSUME Standing(d)', i # None, AlwaysDerives(k.kind, i)
                   PROVE  LastIs(outbound'[d], f, k.id, i)
        OBVIOUS
      <4>1. CASE UNCHANGED <<outbound, lost>>
        BY <1>0, <3>1, <4>1 DEF Current, Standing
      <4>2. CASE focus # None /\ TrySend(update)
        <5>1. /\ Standing(d) /\ first \in Messages /\ outbound[d] \in Seq(Messages)
              /\ outbound'[d] = IF d = to THEN outbound[d] \o <<first>> ELSE outbound[d]
          <6> SUFFICES ASSUME NEW e \in Conns, e = d, Standing(e)'
                       PROVE  /\ Standing(e) /\ first \in Messages /\ outbound[e] \in Seq(Messages)
                              /\ outbound'[e] = IF e = to THEN outbound[e] \o <<first>> ELSE outbound[e]
            BY <1>0, <3>1
          <6>1. QED
            BY <2>3, <4>2
        <5>2. LastIs(outbound[d], f, k.id, i)
          BY <3>1, <5>1 DEF Current
        <5>3. ~IsUpdate(first, k.id)
          BY <2>4 DEF IsUpdate, Update
        <5> HIDE DEF first, d, i, f, to
        <5>4. <<first>> \in Seq(Messages) /\ \A n \in 1 .. Len(<<first>>) : ~IsUpdate(<<first>>[n], k.id)
          BY <5>1, <5>3
        <5>5. LastIs(outbound[d] \o <<first>>, f, k.id, i)
          BY <5>1, <5>2, <5>4, LastStays
        <5>6. QED
          BY <5>1, <5>2, <5>5
      <4>3. QED
        BY <1>2, <4>1, <4>2
    <3>3. QED
      BY <1>0, <3>2 DEF Current, Standing
  <2>5. ASSUME NEW k, k = new
        PROVE  Current(k)'
    <3>1. k.id = id /\ k.master = master /\ k.follower = follower /\ k.kind = kind
      BY <2>5
    <3>2. ASSUME NEW d \in Conns, d = to, Standing(d)', focus # None, AlwaysDerives(kind, focus)
          PROVE  LastIs(outbound'[d], seen[d].focus[id], id, focus)
      <4>1. TrySend(update)
        BY <1>2, <3>2
      <4>2. first \in Messages /\ outbound[d] \in Seq(Messages) /\ outbound'[d] = outbound[d] \o <<first>>
        BY <2>3, <3>2, <4>1
      <4>3. IsUpdate(first, id) /\ first.interest = focus
        BY DEF IsUpdate, Update
      <4> HIDE DEF first, to, focus, id
      <4>4. <<first>> \in Seq(Messages) /\ Len(<<first>>) = 1 /\ <<first>>[1] = first
        BY <4>2
      <4>5. 1 \in 1 .. Len(<<first>>) /\ \A m \in 1 .. Len(<<first>>) : m = 1
        BY <4>4
      <4>6. LastIs(outbound[d] \o <<first>>, seen[d].focus[id], id, focus)
        BY <4>2, <4>3, <4>4, <4>5, LastNew
      <4>7. QED
        BY <4>2, <4>6
    <3>3. Standing(to)' <=> sinkOpen'[to] /\ ~lost'[to]
      BY <1>0 DEF Standing
    <3>4. \A d \in Conns : Standing(d)' <=> sinkOpen'[d] /\ ~lost'[d]
      BY DEF Standing
    <3>5. roster' = roster /\ seen' = seen
      BY <1>0
    <3> HIDE DEF id
    <3>6. QED
      BY <2>2, <3>1, <3>2, <3>3, <3>4, <3>5 DEF Current
  <2>6. ASSUME NEW k \in couplers'
        PROVE  (k \in couplers /\ k.id # id) \/ k = new
    BY <1>2
  <2>7. QED
    BY <2>4, <2>5, <2>6
<1>3. QED
  BY <1>1, <1>2 DEF CouplerCreate

DeliveryInv == TablesInv /\ CouplerIdsFresh /\ CouplersCurrent

(* Every step keeps the followers up to date.                               *)
LEMMA DeliveryStep == DeliveryInv /\ [Next]_vars => DeliveryInv'
<1> SUFFICES ASSUME DeliveryInv, [Next]_vars PROVE DeliveryInv'
  OBVIOUS
<1>1. TablesInv'
  BY NextTables DEF DeliveryInv
<1>2. CASE Next
  <2>1. CouplerIdsFresh'
    BY <1>2, FreshKept DEF DeliveryInv, TablesInv
  <2>2. PICK c \in Conns :
          \/ Other(c)
          \/ \E i \in Foci : PublishInterest(c, i)
          \/ \E master, follower \in Ids, kind \in UsedKinds : CouplerCreate(c, master, follower, kind)
    BY <1>2 DEF Next, Call, Other
  <2>3. ASSUME creations' < IdModulus, registrations' < IdModulus
        PROVE  \A k \in couplers' : Current(k)'
    BY <2>2, <2>3, OtherCurrent, PublishCurrent, CreateCurrent DEF DeliveryInv
  <2>4. CouplersCurrent'
    BY <2>3 DEF CouplersCurrent
  <2>5. QED
    BY <1>1, <2>1, <2>4 DEF DeliveryInv
<1>3. CASE UNCHANGED vars
  BY <1>1, <1>3 DEF vars, DeliveryInv, CouplerIdsFresh, CouplersCurrent, Current, Standing
<1>4. QED
  BY <1>2, <1>3

(* At first there is no coupler.                                            *)
LEMMA DeliveryInit == Init => DeliveryInv
<1> SUFFICES ASSUME Init PROVE DeliveryInv
  OBVIOUS
<1>1. CouplerIdsFresh
  BY RemovalInit DEF RemovalInv
<1>2. QED
  BY <1>1, InitTables DEF Init, DeliveryInv, CouplersCurrent

(* Until ids run out, a follower whose writer runs and that has lost no       *)
(* notification has been sent its masters' current interests                *)
(* (publish_interest, coupler_create).                                      *)
THEOREM UpToDate == Spec => []FollowersUpToDate
<1>1. DeliveryInv => FollowersUpToDate
  <2> SUFFICES ASSUME DeliveryInv, creations < IdModulus, registrations < IdModulus, NEW k \in couplers,
                      sinkOpen[roster[k.follower].conn], ~lost[roster[k.follower].conn],
                      roster[k.master].interest # None, AlwaysDerives(k.kind, roster[k.master].interest)
               PROVE  LatestUpdate(roster[k.follower].conn, k.id) = roster[k.master].interest
    BY DEF FollowersUpToDate
  <2> DEFINE c == roster[k.follower].conn
             i == roster[k.master].interest
  <2>1. TypeOK /\ c \in Conns /\ LastIs(outbound[c], seen[c].focus[k.id], k.id, i)
    BY CouplerTypes DEF DeliveryInv, TablesInv, CouplersCurrent, Current, Standing
  <2> HIDE DEF c, i
  <2>2. LatestUpdate(c, k.id) = i
    BY <2>1, LastFound
  <2>3. QED
    BY <2>2 DEF c, i
<1>2. QED
  BY <1>1, DeliveryInit, DeliveryStep, PTL DEF Spec

-----------------------------------------------------------------------------
(* The roster as a client follows it. *)

(* The processes an event of which is in q, or has been received.            *)
Told(q, e) == {p \in Ids : \E n \in 1 .. Len(q) : q[n] = Event(e, p)}
Joined(c) == seen[c].joined \cup Told(outbound[c], "registered")
Left(c) == seen[c].left \cup Told(outbound[c], "unregistered")

(* The newest snapshot in q, or if there is none the one received before, f.  *)
NewestIs(q, f, S) ==
  \/ \E n \in 1 .. Len(q) : /\ q[n].type = "roster" /\ q[n].processes = S
                            /\ \A m \in 1 .. Len(q) : q[m].type = "roster" => m <= n
  \/ (\A m \in 1 .. Len(q) : q[m].type # "roster") /\ f = S

(* Told of what is queued together.                                         *)
LEMMA ToldConcat ==
  ASSUME NEW q \in Seq(Messages), NEW b \in Seq(Messages), NEW e
  PROVE  Told(q \o b, e) = Told(q, e) \cup Told(b, e)
<1> DEFINE u == q \o b
<1>1. /\ \A i \in 1 .. Len(u) :
              \/ i \in 1 .. Len(q) /\ u[i] = q[i]
              \/ i > Len(q) /\ i - Len(q) \in 1 .. Len(b) /\ u[i] = b[i - Len(q)]
      /\ \A i \in 1 .. Len(q) : i \in 1 .. Len(u) /\ u[i] = q[i]
      /\ \A i \in 1 .. Len(b) : Len(q) + i \in 1 .. Len(u) /\ u[Len(q) + i] = b[i]
  BY ConcatMembers
<1> HIDE DEF u
<1>2. \A p \in Ids : (\E n \in 1 .. Len(u) : u[n] = Event(e, p)) <=>
        ((\E n \in 1 .. Len(q) : q[n] = Event(e, p)) \/ \E n \in 1 .. Len(b) : b[n] = Event(e, p))
  BY <1>1
<1>3. Told(u, e) = Told(q, e) \cup Told(b, e)
  BY <1>2 DEF Told
<1>4. QED
  BY <1>3 DEF u

(* Told of one message.                                                     *)
LEMMA ToldOne ==
  ASSUME NEW m \in Messages, NEW e
  PROVE  Told(<<m>>, e) = {p \in Ids : m = Event(e, p)}
<1>1. Len(<<m>>) = 1 /\ <<m>>[1] = m /\ 1 .. 1 = {1}
  OBVIOUS
<1>2. QED
  BY <1>1 DEF Told

(* Whatever is dropped, nothing is made up.                                 *)
LEMMA ToldOffer ==
  ASSUME NEW q \in Seq(Messages), NEW b \in Seq(Messages), NEW e
  PROVE  Told(Offer(q, b), e) \subseteq Told(q, e) \cup Told(b, e)
<1> DEFINE all == q \o b
<1>1. all \in Seq(Messages) /\ Len(all) \in Nat /\ Told(all, e) = Told(q, e) \cup Told(b, e)
  BY ToldConcat, ConcatProperties, LenProperties
<1> HIDE DEF all
<1>2. CASE Len(all) <= Depth
  BY <1>1, <1>2 DEF Offer, all
<1>3. CASE ~(Len(all) <= Depth)
  <2>1. Depth \in Nat /\ Depth \in 1 .. Len(all)
    BY <1>1, <1>3, BoundsAssumption
  <2>2. \A i \in 1 .. Depth : all[i] \in Messages
    BY <1>1, <2>1, ElementOfSeq
  <2>3. /\ Len(SubSeq(all, 1, Depth)) = IF 1 <= Depth THEN Depth - 1 + 1 ELSE 0
        /\ \A i \in 1 .. Depth - 1 + 1 : SubSeq(all, 1, Depth)[i] = all[1 + i - 1]
    BY <2>1, <2>2, SubSeqProperties
  <2>4. Len(SubSeq(all, 1, Depth)) = Depth /\ Depth - 1 + 1 = Depth
    BY <2>1, <2>3
  <2>5. \A i \in 1 .. Depth : i \in 1 .. Len(all) /\ 1 + i - 1 = i
    BY <1>1, <2>1
  <2>6. \A i \in 1 .. Depth : SubSeq(all, 1, Depth)[i] = all[i] /\ i \in 1 .. Len(all)
    BY <2>3, <2>4, <2>5
  <2>7. Told(SubSeq(all, 1, Depth), e) \subseteq Told(all, e)
    BY <2>4, <2>6 DEF Told
  <2>8. QED
    BY <1>1, <1>3, <2>7 DEF Offer, all
<1>4. QED
  BY <1>2, <1>3

(* Told of the head and of what is behind it.                               *)
LEMMA ToldTail ==
  ASSUME NEW q \in Seq(Messages), q # <<>>, NEW e
  PROVE  Told(q, e) = Told(Tail(q), e) \cup {p \in Ids : Head(q) = Event(e, p)}
<1> DEFINE t == Tail(q)
<1>1. /\ Len(t) = Len(q) - 1 /\ Len(q) \in Nat /\ Len(q) >= 1
      /\ \A j \in 1 .. Len(t) : t[j] = q[j + 1]
      /\ Head(q) = q[1]
  BY HeadTailProperties, EmptySeq
<1> HIDE DEF t
<1>2. \A j \in 1 .. Len(t) : j + 1 \in 1 .. Len(q) /\ t[j] = q[j + 1]
  BY <1>1
<1>3. \A j \in 1 .. Len(q) : j = 1 \/ (j - 1 \in 1 .. Len(t) /\ t[j - 1] = q[j])
  <2> SUFFICES ASSUME NEW j \in 1 .. Len(q), j # 1
               PROVE  j - 1 \in 1 .. Len(t) /\ t[j - 1] = q[j]
    OBVIOUS
  <2>1. j - 1 \in 1 .. Len(t) /\ (j - 1) + 1 = j
    BY <1>1
  <2>2. QED
    BY <1>1, <2>1
<1>4. 1 \in 1 .. Len(q)
  BY <1>1
<1>5. \A p \in Ids : (\E n \in 1 .. Len(q) : q[n] = Event(e, p)) <=>
        ((\E n \in 1 .. Len(t) : t[n] = Event(e, p)) \/ Head(q) = Event(e, p))
  BY <1>1, <1>2, <1>3, <1>4
<1>6. Told(q, e) = Told(t, e) \cup {p \in Ids : Head(q) = Event(e, p)}
  BY <1>5 DEF Told
<1>7. QED
  BY <1>6 DEF t

(* Told of nothing.                                                         *)
LEMMA ToldNothing ==
  ASSUME NEW e
  PROVE  Told(<<>>, e) = {}
<1>1. Len(<<>>) = 0
  OBVIOUS
<1>2. QED
  BY <1>1 DEF Told

(* Snapshots: what is queued behind the newest, a newer one, the next to go. *)
LEMMA NewestStays ==
  ASSUME NEW q \in Seq(Messages), NEW b \in Seq(Messages), NEW f, NEW S, NewestIs(q, f, S),
         \A n \in 1 .. Len(b) : b[n].type # "roster"
  PROVE  NewestIs(q \o b, f, S)
<1> DEFINE u == q \o b
<1>1. /\ \A j \in 1 .. Len(u) :
            \/ j \in 1 .. Len(q) /\ u[j] = q[j]
            \/ j > Len(q) /\ j - Len(q) \in 1 .. Len(b) /\ u[j] = b[j - Len(q)]
      /\ \A j \in 1 .. Len(q) : j \in 1 .. Len(u) /\ u[j] = q[j]
  BY ConcatMembers
<1> HIDE DEF u
<1>2. \A j \in 1 .. Len(u) : u[j].type = "roster" => j \in 1 .. Len(q) /\ u[j] = q[j]
  BY <1>1
<1>3. QED
  BY <1>1, <1>2 DEF NewestIs, u

(* A snapshot queued last is the newest.                                    *)
LEMMA NewestPushed ==
  ASSUME NEW q \in Seq(Messages), NEW m \in Messages, m.type = "roster", NEW f
  PROVE  NewestIs(Append(q, m), f, m.processes)
<1> DEFINE u == Append(q, m)
<1>1. /\ Len(u) = Len(q) + 1 /\ Len(q) \in Nat /\ u[Len(q) + 1] = m
  BY AppendProperties
<1> HIDE DEF u
<1>2. Len(q) + 1 \in 1 .. Len(u) /\ \A j \in 1 .. Len(u) : j <= Len(q) + 1
  BY <1>1
<1>3. QED
  BY <1>1, <1>2 DEF NewestIs, u

(* The newest stays the newest when the queue moves on.                     *)
LEMMA NewestReceived ==
  ASSUME NEW q \in Seq(Messages), q # <<>>, NEW f, NEW g, NEW S, NewestIs(q, f, S),
         g = IF Head(q).type = "roster" THEN Head(q).processes ELSE f
  PROVE  NewestIs(Tail(q), g, S)
<1> DEFINE t == Tail(q)
<1>1. /\ Len(t) = Len(q) - 1 /\ Len(q) \in Nat /\ Len(q) >= 1
      /\ \A j \in 1 .. Len(t) : t[j] = q[j + 1]
      /\ Head(q) = q[1]
  BY HeadTailProperties, EmptySeq
<1> HIDE DEF t
<1>2. \A j \in 1 .. Len(t) : j + 1 \in 1 .. Len(q) /\ t[j] = q[j + 1] /\ j + 1 # 1 /\ j + 1 > 1
  BY <1>1
<1>3. 1 \in 1 .. Len(q)
  BY <1>1
<1>4. CASE (\A m \in 1 .. Len(q) : q[m].type # "roster") /\ f = S
  BY <1>1, <1>2, <1>3, <1>4 DEF NewestIs, t
<1>5. ASSUME NEW n \in 1 .. Len(q), q[n].type = "roster", q[n].processes = S,
             \A m \in 1 .. Len(q) : q[m].type = "roster" => m <= n
      PROVE  NewestIs(t, g, S)
  <2>1. CASE n = 1
    <3>1. g = S
      BY <1>1, <1>5, <2>1
    <3>2. ASSUME NEW m \in 1 .. Len(t)
          PROVE  t[m].type # "roster"
      <4>1. ~(m + 1 <= n)
        BY <1>2, <2>1
      <4>2. QED
        BY <1>2, <1>5, <4>1
    <3>3. QED
      BY <3>1, <3>2 DEF NewestIs
  <2>2. CASE n # 1
    <3>1. n - 1 \in 1 .. Len(t) /\ (n - 1) + 1 = n
      BY <1>1, <2>2
    <3>2. t[n - 1] = q[n]
      BY <1>1, <3>1
    <3>3. ASSUME NEW m \in 1 .. Len(t), t[m].type = "roster"
          PROVE  m <= n - 1
      <4>1. m + 1 <= n
        BY <1>2, <1>5, <3>3
      <4>2. QED
        BY <4>1
    <3>4. QED
      BY <1>5, <3>1, <3>2, <3>3 DEF NewestIs
  <2>3. QED
    BY <2>1, <2>2
<1>6. QED
  BY <1>4, <1>5 DEF NewestIs, t

-----------------------------------------------------------------------------
(* What a step lets a client know. *)

(* That the processes of J joined and those of L left.                       *)
Hears(d, J, L) ==
  /\ Joined(d)' \subseteq Joined(d) \cup J
  /\ Left(d)' \subseteq Left(d) \cup L
  /\ Standing(d)' => /\ Standing(d)
                     /\ Joined(d)' = Joined(d) \cup J
                     /\ Left(d)' = Left(d) \cup L

KeepsSnapshot(d) ==
  \A S \in SUBSET Ids :
    NewestIs(outbound[d], seen[d].snapshot, S) => NewestIs(outbound'[d], seen'[d].snapshot, S)

Notified(d, J, L) == Hears(d, J, L) /\ (Standing(d)' => KeepsSnapshot(d))

(* A client to which nothing happens hears of nothing.                      *)
LEMMA Unnoticed ==
  ASSUME NEW d \in Conns, outbound'[d] = outbound[d], seen'[d] = seen[d], lost'[d] = lost[d],
         sinkOpen'[d] = sinkOpen[d]
  PROVE  Notified(d, {}, {})
BY DEF Notified, Hears, KeepsSnapshot, Joined, Left, Standing

(* A client hears of the events of the batch, if they get through.          *)
LEMMA BatchHeard ==
  ASSUME TypeOK, NEW batch \in [Conns -> Seq(Messages)], TrySend(batch),
         UNCHANGED <<seen, sinkOpen>>, NEW d \in Conns,
         \A n \in 1 .. Len(batch[d]) : batch[d][n].type # "roster"
  PROVE  Notified(d, Told(batch[d], "registered"), Told(batch[d], "unregistered"))
<1> DEFINE b == batch[d]
<1>1. b \in Seq(Messages) /\ outbound[d] \in Seq(Messages) /\ seen'[d] = seen[d]
  BY DEF TypeOK
<1>2. outbound'[d] = outbound[d] \/ outbound'[d] = Offer(outbound[d], b)
  BY DEF TrySend
<1>3. \A e : Told(outbound'[d], e) \subseteq Told(outbound[d], e) \cup Told(b, e)
  BY <1>1, <1>2, ToldOffer
<1>4. ASSUME Standing(d)'
      PROVE  Standing(d) /\ outbound'[d] = outbound[d] \o b
  <2>1. sinkOpen[d] /\ ~lost'[d]
    BY <1>4 DEF Standing
  <2>2. QED
    BY <2>1, Delivered DEF Standing
<1> HIDE DEF b
<1>5. Standing(d)' => \A e : Told(outbound'[d], e) = Told(outbound[d], e) \cup Told(b, e)
  <2> SUFFICES ASSUME Standing(d)', NEW e
               PROVE  Told(outbound'[d], e) = Told(outbound[d], e) \cup Told(b, e)
    OBVIOUS
  <2>1. Told(outbound[d] \o b, e) = Told(outbound[d], e) \cup Told(b, e)
    BY <1>1, ToldConcat
  <2>2. QED
    BY <1>4, <2>1
<1>6. Standing(d)' => KeepsSnapshot(d)
  BY <1>1, <1>4, NewestStays DEF KeepsSnapshot, b
<1>7. Hears(d, Told(b, "registered"), Told(b, "unregistered"))
  BY <1>1, <1>3, <1>4, <1>5 DEF Hears, Joined, Left
<1>8. QED
  BY <1>6, <1>7 DEF Notified, b

(* A recipient of a broadcast hears of its event.                           *)
LEMMA BroadcastHeard ==
  ASSUME TypeOK, NEW R, NEW topic, NEW m \in Messages, m.type # "roster", Broadcast(R, topic, m),
         UNCHANGED <<seen, sinkOpen>>, NEW d \in Conns
  PROVE  Notified(d, IF Recipient(d, R, topic) THEN {p \in Ids : m = Event("registered", p)} ELSE {},
                     IF Recipient(d, R, topic) THEN {p \in Ids : m = Event("unregistered", p)} ELSE {})
<1> DEFINE b == [c \in Conns |-> IF Recipient(c, R, topic) THEN <<m>> ELSE <<>>]
<1>1. /\ <<m>> \in Seq(Messages) /\ <<>> \in Seq(Messages)
      /\ Len(<<m>>) = 1 /\ <<m>>[1] = m /\ Len(<<>>) = 0
  OBVIOUS
<1>2. b \in [Conns -> Seq(Messages)] /\ b[d] = IF Recipient(d, R, topic) THEN <<m>> ELSE <<>>
  BY <1>1
<1>3. TrySend(b)
  BY DEF Broadcast, Recipient
<1> HIDE DEF b
<1>4. \A n \in 1 .. Len(b[d]) : b[d][n].type # "roster"
  BY <1>1, <1>2
<1>5. Notified(d, Told(b[d], "registered"), Told(b[d], "unregistered"))
  BY <1>2, <1>3, <1>4, BatchHeard
<1>6. \A e : Told(b[d], e) = IF Recipient(d, R, topic) THEN {p \in Ids : m = Event(e, p)} ELSE {}
  BY <1>2, ToldOne, ToldNothing
<1>7. QED
  BY <1>5, <1>6

(* Of a process that leaves.                                                *)
LEMMA DropHeard ==
  ASSUME TypeOK, NEW p \in Ids, roster[p] # None, DropProcess(p), UNCHANGED <<seen, sinkOpen>>,
         NEW d \in Conns
  PROVE  Notified(d, {}, IF Recipient(d, roster', "roster_changed") THEN {p} ELSE {})
<1> DEFINE m == Event("unregistered", p)
<1>1. /\ m \in Messages /\ m.type # "roster"
      /\ {q \in Ids : m = Event("registered", q)} = {}
      /\ {q \in Ids : m = Event("unregistered", q)} = {p}
  BY MessageTypes DEF Events, Event
<1>2. Broadcast(roster', "roster_changed", m)
  BY DEF DropProcess
<1> HIDE DEF m
<1>3. QED
  BY <1>1, <1>2, BroadcastHeard

(* Of a process that registers.                                             *)
LEMMA RegisterHeard ==
  ASSUME TypeOK, NEW c \in Conns, NEW profile \in Profiles, Register(c, profile), NEW d \in Conns
  PROVE  Notified(d, IF Recipient(d, roster', "roster_changed") THEN {nextProcessId} ELSE {}, {})
<1> DEFINE m == Event("registered", nextProcessId)
<1>1. /\ m \in Messages /\ m.type # "roster"
      /\ {q \in Ids : m = Event("registered", q)} = {nextProcessId}
      /\ {q \in Ids : m = Event("unregistered", q)} = {}
  BY MessageTypes DEF Events, Event, TypeOK
<1>2. Broadcast(roster', "roster_changed", m) /\ UNCHANGED <<seen, sinkOpen>>
  BY DEF Register, clientSide
<1> HIDE DEF m
<1>3. QED
  BY <1>1, <1>2, BroadcastHeard

(* A new label says of nobody that it joined or left.                       *)
LEMMA LabelHeard ==
  ASSUME TypeOK, NEW c \in Conns, UpdateLabel(c), NEW d \in Conns
  PROVE  Notified(d, {}, {})
<1> DEFINE p == session[c].pid
           m == Event("label_updated", p)
<1>1. p \in Ids /\ UNCHANGED <<seen, sinkOpen>>
  BY DEF UpdateLabel, Registered, TypeOK, Session, clientSide
<1>2. /\ m \in Messages /\ m.type # "roster"
      /\ {q \in Ids : m = Event("registered", q)} = {}
      /\ {q \in Ids : m = Event("unregistered", q)} = {}
  BY <1>1, MessageTypes DEF Events, Event
<1>3. UNCHANGED <<outbound, lost>> \/ Broadcast(roster, "roster_changed", m)
  BY DEF UpdateLabel
<1> HIDE DEF m, p
<1>4. CASE Broadcast(roster, "roster_changed", m)
  BY <1>1, <1>2, <1>4, BroadcastHeard
<1>5. QED
  BY <1>1, <1>3, <1>4, Unnoticed

(* Publications and new couplers send updates only. *)
LEMMA UpdatesHeard ==
  ASSUME TypeOK, NEW c \in Conns,
         \/ \E i \in Foci : PublishInterest(c, i)
         \/ \E master, follower \in Ids, kind \in UsedKinds : CouplerCreate(c, master, follower, kind),
         NEW d \in Conns
  PROVE  Notified(d, {}, {})
<1>1. UNCHANGED <<seen, sinkOpen>>
  BY DEF PublishInterest, CouplerCreate, clientSide
<1>2. ASSUME NEW batch \in [Conns -> Seq(Messages)], TrySend(batch),
             \A n \in 1 .. Len(batch[d]) : \E k, i : batch[d][n] = Update(k, i)
      PROVE  Notified(d, {}, {})
  <2>1. \A n \in 1 .. Len(batch[d]) : batch[d][n].type = "coupler_update"
    <3>1. \A k, i : Update(k, i).type = "coupler_update"
      BY DEF Update
    <3>2. QED
      BY <1>2, <3>1
  <2>2. \A e, p : Event(e, p).type = "roster_changed"
    BY DEF Event
  <2>3. \A e : Told(batch[d], e) = {}
    BY <2>1, <2>2 DEF Told
  <2>4. QED
    BY <1>1, <1>2, <2>1, <2>3, BatchHeard
<1>3. ASSUME NEW i \in Foci, PublishInterest(c, i)
      PROVE  Notified(d, {}, {})
  <2>1. PICK D \in SUBSET couplers : \E b \in Batches(D, i) : TrySend(b)
    BY <1>3 DEF PublishInterest, LedBy
  <2>2. PICK b \in Batches(D, i) : TrySend(b)
    BY <2>1
  <2>3. b \in [Conns -> Seq(Messages)]
    BY <2>1, BatchType
  <2>4. PICK n \in 0 .. MaxCouplers : b[d] \in [1 .. n -> UpdatesTo(d, D, i)]
    BY DEF Batches, Orders
  <2>5. Len(b[d]) = n
    BY <2>3, <2>4, BoundsAssumption, LenProperties
  <2>6. \A j \in 1 .. Len(b[d]) : b[d][j] \in UpdatesTo(d, D, i)
    BY <2>4, <2>5
  <2>7. \A j \in 1 .. Len(b[d]) : \E k, f : b[d][j] = Update(k, f)
    BY <2>6 DEF UpdatesTo
  <2>8. QED
    BY <1>2, <2>2, <2>3, <2>7
<1>4. ASSUME NEW master \in Ids, NEW follower \in Ids, NEW kind \in UsedKinds,
             CouplerCreate(c, master, follower, kind)
      PROVE  Notified(d, {}, {})
  <2> DEFINE focus == roster[master].interest
             first == Update(nextCouplerId, focus)
             update == [e \in Conns |-> IF e = roster[follower].conn THEN <<first>> ELSE <<>>]
  <2>1. \/ UNCHANGED <<outbound, lost>>
        \/ focus # None /\ roster[master] # None /\ TrySend(update)
    BY <1>4 DEF CouplerCreate
  <2>2. CASE focus # None /\ roster[master] # None /\ TrySend(update)
    <3>1. focus \in Foci
      BY <2>2 DEF TypeOK, Info
    <3>2. first \in Messages
      BY <3>1, MessageTypes DEF TypeOK
    <3> HIDE DEF first
    <3>3. <<first>> \in Seq(Messages) /\ <<>> \in Seq(Messages)
          /\ Len(<<first>>) = 1 /\ <<first>>[1] = first /\ Len(<<>>) = 0
      BY <3>2
    <3>4. update \in [Conns -> Seq(Messages)]
          /\ (update[d] = <<first>> \/ update[d] = <<>>)
      BY <3>3
    <3> HIDE DEF update
    <3>5. \A n \in 1 .. Len(update[d]) : update[d][n] = first
      BY <3>3, <3>4
    <3>6. \E k, i : first = Update(k, i)
      BY DEF first
    <3>7. QED
      BY <1>2, <2>2, <3>4, <3>5, <3>6
  <2>3. QED
    BY <1>1, <2>1, <2>2, Unnoticed
<1>5. QED
  BY <1>3, <1>4

(* An answer queued is no event; only a snapshot is newer than the others.  *)
LEMMA PushedHeard ==
  ASSUME TypeOK, NEW c \in Conns, PushReply(c), NEW d \in Conns
  PROVE  /\ Hears(d, {}, {})
         /\ Standing(d)' => \/ KeepsSnapshot(d) /\ (d = c => session[d].reply.type # "roster")
                            \/ /\ d = c /\ session[d].reply.type = "roster"
                               /\ NewestIs(outbound'[d], seen'[d].snapshot, session[d].reply.processes)
<1>1. UNCHANGED <<sinkOpen, lost, seen>>
  BY DEF PushReply, clientSide
<1>2. CASE outbound'[d] = outbound[d] /\ (d # c \/ ~sinkOpen[d])
  <2>1. Notified(d, {}, {})
    BY <1>1, <1>2, Unnoticed
  <2>2. QED
    BY <1>1, <1>2, <2>1 DEF Notified, Standing
<1>3. CASE d = c /\ outbound'[d] = Append(outbound[d], session[d].reply)
  <2> DEFINE r == session[d].reply
             q == outbound[d]
  <2>1. r \in Replies
    BY <1>3 DEF PushReply, TypeOK, Session
  <2>2. r \in Messages /\ q \in Seq(Messages) /\ \A e, p : r # Event(e, p)
    <3>1. r.type # "roster_changed"
      BY <2>1 DEF Replies, Ok, Refusal, Snapshot, Removed
    <3>2. \A e, p : Event(e, p).type = "roster_changed"
      BY DEF Event
    <3>3. QED
      BY <2>1, <3>1, <3>2, MessageTypes DEF TypeOK
  <2>3. outbound'[d] = Append(q, r)
    BY <1>3
  <2> HIDE DEF r, q
  <2>4. /\ Append(q, r) = q \o <<r>>
        /\ <<r>> \in Seq(Messages) /\ Len(<<r>>) = 1 /\ <<r>>[1] = r
    BY <2>2
  <2>5. \A e : Told(<<r>>, e) = {}
    BY <2>2, ToldOne
  <2>6. \A e : Told(outbound'[d], e) = Told(q, e)
    <3> SUFFICES ASSUME NEW e PROVE Told(outbound'[d], e) = Told(q, e)
      OBVIOUS
    <3>1. Told(q \o <<r>>, e) = Told(q, e) \cup Told(<<r>>, e)
      <4> DEFINE u == <<r>>
      <4>1. q \in Seq(Messages) /\ u \in Seq(Messages)
        BY <2>2, <2>4
      <4> HIDE DEF u
      <4>2. Told(q \o u, e) = Told(q, e) \cup Told(u, e)
        BY <4>1, ToldConcat
      <4> QED BY <4>2 DEF u
    <3>2. QED
      BY <2>3, <2>4, <2>5, <3>1
  <2>7. Hears(d, {}, {})
    BY <1>1, <2>6 DEF Hears, Joined, Left, Standing, q
  <2>8. CASE r.type = "roster"
    <3>1. NewestIs(outbound'[d], seen'[d].snapshot, r.processes)
      BY <2>2, <2>3, <2>8, NewestPushed
    <3>2. QED
      BY <1>3, <2>7, <2>8, <3>1 DEF r
  <2>9. CASE r.type # "roster"
    <3>1. \A n \in 1 .. Len(<<r>>) : <<r>>[n].type # "roster"
      BY <2>4, <2>9
    <3>2. \A f, S : NewestIs(q, f, S) => NewestIs(outbound'[d], f, S)
      BY <2>2, <2>3, <2>4, <3>1, NewestStays
    <3>3. KeepsSnapshot(d)
      BY <1>1, <3>2 DEF KeepsSnapshot, q
    <3>4. QED
      BY <2>7, <2>9, <3>3 DEF r
  <2>10. QED
    BY <2>8, <2>9
<1>4. \/ outbound'[d] = outbound[d] /\ (d # c \/ ~sinkOpen[d])
      \/ d = c /\ outbound'[d] = Append(outbound[d], session[d].reply)
  <2>1. CASE ~sinkOpen[c] /\ UNCHANGED outbound
    BY <2>1
  <2>2. CASE outbound' = [outbound EXCEPT ![c] = Append(outbound[c], session[c].reply)]
    BY <2>2 DEF TypeOK
  <2>3. QED
    BY <2>1, <2>2 DEF PushReply
<1>5. QED
  BY <1>2, <1>3, <1>4

(* What was queued is now received. *)
LEMMA SentHeard ==
  ASSUME TypeOK, NEW c \in Conns, WriterSends(c), NEW d \in Conns
  PROVE  Hears(d, {}, {}) /\ (Standing(d)' /\ mirror[d] = "synced" => KeepsSnapshot(d))
<1>1. UNCHANGED <<sinkOpen, lost>>
  BY DEF WriterSends
<1>2. CASE d # c
  <2>1. Notified(d, {}, {})
    BY <1>1, <1>2, Unnoticed DEF WriterSends, TypeOK
  <2>2. QED
    BY <2>1 DEF Notified
<1>3. CASE d = c
  <2> DEFINE q == outbound[d]
             s == seen[d]
             t == Received(d, s, Head(q))
  <2>1. /\ q \in Seq(Messages) /\ q # <<>> /\ outbound'[d] = Tail(q)
        /\ s \in Seen /\ seen'[d] = t
    BY <1>3 DEF WriterSends, TypeOK
  <2>2. Head(q) \in Messages
    BY <2>1, HeadTailProperties
  <2>3. /\ t.joined = s.joined \cup {p \in Ids : Head(q) = Event("registered", p)}
        /\ t.left = s.left \cup {p \in Ids : Head(q) = Event("unregistered", p)}
        /\ mirror[d] = "synced" => t.snapshot = IF Head(q).type = "roster" THEN Head(q).processes ELSE s.snapshot
    <3> DEFINE m == Head(q)
    <3> HIDE DEF q, s
    <3>1. CASE m.type # "roster_changed"
      <4>1. \A e, p : Event(e, p).type = "roster_changed"
        BY DEF Event
      <4>2. \A e : {p \in Ids : m = Event(e, p)} = {}
        BY <3>1, <4>1
      <4>3. /\ t.joined = s.joined /\ t.left = s.left
            /\ mirror[d] = "synced" => t.snapshot = IF m.type = "roster" THEN m.processes ELSE s.snapshot
        BY <2>1, <3>1 DEF Received, Seen
      <4>4. QED
        BY <4>2, <4>3
    <3>2. ASSUME NEW e \in Events, NEW p \in Ids, m = Event(e, p)
          PROVE  /\ t.joined = s.joined \cup {x \in Ids : m = Event("registered", x)}
                 /\ t.left = s.left \cup {x \in Ids : m = Event("unregistered", x)}
                 /\ t.snapshot = s.snapshot /\ m.type # "roster"
      <4>1. m.type = "roster_changed" /\ m.event = e /\ m.process = p
        BY <3>2 DEF Event
      <4>2. /\ t.joined = IF e = "registered" THEN s.joined \cup {p} ELSE s.joined
            /\ t.left = IF e = "unregistered" THEN s.left \cup {p} ELSE s.left
            /\ t.snapshot = s.snapshot
        BY <2>1, <4>1 DEF Received, Seen
      <4>3. \A f, x : Event(e, p) = Event(f, x) <=> e = f /\ p = x
        BY DEF Event
      <4>4. \A f : {x \in Ids : m = Event(f, x)} = IF e = f THEN {p} ELSE {}
        BY <3>2, <4>3
      <4>5. QED
        BY <4>1, <4>2, <4>4
    <3>3. m.type = "roster_changed" => \E e \in Events, p \in Ids : m = Event(e, p)
      BY <2>2 DEF Messages, Replies, Ok, Refusal, Snapshot, Removed, Update
    <3>4. QED
      BY <3>1, <3>2, <3>3
  <2> HIDE DEF q, s, t
  <2>4. \A e : Told(q, e) = Told(Tail(q), e) \cup {p \in Ids : Head(q) = Event(e, p)}
    BY <2>1, ToldTail
  <2>5. Joined(d)' = Joined(d) /\ Left(d)' = Left(d)
    BY <2>1, <2>3, <2>4 DEF Joined, Left, q, s
  <2>6. mirror[d] = "synced" => \A S : NewestIs(q, s.snapshot, S) => NewestIs(Tail(q), t.snapshot, S)
    BY <2>1, <2>3, NewestReceived
  <2>7. mirror[d] = "synced" => KeepsSnapshot(d)
    BY <2>1, <2>6 DEF KeepsSnapshot, q, s
  <2>8. QED
    BY <1>1, <2>5, <2>7 DEF Hears, Standing
<1>4. QED
  BY <1>2, <1>3

(* A writer that fails takes its queue with it.                             *)
LEMMA FailedHeard ==
  ASSUME TypeOK, NEW c \in Conns, WriterFails(c), NEW d \in Conns
  PROVE  Notified(d, {}, {})
<1>1. CASE d # c
  BY <1>1, Unnoticed DEF WriterFails, TypeOK, clientSide
<1>2. CASE d = c
  <2>1. outbound'[d] = <<>> /\ ~sinkOpen'[d] /\ seen' = seen
    BY <1>2 DEF WriterFails, TypeOK, clientSide
  <2>2. QED
    BY <2>1, ToldNothing DEF Notified, Hears, Joined, Left, Standing
<1>3. QED
  BY <1>1, <1>2

-----------------------------------------------------------------------------
(* The invariant. *)

(* A client that gets whatever is sent to it and has not unsubscribed.        *)
Tracking(d) == Standing(d) /\ session[d].pid # None /\ mirror[d] # "given_up"
Subscribed(d) == session[d].pid \in subscriptions["roster_changed"]

(* The newest snapshot there is for a client: the one its reader thread is    *)
(* about to queue, or else the newest in its queue or received.             *)
Newest(d, S) ==
  IF session[d].reply # None /\ session[d].reply.type = "roster"
    THEN session[d].reply.processes = S
    ELSE NewestIs(outbound[d], seen[d].snapshot, S)

(* Events are about the past: whoever left is not in the roster, and whoever *)
(* joined is unless it left, as far as the client was subscribed.           *)
Past(d) ==
  /\ session[d].reply # None => Answering(d)
  /\ mirror[d] # "none" => session[d].ever
  /\ Joined(d) \subseteq 1 .. registrations
  /\ \A p \in Left(d) : p \in 1 .. registrations /\ roster[p] = None
  /\ ~session[d].ever \/ (Tracking(d) /\ ~Subscribed(d)) => Joined(d) = {}
  /\ Tracking(d) => Joined(d) \ Left(d) \subseteq Live
  /\ Tracking(d) /\ mirror[d] = "synced" => Subscribed(d)

Follows(d) ==
  Tracking(d) /\ mirror[d] = "synced" =>
    \E S \in SUBSET Ids : Newest(d, S) /\ (S \cup Joined(d)) \ Left(d) = Live

MirrorInv ==
  /\ TablesInv
  /\ registrations < IdModulus => \A d \in Conns : Past(d) /\ Follows(d)

-----------------------------------------------------------------------------
(* Steps that leave who is in the roster as it is. *)

Thread(c) == PushReply(c) \/ ReaderBreaks(c) \/ WriterSends(c) \/ WriterFails(c) \/ ClientGoes(c)

(* Calls and threads change nobody's place in the roster.                   *)
LEMMA LiveKept ==
  ASSUME TypeOK, NEW c \in Conns, Call(c) \/ Thread(c)
  PROVE  /\ SameOwners /\ registrations' = registrations
         /\ \A p \in Ids : roster'[p] = None <=> roster[p] = None
         /\ Live' = Live
<1>1. SameOwners /\ (Untouched \/ Refocused \/ Coupled \/ Uncoupled \/ Resubscribed)
  BY CallEffect, ThreadEffect DEF Thread
<1>2. registrations' = registrations
  BY <1>1 DEF Untouched, Refocused, Coupled, Uncoupled, Resubscribed
<1>3. roster' = roster \/ Refocused
  BY <1>1 DEF Untouched, Coupled, Uncoupled, Resubscribed
<1>4. \A p \in Ids : roster'[p] = None <=> roster[p] = None
  BY <1>3, RefocusedEntry
<1>5. QED
  BY <1>1, <1>2, <1>4 DEF Live

(* Nor do calls tell of any that changed.                                   *)
LEMMA CallHeard ==
  ASSUME TypeOK, NEW c \in Conns, Call(c), NEW d \in Conns
  PROVE  Notified(d, {}, {})
<1>1. CASE UNCHANGED <<outbound, lost, seen, sinkOpen>>
  BY <1>1, Unnoticed
<1>2. CASE UpdateLabel(c)
  BY <1>2, LabelHeard
<1>3. CASE \/ \E i \in Foci : PublishInterest(c, i)
           \/ \E master, follower \in Ids, kind \in UsedKinds : CouplerCreate(c, master, follower, kind)
  BY <1>3, UpdatesHeard
<1>4. QED
  BY <1>1, <1>2, <1>3
  DEF Call, Refuse, HandlerPanics, RosterSnapshot, CouplerRemove, Subscribe, Unsubscribe, clientSide

(* Who is subscribed, and what the clients claim. *)
LEMMA ClaimsMove ==
  ASSUME TypeOK, OwnersAgree, registrations < IdModulus, NEW c \in Conns, Call(c) \/ Thread(c),
         NEW d \in Conns
  PROVE  /\ \/ mirror'[d] = mirror[d]
            \/ mirror'[d] = "given_up" /\ session[d].pid # None
            \/ /\ d = c /\ RosterSnapshot(c) /\ session[d].pid # None
               /\ mirror[d] = "none" /\ mirror'[d] = "synced" /\ Subscribed(d)
         /\ Subscribed(d) /\ mirror'[d] # "given_up" => session[d].pid \in subscriptions'["roster_changed"]
<1>1. CASE UNCHANGED <<mirror, subscriptions>>
  BY <1>1 DEF Subscribed
<1>2. CASE RosterSnapshot(c)
  BY <1>2 DEF RosterSnapshot, Registered, Subscribed, stateThread, TypeOK
<1>3. ASSUME NEW topic \in UsedTopics, Subscribe(c, topic)
      PROVE  mirror' = mirror /\ subscriptions["roster_changed"] \subseteq subscriptions'["roster_changed"]
  <2>1. mirror' = mirror
        /\ \/ UNCHANGED subscriptions
           \/ subscriptions' = [subscriptions EXCEPT ![topic] = subscriptions[topic] \cup {session[c].pid}]
    BY <1>3 DEF Subscribe
  <2>2. \A t \in Topics : subscriptions[t] \subseteq subscriptions'[t]
    BY <2>1 DEF TypeOK
  <2>3. "roster_changed" \in Topics
    BY DEF Topics
  <2>4. QED
    BY <2>1, <2>2, <2>3
<1>4. ASSUME NEW topic \in UsedTopics, Unsubscribe(c, topic)
      PROVE  /\ mirror'[d] = mirror[d] \/ (mirror'[d] = "given_up" /\ session[d].pid # None)
             /\ Subscribed(d) /\ mirror'[d] # "given_up" => session[d].pid \in subscriptions'["roster_changed"]
  <2>1. /\ session[c].pid \in Ids
        /\ subscriptions' = [subscriptions EXCEPT ![topic] = subscriptions[topic] \ {session[c].pid}]
        /\ mirror' = IF topic = "roster_changed" THEN [mirror EXCEPT ![c] = "given_up"] ELSE mirror
    BY <1>4 DEF Unsubscribe, Registered, TypeOK, Session
  <2>2. CASE topic # "roster_changed"
    BY <2>1, <2>2 DEF Subscribed, TypeOK
  <2>3. CASE topic = "roster_changed" /\ d = c
    BY <2>1, <2>3, IdTypes DEF TypeOK
  <2>4. CASE topic = "roster_changed" /\ d # c
    <3>1. session[d].pid # session[c].pid
      BY <2>1, <2>4 DEF OwnersAgree
    <3>2. mirror'[d] = mirror[d]
      BY <2>1, <2>4 DEF TypeOK
    <3>3. topic \in Topics /\ subscriptions'["roster_changed"] = subscriptions["roster_changed"] \ {session[c].pid}
      BY <2>1, <2>4, InputsAssumption DEF TypeOK
    <3>4. QED
      BY <3>1, <3>2, <3>3 DEF Subscribed
  <2>5. QED
    BY <2>2, <2>3, <2>4
<1>5. \/ UNCHANGED <<mirror, subscriptions>> \/ RosterSnapshot(c)
      \/ \E topic \in UsedTopics : Subscribe(c, topic) \/ Unsubscribe(c, topic)
  BY DEF Call, Thread, Refuse, HandlerPanics, UpdateLabel, PublishInterest, CouplerCreate, CouplerRemove,
         PushReply, ReaderBreaks, WriterSends, WriterFails, ClientGoes, stateThread
<1>6. QED
  BY <1>1, <1>2, <1>3, <1>4, <1>5 DEF Subscribed

(* What a reader thread holds. *)
LEMMA RepliesHeld ==
  ASSUME TypeOK, NEW c \in Conns, Call(c) \/ Thread(c), NEW d \in Conns,
         session[d].reply # None => Answering(d)
  PROVE  /\ session'[d].reply # None => Answering(d)'
         /\ \/ session'[d].reply = session[d].reply
            \/ /\ d = c /\ Call(c) /\ session[d].reply = None /\ session'[d].reply.type # "roster"
            \/ d = c /\ RosterSnapshot(c) /\ session'[d].reply = Snapshot(Live)
            \/ d = c /\ PushReply(c) /\ session'[d].reply = None
<1>0. session \in [Conns -> Session]
  BY DEF TypeOK
<1> USE DEF Answering
<1>1. CASE UNCHANGED session \/ d # c
  <2>1. session'[d] = session[d]
    <3> SUFFICES ASSUME d # c PROVE session'[d] = session[d]
      BY <1>1
    <3>1. CASE Thread(c)
      BY <1>0, <3>1 DEF Thread, PushReply, ReaderBreaks, WriterSends, WriterFails, ClientGoes
    <3>2. \A r : Answer(c, r) => session'[d] = session[d]
      BY <1>0 DEF Answer
    <3>3. HandlerPanics(c) => session'[d] = session[d]
      BY <1>0 DEF HandlerPanics
    <3>4. CASE Call(c)
      BY <3>2, <3>3, <3>4 DEF Call, Refuse, UpdateLabel, RosterSnapshot, PublishInterest, CouplerCreate,
                              CouplerRemove, Subscribe, Unsubscribe
    <3>5. QED
      BY <3>1, <3>4
  <2>2. QED
    BY <2>1
<1>2. ASSUME NEW r \in {Ok, Refusal} \cup {Removed(k.id) : k \in couplers}, Answer(c, r), d = c, Reading(c), Call(c)
      PROVE  /\ Answering(d)'
             /\ d = c /\ Call(c) /\ session[d].reply = None /\ session'[d].reply.type # "roster"
  <2>1. session'[d].reply = r /\ session'[d].pc = "replying" /\ session[d].reply = None
    BY <1>0, <1>2 DEF Answer, Reading, Session
  <2>2. r.type # "roster"
    BY <1>2 DEF Ok, Refusal, Removed
  <2>3. QED
    BY <1>2, <2>1, <2>2
<1>3. CASE HandlerPanics(c) /\ d = c /\ Call(c)
  <2>1. session'[d].reply = Refusal /\ session'[d].pc = "last_reply" /\ session[d].reply = None
    BY <1>0, <1>3 DEF HandlerPanics, Reading, Session
  <2>2. QED
    BY <1>3, <2>1 DEF Refusal
<1>4. CASE RosterSnapshot(c) /\ d = c
  BY <1>0, <1>4 DEF RosterSnapshot, Answer, Session
<1>5. CASE PushReply(c) /\ d = c
  BY <1>0, <1>5 DEF PushReply, Session
<1>6. CASE ReaderBreaks(c) /\ d = c
  BY <1>0, <1>6 DEF ReaderBreaks, Reading, Session
<1>7. \/ UNCHANGED session \/ RosterSnapshot(c) \/ PushReply(c) \/ ReaderBreaks(c)
      \/ HandlerPanics(c) /\ Call(c)
      \/ /\ Reading(c) /\ Call(c)
         /\ \E r \in {Ok, Refusal} \cup {Removed(k.id) : k \in couplers} : Answer(c, r)
  <2> DEFINE Answers == \E r \in {Ok, Refusal} \cup {Removed(k.id) : k \in couplers} : Answer(c, r)
  <2>1. CASE Thread(c)
    BY <2>1 DEF Thread, WriterSends, WriterFails, ClientGoes
  <2>2. ASSUME Refuse(c) \/ UpdateLabel(c) \/ \E i \in Foci : PublishInterest(c, i)
        PROVE  UNCHANGED session \/ (Reading(c) /\ Answers)
    BY <2>2 DEF Refuse, UpdateLabel, PublishInterest, Registered
  <2>3. ASSUME NEW master \in Ids, NEW follower \in Ids, NEW kind \in UsedKinds,
               CouplerCreate(c, master, follower, kind)
        PROVE  Reading(c) /\ Answers
    <3>1. Reading(c) /\ \E r \in {Ok, Refusal} : Answer(c, r)
      BY <2>3 DEF CouplerCreate, Registered
    <3>2. QED
      BY Zenon, <3>1
  <2>6. ASSUME NEW k \in couplers, CouplerRemove(c, k)
        PROVE  Reading(c) /\ Answers
    BY Zenon, <2>6 DEF CouplerRemove, Registered
  <2>4. ASSUME NEW topic \in UsedTopics, Subscribe(c, topic) \/ Unsubscribe(c, topic)
        PROVE  UNCHANGED session \/ (Reading(c) /\ Answers)
    BY <2>4 DEF Subscribe, Unsubscribe, Registered
  <2> HIDE DEF Answers
  <2>5. CASE Call(c)
    BY Zenon, <2>2, <2>3, <2>4, <2>5, <2>6 DEF Call, Answers
  <2> QED BY <2>1, <2>5
<1>8. QED
  BY <1>1, <1>2, <1>3, <1>4, <1>5, <1>6, <1>7

(* What the client is told and what it claims go together. *)
LEMMA CallFollowed ==
  ASSUME TablesInv, registrations < IdModulus, NEW c \in Conns, Call(c) \/ Thread(c),
         NEW d \in Conns, Past(d), Follows(d)
  PROVE  Past(d)' /\ Follows(d)'
<1>1. TypeOK /\ OwnersAgree /\ OwnersRegistered
  BY DEF TablesInv
<1>2. /\ SameOwners /\ registrations' = registrations /\ Live' = Live
      /\ \A p \in Ids : roster'[p] = None <=> roster[p] = None
  BY <1>1, LiveKept
<1>3. /\ \/ mirror'[d] = mirror[d]
         \/ mirror'[d] = "given_up" /\ session[d].pid # None
         \/ /\ d = c /\ RosterSnapshot(c) /\ session[d].pid # None
            /\ mirror[d] = "none" /\ mirror'[d] = "synced" /\ Subscribed(d)
      /\ Subscribed(d) /\ mirror'[d] # "given_up" => Subscribed(d)'
  <2>1. Subscribed(d)' <=> session[d].pid \in subscriptions'["roster_changed"]
    BY <1>2 DEF Subscribed, SameOwners
  <2>2. QED
    BY <1>1, <2>1, ClaimsMove
<1>4. /\ session'[d].reply # None => Answering(d)'
      /\ \/ session'[d].reply = session[d].reply
         \/ /\ d = c /\ Call(c) /\ session[d].reply = None /\ session'[d].reply.type # "roster"
         \/ d = c /\ RosterSnapshot(c) /\ session'[d].reply = Snapshot(Live)
         \/ d = c /\ PushReply(c) /\ session'[d].reply = None
  <2>1. session[d].reply # None => Answering(d)
    BY DEF Past
  <2>2. QED
    BY <1>1, <2>1, RepliesHeld
<1>5. Hears(d, {}, {})
  <2>1. CASE UNCHANGED <<outbound, lost, seen, sinkOpen>>
    BY <2>1, Unnoticed DEF Notified
  <2>2. QED
    BY <1>1, <2>1, CallHeard, PushedHeard, SentHeard, FailedHeard DEF Notified, Thread, ReaderBreaks, ClientGoes, clientSide
<1>6. /\ Joined(d)' \subseteq Joined(d) /\ Left(d)' \subseteq Left(d)
      /\ Standing(d)' => Standing(d) /\ Joined(d)' = Joined(d) /\ Left(d)' = Left(d)
  BY <1>5 DEF Hears
<1>7. Tracking(d)' => Tracking(d) /\ (Subscribed(d) => Subscribed(d)')
  BY <1>2, <1>3, <1>6 DEF Tracking, SameOwners
<1>8. session'[d].pid = session[d].pid /\ session'[d].ever = session[d].ever
  BY <1>2 DEF SameOwners
<1>9. Past(d)'
  <2>1. mirror'[d] # "none" => session'[d].ever
    BY <1>1, <1>3, <1>8 DEF Past, OwnersRegistered
  <2>2. Joined(d)' \subseteq 1 .. registrations'
    BY <1>2, <1>6 DEF Past
  <2>3. \A p \in Left(d)' : p \in 1 .. registrations' /\ roster'[p] = None
    <3>1. Left(d) \subseteq Ids
      BY <1>1 DEF Left, Told, TypeOK, Seen
    <3>2. QED
      BY <1>2, <1>6, <3>1 DEF Past
  <2>4. ~session'[d].ever \/ (Tracking(d)' /\ ~Subscribed(d)') => Joined(d)' = {}
    BY <1>6, <1>7, <1>8 DEF Past
  <2>5. Tracking(d)' => Joined(d)' \ Left(d)' \subseteq Live'
    BY <1>2, <1>6, <1>7 DEF Past, Tracking
  <2>6. Tracking(d)' /\ mirror'[d] = "synced" => Subscribed(d)'
    BY <1>3, <1>7 DEF Past
  <2>7. QED
    BY <1>4, <2>1, <2>2, <2>3, <2>4, <2>5, <2>6 DEF Past
<1>10. Follows(d)'
  <2> SUFFICES ASSUME Tracking(d)', mirror'[d] = "synced"
               PROVE  \E S \in SUBSET Ids : Newest(d, S)' /\ (S \cup Joined(d)') \ Left(d)' = Live'
    BY DEF Follows
  <2>1. /\ Tracking(d) /\ Standing(d)' /\ Live' = Live
        /\ Joined(d)' = Joined(d) /\ Left(d)' = Left(d)
    BY <1>2, <1>6, <1>7 DEF Tracking
  <2>2. CASE d = c /\ RosterSnapshot(c)
    <3>0. session'[d].reply = Snapshot(Live)
      BY <1>1, <2>2 DEF RosterSnapshot, Answer, TypeOK, Session
    <3>1. Live \in SUBSET Ids /\ Joined(d) \ Left(d) \subseteq Live /\ Left(d) \cap Live = {}
      BY <2>1 DEF Live, Past
    <3>2. Snapshot(Live) # None
      <4>1. Snapshot(Live) \in Replies
        BY <3>1, MessageTypes
      <4>2. QED
        BY <4>1, RepliesAssumption
    <3>3. Newest(d, Live)'
      BY <2>1, <3>0, <3>2 DEF Newest, Snapshot
    <3>4. (Live \cup Joined(d)) \ Left(d) = Live
      BY <3>1
    <3>5. QED
      BY <2>1, <3>1, <3>3, <3>4
  <2>3. CASE ~(d = c /\ RosterSnapshot(c))
    <3>1. mirror[d] = "synced"
      BY <1>3, <2>3
    <3>2. PICK S \in SUBSET Ids : Newest(d, S) /\ (S \cup Joined(d)) \ Left(d) = Live
      BY <2>1, <3>1 DEF Follows
    <3>3. ~(d = c /\ PushReply(c)) => KeepsSnapshot(d)
      <4>1. CASE UNCHANGED <<outbound, lost, seen, sinkOpen>>
        BY <2>1, <4>1, Unnoticed DEF Notified
      <4>2. QED
        BY <1>1, <2>1, <3>1, <4>1, CallHeard, PushedHeard, SentHeard, FailedHeard
        DEF Notified, Thread, ReaderBreaks, ClientGoes, clientSide
    <3>4. Newest(d, S)'
      <4>1. CASE d = c /\ PushReply(c)
        <5>1. session[d].reply \in Replies /\ session[d].reply # None /\ session'[d].reply = None
          BY <1>1, <4>1, RepliesAssumption DEF PushReply, TypeOK, Session
        <5>2. \/ KeepsSnapshot(d) /\ session[d].reply.type # "roster"
              \/ /\ session[d].reply.type = "roster"
                 /\ NewestIs(outbound'[d], seen'[d].snapshot, session[d].reply.processes)
          BY <1>1, <2>1, <4>1, PushedHeard
        <5>3. NewestIs(outbound'[d], seen'[d].snapshot, S)
          BY <3>2, <5>1, <5>2 DEF Newest, KeepsSnapshot
        <5>4. QED
          BY <5>1, <5>3 DEF Newest
      <4>2. CASE ~(d = c /\ PushReply(c))
        <5>1. NewestIs(outbound[d], seen[d].snapshot, S) => NewestIs(outbound'[d], seen'[d].snapshot, S)
          BY <3>3, <4>2 DEF KeepsSnapshot
        <5>2. \/ session'[d].reply = session[d].reply
              \/ session[d].reply = None /\ session'[d].reply.type # "roster"
          BY <1>4, <2>3, <4>2
        <5>3. QED
          BY <3>2, <5>1, <5>2 DEF Newest
      <4>3. QED
        BY <4>1, <4>2
    <3>5. (S \cup Joined(d)') \ Left(d)' = Live'
      BY <2>1, <3>2
    <3>6. QED
      BY <3>4, <3>5 DEF Newest
  <2>4. QED
    BY <2>2, <2>3
<1>11. QED
  BY <1>9, <1>10

-----------------------------------------------------------------------------
(* Processes that join and leave. *)

(* The new process is told to the others that are subscribed, and it has an   *)
(* id of which nobody has been told before.                                 *)
LEMMA RegisterFollowed ==
  ASSUME TablesInv, NEW c \in Conns, NEW profile \in Profiles, Register(c, profile),
         registrations' < IdModulus,
         NEW d \in Conns, Past(d), Follows(d)
  PROVE  Past(d)' /\ Follows(d)'
<1> DEFINE id == nextProcessId
           rc == "roster_changed"
<1>1. /\ TypeOK /\ OwnersAgree /\ OwnersRegistered /\ SubscribersLive /\ IdsFresh
      /\ rc \in Topics /\ id \in Ids /\ session \in [Conns -> Session] /\ subscriptions[rc] \subseteq Ids
  BY DEF TablesInv, TypeOK, Topics
<1>2. Added(c, profile)
  BY <1>1, RegisterEffect DEF Register
<1>3. registrations < IdModulus /\ roster[id] = None
  BY <1>1, <1>2, FreshId
<1>4. /\ registrations \in Nat /\ registrations' = registrations + 1 /\ id = registrations + 1
  BY <1>1, <1>3, BoundsAssumption DEF Register, TypeOK, IdsFresh, WrappingInc
<1>5. /\ roster'[id] # None /\ roster'[id].conn = c
      /\ \A p \in Ids \ {id} : roster'[p] = roster[p]
  BY <1>1, <1>2, AddedEntry
<1>6. Live' = Live \cup {id}
  BY <1>1, <1>5 DEF Live
<1>7. /\ session[c].pid = None /\ ~session[c].ever
      /\ session'[c] = [pc |-> "replying", pid |-> id, ever |-> TRUE, reply |-> Ok]
      /\ d # c => session'[d] = session[d]
      /\ UNCHANGED <<mirror, subscriptions>>
  <2>1. session[c].pid = None
    BY <1>2 DEF Added
  <2>2. QED
    BY <1>1, <2>1 DEF Register
<1>8. Recipient(d, roster', rc) <=> Subscribed(d)
  <2>1. \A p \in subscriptions[rc] : roster[p] # None /\ p # id /\ roster'[p] = roster[p]
    BY <1>1, <1>3, <1>5 DEF SubscribersLive
  <2>2. \A p \in Ids : session[d].pid = p <=> roster[p] # None /\ roster[p].conn = d
    BY <1>1, <1>3 DEF OwnersAgree
  <2>3. subscriptions'[rc] = subscriptions[rc]
    BY <1>7
  <2> HIDE DEF rc
  <2>4. Recipient(d, roster', rc) <=> session[d].pid \in subscriptions[rc]
    BY <1>1, <2>1, <2>2, <2>3 DEF Recipient
  <2>5. QED
    BY <2>4 DEF Subscribed, rc
<1>9. Notified(d, IF Subscribed(d) THEN {id} ELSE {}, {})
  <2>1. Notified(d, IF Recipient(d, roster', rc) THEN {id} ELSE {}, {})
    BY <1>1, RegisterHeard
  <2>2. QED
    BY <1>8, <2>1
<1>10. /\ Joined(d)' \subseteq Joined(d) \cup (IF Subscribed(d) THEN {id} ELSE {}) /\ Left(d)' \subseteq Left(d)
       /\ Standing(d)' => /\ Standing(d) /\ KeepsSnapshot(d)
                          /\ Joined(d)' = Joined(d) \cup (IF Subscribed(d) THEN {id} ELSE {}) /\ Left(d)' = Left(d)
  BY <1>9 DEF Notified, Hears
<1> HIDE DEF id, rc
<1>11. \A p \in Left(d) : p # id /\ p \in 1 .. registrations' /\ roster'[p] = None
  <2>1. Left(d) \subseteq Ids
    BY <1>1 DEF Left, Told, TypeOK, Seen
  <2>2. \A p \in 1 .. registrations : p # id /\ p \in 1 .. registrations'
    BY <1>4
  <2>3. QED
    BY <1>5, <2>1, <2>2 DEF Past
<1>12. Joined(d)' \subseteq 1 .. registrations'
  <2>1. id \in 1 .. registrations' /\ 1 .. registrations \subseteq 1 .. registrations'
    BY <1>4
  <2>2. QED
    BY <1>10, <2>1 DEF Past
<1>13. CASE d = c
  <2>1. mirror'[d] = "none"
    BY <1>1, <1>7, <1>13 DEF Past
  <2>2. ~Subscribed(d)
    BY <1>1, <1>7, <1>13, IdTypes DEF Subscribed, rc
  <2>3. Joined(d)' = {}
    BY <1>7, <1>10, <1>13, <2>2 DEF Past
  <2>4. session'[d].ever /\ session'[d].pc = "replying"
    BY <1>7, <1>13
  <2>5. QED
    BY <1>10, <1>11, <1>12, <2>1, <2>3, <2>4 DEF Past, Follows, Answering
<1>14. CASE d # c
  <2>1. /\ session'[d] = session[d] /\ mirror'[d] = mirror[d] /\ (Subscribed(d)' <=> Subscribed(d))
        /\ Tracking(d)' => Tracking(d)
    BY <1>7, <1>10, <1>14 DEF Subscribed, Tracking
  <2>2. ~session[d].ever => ~Subscribed(d) /\ Joined(d) = {}
    <3>1. ~session[d].ever => session[d].pid = None
      BY <1>1 DEF OwnersRegistered
    <3>2. QED
      BY <1>1, <3>1, IdTypes DEF Subscribed, rc, Past
  <2>3. Tracking(d)' => Joined(d)' \ Left(d)' \subseteq Live'
    BY <1>6, <1>10, <2>1 DEF Tracking, Past
  <2>4. Past(d)'
    <3>1. session'[d].reply # None => Answering(d)'
      BY <2>1 DEF Past, Answering
    <3>2. mirror'[d] # "none" => session'[d].ever
      BY <2>1 DEF Past
    <3>3. ~session'[d].ever \/ (Tracking(d)' /\ ~Subscribed(d)') => Joined(d)' = {}
      BY <1>10, <2>1, <2>2 DEF Past
    <3>4. Tracking(d)' /\ mirror'[d] = "synced" => Subscribed(d)'
      BY <2>1 DEF Past
    <3>5. QED
      BY <1>10, <1>11, <1>12, <2>3, <3>1, <3>2, <3>3, <3>4 DEF Past
  <2>5. Follows(d)'
    <3> SUFFICES ASSUME Tracking(d)', mirror'[d] = "synced"
                 PROVE  \E S \in SUBSET Ids : Newest(d, S)' /\ (S \cup Joined(d)') \ Left(d)' = Live'
      BY DEF Follows
    <3>1. Tracking(d) /\ Standing(d)' /\ mirror[d] = "synced" /\ Subscribed(d)
      BY <2>1 DEF Tracking, Past
    <3>2. PICK S \in SUBSET Ids : Newest(d, S) /\ (S \cup Joined(d)) \ Left(d) = Live
      BY <3>1 DEF Follows
    <3>3. NewestIs(outbound[d], seen[d].snapshot, S) => NewestIs(outbound'[d], seen'[d].snapshot, S)
      BY <1>10, <3>1 DEF KeepsSnapshot
    <3>4. Newest(d, S)'
      BY <2>1, <3>2, <3>3 DEF Newest
    <3>5. id \notin Left(d)
      BY <1>11
    <3>6. (S \cup Joined(d)') \ Left(d)' = Live'
      BY <1>6, <1>10, <3>1, <3>2, <3>5
    <3>7. QED
      BY <3>4, <3>6
  <2>6. QED
    BY <2>4, <2>5
<1>15. QED
  BY <1>13, <1>14

(* A process that leaves is told to the others that are subscribed.           *)
LEMMA DropFollowed ==
  ASSUME TablesInv, registrations < IdModulus, NEW c \in Conns, Unregister(c) \/ Leave(c),
         NEW d \in Conns, Past(d), Follows(d)
  PROVE  Past(d)' /\ Follows(d)'
<1> DEFINE p == session[c].pid
           rc == "roster_changed"
<1>1. /\ TypeOK /\ OwnersAgree /\ OwnersRegistered /\ SubscribersLive /\ IdsFresh
      /\ rc \in Topics /\ session \in [Conns -> Session] /\ subscriptions[rc] \subseteq Ids
      /\ p \in Ids \cup {None}
  BY DEF TablesInv, TypeOK, Topics, Session
<1>2. Dropped(c) /\ UNCHANGED <<mirror, seen, sinkOpen, registrations>>
  BY <1>1, DroppedEffect DEF Unregister, Leave, counts, clientSide
<1>3. /\ session'[c].pid = None /\ session'[c].ever = session[c].ever
      /\ d = c /\ session'[d].reply # None => Answering(d)'
      /\ d # c => session'[d] = session[d]
  <2>1. CASE Unregister(c)
    BY <1>1, <2>1 DEF Unregister, Session, Answering
  <2>2. CASE Leave(c)
    <3>1. d = c => session[c].reply = None
      BY <2>2 DEF Leave, Past, Answering
    <3>2. QED
      BY <1>1, <2>2, <3>1 DEF Leave, Session
  <2>3. QED
    BY <2>1, <2>2
<1>4. session'[d].reply # None => Answering(d)'
  <2>1. session[d].reply # None => Answering(d)
    BY DEF Past
  <2>2. QED
    BY <1>3, <2>1 DEF Answering
<1>5. CASE UNCHANGED <<roster, subscriptions, outbound, lost>>
  <2>1. Notified(d, {}, {})
    BY <1>2, <1>5, Unnoticed
  <2>2. /\ Joined(d)' \subseteq Joined(d) /\ Left(d)' \subseteq Left(d) /\ Live' = Live
        /\ Standing(d)' => /\ Standing(d) /\ KeepsSnapshot(d)
                           /\ Joined(d)' = Joined(d) /\ Left(d)' = Left(d)
    BY <1>5, <2>1 DEF Notified, Hears, Live
  <2>3. Tracking(d)' => d # c /\ Tracking(d) /\ session'[d] = session[d] /\ (Subscribed(d)' <=> Subscribed(d))
    BY <1>2, <1>3, <1>5, <2>2 DEF Tracking, Subscribed
  <2>4. session'[d].ever = session[d].ever
    BY <1>3
  <2>5. Past(d)'
    BY <1>2, <1>4, <1>5, <2>2, <2>3, <2>4 DEF Past, Tracking
  <2>6. Follows(d)'
    <3> SUFFICES ASSUME Tracking(d)', mirror'[d] = "synced"
                 PROVE  \E S \in SUBSET Ids : Newest(d, S)' /\ (S \cup Joined(d)') \ Left(d)' = Live'
      BY DEF Follows
    <3>1. Tracking(d) /\ Standing(d)' /\ mirror[d] = "synced" /\ session'[d] = session[d]
      BY <1>2, <2>3 DEF Tracking
    <3>2. PICK S \in SUBSET Ids : Newest(d, S) /\ (S \cup Joined(d)) \ Left(d) = Live
      BY <3>1 DEF Follows
    <3>3. NewestIs(outbound[d], seen[d].snapshot, S) => NewestIs(outbound'[d], seen'[d].snapshot, S)
      BY <2>2, <3>1 DEF KeepsSnapshot
    <3>4. Newest(d, S)'
      BY <3>1, <3>2, <3>3 DEF Newest
    <3>5. (S \cup Joined(d)') \ Left(d)' = Live'
      BY <2>2, <3>1, <3>2
    <3>6. QED
      BY <3>4, <3>5
  <2>7. QED
    BY <2>5, <2>6
<1>6. CASE p \in Ids /\ roster[p] # None /\ DropProcess(p)
  <2>1. /\ roster' = [roster EXCEPT ![p] = None] /\ roster'[p] = None
        /\ subscriptions' = [t \in Topics |-> subscriptions[t] \ {p}]
        /\ subscriptions'[rc] = subscriptions[rc] \ {p}
        /\ \A q \in Ids : roster'[q] # None => roster[q] # None /\ q # p /\ roster'[q] = roster[q]
        /\ Live' = Live \ {p}
    BY <1>1, <1>6 DEF DropProcess, TypeOK, Live
  <2>2. p \in 1 .. registrations
    BY <1>1, <1>6 DEF IdsFresh
  <2>3. \A q \in Ids : session[d].pid = q <=> roster[q] # None /\ roster[q].conn = d
    BY <1>1 DEF OwnersAgree
  <2>4. roster[p].conn = c
    BY <1>1, <1>6 DEF OwnersAgree
  <2>5. d # c => session[d].pid # p
    BY <1>6, <2>3, <2>4
  <2>6. d # c => (Recipient(d, roster', rc) <=> Subscribed(d))
    <3>1. ASSUME d # c, NEW q \in subscriptions'[rc], roster'[q] # None, roster'[q].conn = d
          PROVE  Subscribed(d)
      BY <1>1, <2>1, <2>3, <3>1 DEF Subscribed
    <3>2. ASSUME d # c, Subscribed(d)
          PROVE  Recipient(d, roster', rc)
      <4>1. session[d].pid \in subscriptions'[rc] /\ session[d].pid \in Ids /\ session[d].pid # p
        BY <1>1, <2>1, <2>5, <3>2 DEF Subscribed
      <4>2. roster'[session[d].pid] = roster[session[d].pid]
        BY <1>1, <2>1, <4>1 DEF TypeOK
      <4>3. roster[session[d].pid] # None /\ roster[session[d].pid].conn = d
        BY <2>3, <4>1
      <4>4. QED
        BY <4>1, <4>2, <4>3 DEF Recipient
    <3>3. QED
      BY <3>1, <3>2 DEF Recipient
  <2>7. Notified(d, {}, IF Recipient(d, roster', rc) THEN {p} ELSE {})
    BY <1>1, <1>2, <1>6, DropHeard
  <2>8. /\ Joined(d)' \subseteq Joined(d) /\ Left(d)' \subseteq Left(d) \cup {p}
        /\ d # c /\ Standing(d)' =>
             /\ Standing(d) /\ KeepsSnapshot(d)
             /\ Joined(d)' = Joined(d)
             /\ Left(d)' = Left(d) \cup (IF Subscribed(d) THEN {p} ELSE {})
    BY <2>6, <2>7 DEF Notified, Hears
  <2>9. Tracking(d)' => d # c /\ Tracking(d) /\ Standing(d)' /\ session'[d] = session[d]
    BY <1>2, <1>3, <2>8 DEF Tracking
  <2>10. Tracking(d)' => (Subscribed(d)' <=> Subscribed(d))
    BY <2>1, <2>5, <2>9 DEF Subscribed
  <2> HIDE DEF p, rc
  <2>11. Past(d)'
    <3>1. mirror'[d] # "none" => session'[d].ever
      BY <1>2, <1>3 DEF Past
    <3>2. Joined(d)' \subseteq 1 .. registrations'
      BY <1>2, <2>8 DEF Past
    <3>3. \A q \in Left(d)' : q \in 1 .. registrations' /\ roster'[q] = None
      <4>1. Left(d) \subseteq Ids
        BY <1>1 DEF Left, Told, TypeOK, Seen
      <4>2. \A q \in Left(d) : q \in 1 .. registrations /\ roster[q] = None
        BY DEF Past
      <4>3. QED
        BY <1>2, <2>1, <2>2, <2>8, <4>1, <4>2
    <3>4. ~session'[d].ever \/ (Tracking(d)' /\ ~Subscribed(d)') => Joined(d)' = {}
      BY <1>3, <2>8, <2>9, <2>10 DEF Past
    <3>5. Tracking(d)' => Joined(d)' \ Left(d)' \subseteq Live'
      <4> SUFFICES ASSUME Tracking(d)' PROVE Joined(d)' \ Left(d)' \subseteq Live'
        OBVIOUS
      <4>1. Joined(d) \ Left(d) \subseteq Live /\ (~Subscribed(d) => Joined(d) = {})
        BY <2>9 DEF Past
      <4>2. QED
        BY <2>1, <2>8, <2>9, <4>1
    <3>6. Tracking(d)' /\ mirror'[d] = "synced" => Subscribed(d)'
      BY <1>2, <2>9, <2>10 DEF Past
    <3>7. QED
      BY <1>4, <3>1, <3>2, <3>3, <3>4, <3>5, <3>6 DEF Past
  <2>12. Follows(d)'
    <3> SUFFICES ASSUME Tracking(d)', mirror'[d] = "synced"
                 PROVE  \E S \in SUBSET Ids : Newest(d, S)' /\ (S \cup Joined(d)') \ Left(d)' = Live'
      BY DEF Follows
    <3>1. /\ Tracking(d) /\ Standing(d)' /\ mirror[d] = "synced" /\ session'[d] = session[d]
          /\ d # c /\ Subscribed(d)
      BY <1>2, <2>9 DEF Past
    <3>2. PICK S \in SUBSET Ids : Newest(d, S) /\ (S \cup Joined(d)) \ Left(d) = Live
      BY <3>1 DEF Follows
    <3>3. NewestIs(outbound[d], seen[d].snapshot, S) => NewestIs(outbound'[d], seen'[d].snapshot, S)
      BY <2>8, <3>1 DEF KeepsSnapshot
    <3>4. Newest(d, S)'
      BY <3>1, <3>2, <3>3 DEF Newest
    <3>5. (S \cup Joined(d)') \ Left(d)' = Live'
      BY <2>1, <2>8, <3>1, <3>2
    <3>6. QED
      BY <3>4, <3>5
  <2>13. QED
    BY <2>11, <2>12
<1>7. \/ UNCHANGED <<roster, subscriptions, outbound, lost>>
      \/ p \in Ids /\ roster[p] # None /\ DropProcess(p)
  BY <1>1 DEF Unregister, Leave, Registered, DropProcess
<1>8. QED
  BY <1>5, <1>6, <1>7

-----------------------------------------------------------------------------
(* Every step keeps the clients' idea of the roster right.                  *)
LEMMA MirrorStep == MirrorInv /\ [Next]_vars => MirrorInv'
<1> SUFFICES ASSUME MirrorInv, [Next]_vars PROVE MirrorInv'
  OBVIOUS
<1>1. TablesInv'
  BY NextTables DEF MirrorInv
<1>2. CASE Next
  <2>1. ASSUME registrations' < IdModulus, NEW d \in Conns
        PROVE  Past(d)' /\ Follows(d)'
    <3>1. PICK c \in Conns : Handshake(c) \/ Call(c) \/ Thread(c) \/ Leave(c)
      BY <1>2 DEF Next, Thread
    <3>2. registrations < IdModulus
      <4>1. TypeOK
        BY DEF MirrorInv, TablesInv
      <4>2. registrations' = registrations \/ registrations' = registrations + 1
        BY <3>1, <4>1, LiveKept DEF Handshake, Register, Unregister, Leave, counts
      <4>3. QED
        BY <2>1, <4>1, <4>2, BoundsAssumption DEF TypeOK
    <3>3. TablesInv /\ Past(d) /\ Follows(d)
      BY <2>1, <3>2 DEF MirrorInv
    <3>4. QED
      BY <2>1, <3>1, <3>2, <3>3, CallFollowed, RegisterFollowed, DropFollowed DEF Handshake
  <2>2. QED
    BY <1>1, <2>1 DEF MirrorInv
<1>3. CASE UNCHANGED vars
  <2>1. ASSUME NEW d \in Conns, Past(d), Follows(d)
        PROVE  Past(d)' /\ Follows(d)'
    BY <1>3, <2>1 DEF vars, Past, Follows, Tracking, Standing, Subscribed, Newest, Answering, Live, Joined, Left
  <2>2. registrations' = registrations
    BY <1>3 DEF vars
  <2>3. QED
    BY <1>1, <2>1, <2>2 DEF MirrorInv
<1>4. QED
  BY <1>2, <1>3

(* At first nobody has joined and nobody has been told of.                  *)
LEMMA MirrorInit == Init => MirrorInv
<1> SUFFICES ASSUME Init PROVE MirrorInv
  OBVIOUS
<1>1. ASSUME NEW d \in Conns
      PROVE  Joined(d) = {} /\ Left(d) = {}
  BY <1>1, ToldNothing DEF Init, Joined, Left
<1>2. QED
  BY <1>1, InitTables DEF Init, MirrorInv, Past, Follows

(* Until ids run out, a client that subscribed before it asked for the roster *)
(* can tell it at any time from what it got, as long as nothing is dropped     *)
(* (notify_roster, roster_snapshot).                                        *)
THEOREM RosterMirrored == Spec => []MirrorsRoster
<1>1. MirrorInv => MirrorsRoster
  <2> SUFFICES ASSUME MirrorInv, registrations < IdModulus, NEW c \in Conns, mirror[c] = "synced",
                      sinkOpen[c], ~lost[c], session[c].pid # None
               PROVE  KnownRoster(c) = Live
    BY DEF MirrorsRoster
  <2> DEFINE q == outbound[c]
             snaps == {n \in DOMAIN q : q[n].type = "roster"}
             newest == q[CHOOSE n \in snaps : \A m \in snaps : m <= n]
             held == session[c].reply # None /\ session[c].reply.type = "roster"
             snapshot == IF held THEN session[c].reply.processes
                         ELSE IF snaps # {} THEN newest.processes ELSE seen[c].snapshot
  <2>1. PICK S \in SUBSET Ids : Newest(c, S) /\ (S \cup Joined(c)) \ Left(c) = Live
    BY DEF MirrorInv, Follows, Tracking, Standing
  <2>2. DOMAIN q = 1 .. Len(q) /\ Len(q) \in Nat
    BY LenProperties DEF MirrorInv, TablesInv, TypeOK
  <2>3. KnownRoster(c) = (snapshot \cup Joined(c)) \ Left(c)
    BY <2>2 DEF KnownRoster, Joined, Left, Told
  <2>4. snaps = {n \in 1 .. Len(q) : q[n].type = "roster"}
    BY <2>2
  <2> HIDE DEF snaps, newest
  <2>5. ~held => S = IF snaps # {} THEN newest.processes ELSE seen[c].snapshot
    <3> SUFFICES ASSUME NewestIs(q, seen[c].snapshot, S)
                 PROVE  S = IF snaps # {} THEN newest.processes ELSE seen[c].snapshot
      BY <2>1 DEF Newest
    <3>1. CASE (\A m \in 1 .. Len(q) : q[m].type # "roster") /\ seen[c].snapshot = S
      BY <2>4, <3>1
    <3>2. ASSUME NEW n \in 1 .. Len(q), q[n].type = "roster", q[n].processes = S,
                 \A m \in 1 .. Len(q) : q[m].type = "roster" => m <= n
          PROVE  snaps # {} /\ newest.processes = S
      <4>1. n \in snaps /\ \A m \in snaps : m <= n
        BY <2>4, <3>2
      <4>2. \A x \in snaps : (\A m \in snaps : m <= x) => x = n
        BY <2>2, <2>4, <4>1
      <4>3. (CHOOSE x \in snaps : \A m \in snaps : m <= x) = n
        BY <4>1, <4>2
      <4>4. QED
        BY <3>2, <4>1, <4>3 DEF newest
    <3>3. QED
      BY <3>1, <3>2 DEF NewestIs
  <2>6. held => S = session[c].reply.processes
    BY <2>1 DEF Newest
  <2>7. QED
    BY <2>1, <2>3, <2>5, <2>6
<1>2. QED
  BY <1>1, MirrorInit, MirrorStep, PTL DEF Spec
=============================================================================
