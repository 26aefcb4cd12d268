---------------------------- MODULE Coordination ----------------------------
(***************************************************************************)
(* The coordination half of the montre daemon's state thread: the roster   *)
(* of registered processes, the couplers that route one process's focus to *)
(* another, and the subscriptions to server notifications; together with   *)
(* the connection threads that feed it commands and the bounded outbound   *)
(* queues through which it talks back.                                     *)
(*                                                                         *)
(* Every request makes its connection thread wait for the state thread's   *)
(* answer before it reads another frame, and the state thread takes one    *)
(* command at a time, so a command takes effect in one step.  What does    *)
(* interleave: the commands of different connections, the moment a         *)
(* connection thread gets its answer into the outbound queue (the state    *)
(* thread may push notifications there first), the writer threads, and     *)
(* clients that vanish or stop reading.                                    *)
(***************************************************************************)
EXTENDS Naturals, Sequences, FiniteSets

CONSTANTS
  Conns,             \* client connections, one reader and one writer thread each
  Calls,             \* the calls each client makes beyond registering and leaving
  Vanishing,         \* those whose clients may close their sockets
  Profiles,          \* the declarations clients register with
  UsedKinds,         \* the coupler kinds clients ask for
  Foci,              \* the interests masters publish
  UsedTopics,        \* the topics clients subscribe to
  Depth,             \* OUTBOUND_QUEUE_DEPTH
  IdModulus,         \* ids are u32: 2^32 in the code
  MaxRegistrations,  \* bound: successful registrations in a behaviour
  MaxCouplers,       \* bound: successful coupler creations in a behaviour
  None               \* "no value" (Option::None)

InterestKinds == {"position", "span", "sentence", "document", "hit", "results"}

CouplerKinds ==
  {"sentence_mirror", "alignment", "kwic_selection",
   "doc_picker_selection", "named_results_selection", "conllu_view"}

Topics == {"roster_changed", "named_results_changed"}

CallNames ==
  {"bad", "update_label", "roster", "publish", "couple", "uncouple", "subscribe", "unsubscribe"}

Ids == 0 .. IdModulus - 1

(* A roster entry (struct Connection). *)
Info == [conn : Conns, provides : SUBSET InterestKinds,
         consumes : SUBSET InterestKinds, interest : Foci \cup {None}]

ASSUME ConnsAssumption ==
  /\ None \notin Conns
  /\ Calls \in [Conns -> SUBSET CallNames]
  /\ Vanishing \subseteq Conns
ASSUME BoundsAssumption ==
  /\ Depth \in Nat \ {0}
  /\ IdModulus \in Nat /\ IdModulus > 1
  /\ MaxRegistrations \in Nat
  /\ MaxCouplers \in Nat
ASSUME ProfilesAssumption ==
  Profiles \subseteq [provides : SUBSET InterestKinds, consumes : SUBSET InterestKinds]
ASSUME InputsAssumption ==
  /\ UsedKinds \subseteq CouplerKinds
  /\ UsedTopics \subseteq Topics
  /\ \A i \in Foci : i.kind \in InterestKinds
  /\ None \notin Foci
  /\ None \notin Ids \cup Info

VARIABLES
  roster,         \* process id -> its Connection, or None
  couplers,       \* the set of live couplers
  subscriptions,  \* topic -> subscribed process ids
  nextProcessId,
  nextCouplerId,
  session,        \* connection -> its reader thread: pc and RpcContext
  outbound,       \* connection -> messages queued for its writer thread
  sinkOpen,       \* connection -> does its writer thread still receive
  gone,           \* connection -> has the client closed its socket
  seen,           \* history: what each client has received
  lost,           \* history: connections on which a notification was dropped
  mirror,         \* history: a client's claim to know the roster
  registrations,  \* history: successful registrations so far
  creations       \* history: successful coupler creations so far

stateThread == <<roster, couplers, subscriptions, nextProcessId, nextCouplerId>>
counts == <<registrations, creations>>
clientSide == <<gone, seen>>
vars == <<roster, couplers, subscriptions, nextProcessId, nextCouplerId, session,
          outbound, sinkOpen, gone, seen, lost, mirror, registrations, creations>>

-----------------------------------------------------------------------------
(* Messages to a client.  What a coupler derives from an interest is a        *)
(* function of the interest, so an update carries the interest it is derived *)
(* from in its place; the several spans an alignment may derive are one.     *)

Ok         == [type |-> "ok"]
Refusal    == [type |-> "error"]
Snapshot(S)     == [type |-> "roster", processes |-> S]
Removed(k)      == [type |-> "removed", coupler |-> k]
Event(e, p)     == [type |-> "roster_changed", event |-> e, process |-> p]
Update(k, i)    == [type |-> "coupler_update", coupler |-> k, interest |-> i]


Events  == {"registered", "unregistered", "label_updated"}
Replies == {Ok, Refusal} \cup {Snapshot(S) : S \in SUBSET Ids} \cup {Removed(k) : k \in Ids}
Messages == Replies \cup {Event(e, p) : e \in Events, p \in Ids}
                    \cup {Update(k, i) : k \in Ids, i \in Foci}

ASSUME RepliesAssumption == None \notin Replies

Coupler == [id : Ids, master : Ids, follower : Ids, kind : CouplerKinds]
Session ==
  {s \in [pc : {"reading", "replying", "last_reply", "leaving", "done"},
          pid : Ids \cup {None}, ever : BOOLEAN, reply : Replies \cup {None}] :
     s.pc \in {"replying", "last_reply"} => s.reply \in Replies}
Seen == [joined : SUBSET Ids, left : SUBSET Ids, snapshot : SUBSET Ids,
         focus : [Ids -> Foci \cup {None}]]

-----------------------------------------------------------------------------
(* The coupler graph and the compatibility matrix. *)

Live == {p \in Ids : roster[p] # None}

(* A set of processes that the edges in K never lead out of. *)
ClosedUnder(K, S) == \A k \in K : k.master \in S => k.follower \in S

(* The depth-first search from "from" over the edges in K meets "to". *)
Reaches(K, from, to) ==
  \A S \in SUBSET Ids : from \in S /\ ClosedUnder(K, S) => to \in S

(* Mutant: the search stops at direct edges.                              *)
DirectCycle(master, follower) ==
  master = follower \/ \E k \in couplers : k.master = follower /\ k.follower = master

CreatesCycle(master, follower) ==
  master = follower \/ Reaches(couplers, follower, master)

Accepts(kind) ==
  CASE kind = "sentence_mirror"         -> {"position", "span", "sentence"}
    [] kind = "alignment"               -> {"sentence", "span"}
    [] kind = "kwic_selection"          -> {"hit"}
    [] kind = "doc_picker_selection"    -> {"document"}
    [] kind = "named_results_selection" -> {"results"}
    [] kind = "conllu_view"             -> {"sentence"}

Produces(kind) ==
  CASE kind = "sentence_mirror"         -> {"sentence"}
    [] kind = "alignment"               -> {"span"}
    [] kind = "kwic_selection"          -> {"span"}
    [] kind = "doc_picker_selection"    -> {"document"}
    [] kind = "named_results_selection" -> {"results"}
    [] kind = "conllu_view"             -> {"sentence"}

Compatible(kind, provides, consumes) ==
  /\ Accepts(kind) \cap provides # {}
  /\ Produces(kind) \cap consumes # {}

(* Whether transform_interest yields a notification.  A focus the corpus   *)
(* cannot place (a position outside its document, a text with no aligned   *)
(* target, a hit of a result no longer in the table) yields none; the     *)
(* corpus is not modelled, so both outcomes are possible.                  *)
AlwaysDerives(kind, i) == kind = "sentence_mirror" /\ i.kind = "sentence"
MayDerive(kind, i) ==
  /\ i.kind \in Accepts(kind)
  /\ kind \in {"sentence_mirror", "alignment", "kwic_selection"}

WrappingInc(n) == IF n + 1 = IdModulus THEN 0 ELSE n + 1

-----------------------------------------------------------------------------
(* Outbound queues. *)

(* Mutant: the queue has no limit.                                         *)
OfferUnbounded(q, batch) == q \o batch

(* try_send of each message of a batch: whatever finds the queue full is    *)
(* dropped, what is already queued stays.  (Were the writer to make room     *)
(* halfway through a batch, what is kept would be what another order of     *)
(* the batch keeps, and every order is allowed for.)                       *)
Offer(q, batch) ==
  LET all == q \o batch IN IF Len(all) <= Depth THEN all ELSE SubSeq(all, 1, Depth)

(* Mutant: the state thread waits for room.                                *)
TrySendWaits(batch) ==
  /\ \A c \in Conns : sinkOpen[c] => Len(outbound[c] \o batch[c]) <= Depth
  /\ outbound' = [c \in Conns |-> IF sinkOpen[c] THEN outbound[c] \o batch[c]
                                                 ELSE outbound[c]]
  /\ lost' = lost

TrySend(batch) ==
  /\ outbound' = [c \in Conns |-> IF sinkOpen[c] THEN Offer(outbound[c], batch[c])
                                                 ELSE outbound[c]]
  /\ lost' = [c \in Conns |->
       \/ lost[c]
       \/ batch[c] # <<>> /\ (~sinkOpen[c] \/ Len(outbound[c] \o batch[c]) > Depth)]

(* Subscribers that are still in the roster R get the message.  A connection *)
(* owns one process at most, so it gets the message once.                  *)
Broadcast(R, topic, message) ==
  TrySend([c \in Conns |->
    IF \E p \in subscriptions'[topic] : R[p] # None /\ R[p].conn = c
      THEN <<message>> ELSE <<>>])

(* The orders in which a hash map may yield the elements of S. *)
Orders(S) ==
  {s \in UNION {[1 .. n -> S] : n \in 0 .. MaxCouplers} :
     /\ \A a, b \in DOMAIN s : a # b => s[a] # s[b]
     /\ \A x \in S : \E a \in DOMAIN s : s[a] = x}

(* What each connection may be sent when the couplers in D derive an update *)
(* from i: the updates to one follower come in any order.                  *)
UpdatesTo(c, D, i) ==
  {Update(k.id, i) : k \in {k \in D : roster[k.follower] # None /\ roster[k.follower].conn = c}}
Batches(D, i) ==
  {b \in [Conns -> UNION {Orders(UpdatesTo(c, D, i)) : c \in Conns}] :
     \A c \in Conns : b[c] \in Orders(UpdatesTo(c, D, i))}

-----------------------------------------------------------------------------
(* Requests.  The connection thread reads a frame, the state thread handles *)
(* the command, and the connection thread is left holding the answer.      *)

Reading(c) == session[c].pc = "reading"
Registered(c) == Reading(c) /\ session[c].pid # None

Answer(c, reply) ==
  session' = [session EXCEPT ![c].pc = "replying", ![c].reply = reply]

(* Everything that is answered with an error before any command is sent or *)
(* by a handler that changes nothing: a frame that does not parse, a call  *)
(* before session.register, an unsupported protocol version, a second      *)
(* session.register, bad parameters, an unknown method.                    *)
Refuse(c) ==
  /\ Reading(c)
  /\ Answer(c, Refusal)
  /\ UNCHANGED <<stateThread, outbound, sinkOpen, clientSide, lost, mirror, counts>>

Register(c, profile) ==
  LET id == nextProcessId
      entry == [conn |-> c, provides |-> profile.provides,
                consumes |-> profile.consumes, interest |-> None]
  IN
  /\ Reading(c)
  /\ ~session[c].ever
  /\ registrations < MaxRegistrations
  /\ nextProcessId' = WrappingInc(id)
  /\ roster' = [roster EXCEPT ![id] = entry]
  /\ UNCHANGED subscriptions
  /\ Broadcast(roster', "roster_changed", Event("registered", id))
  /\ session' = [session EXCEPT ![c] =
                   [pc |-> "replying", pid |-> id, ever |-> TRUE, reply |-> Ok]]
  /\ registrations' = registrations + 1
  /\ UNCHANGED <<couplers, nextCouplerId, sinkOpen, clientSide, mirror, creations>>

(* Mutants: the couplers it follows, its subscriptions or the notification  *)
(* are forgotten.                                                          *)
DropKeepsFollowed(p) ==
  IF roster[p] = None
    THEN UNCHANGED <<roster, couplers, subscriptions, outbound, lost>>
    ELSE /\ roster' = [roster EXCEPT ![p] = None]
         /\ couplers' = {k \in couplers : k.master # p}
         /\ subscriptions' = [t \in Topics |-> subscriptions[t] \ {p}]
         /\ Broadcast(roster', "roster_changed", Event("unregistered", p))
DropKeepsSubscriptions(p) ==
  IF roster[p] = None
    THEN UNCHANGED <<roster, couplers, subscriptions, outbound, lost>>
    ELSE /\ roster' = [roster EXCEPT ![p] = None]
         /\ couplers' = {k \in couplers : k.master # p /\ k.follower # p}
         /\ UNCHANGED subscriptions
         /\ Broadcast(roster', "roster_changed", Event("unregistered", p))
DropQuietly(p) ==
  /\ roster' = [roster EXCEPT ![p] = None]
  /\ couplers' = {k \in couplers : k.master # p /\ k.follower # p}
  /\ subscriptions' = [t \in Topics |-> subscriptions[t] \ {p}]
  /\ UNCHANGED <<outbound, lost>>

(* State::unregister: the process leaves the roster, and with it every     *)
(* coupler at either end of which it stood and each of its subscriptions.  *)
DropProcess(p) ==
  IF roster[p] = None
    THEN UNCHANGED <<roster, couplers, subscriptions, outbound, lost>>
    ELSE /\ roster' = [roster EXCEPT ![p] = None]
         /\ couplers' = {k \in couplers : k.master # p /\ k.follower # p}
         /\ subscriptions' = [t \in Topics |-> subscriptions[t] \ {p}]
         /\ Broadcast(roster', "roster_changed", Event("unregistered", p))

Unregister(c) ==
  /\ Registered(c)
  /\ DropProcess(session[c].pid)
  /\ session' = [session EXCEPT ![c].pc = "replying", ![c].pid = None, ![c].reply = Ok]
  /\ UNCHANGED <<nextProcessId, nextCouplerId, sinkOpen, clientSide, mirror, counts>>

(* The label itself is data nothing depends on; the notification is not. *)
UpdateLabel(c) ==
  LET p == session[c].pid IN
  /\ Registered(c)
  /\ UNCHANGED <<stateThread, sinkOpen, clientSide, mirror, counts>>
  /\ IF roster[p] = None
       THEN Answer(c, Refusal) /\ UNCHANGED <<outbound, lost>>
       ELSE Answer(c, Ok) /\ Broadcast(roster, "roster_changed", Event("label_updated", p))

(* session.roster without a filter.  A client that has subscribed to roster *)
(* changes before it asks claims to know the roster from here on.          *)
RosterSnapshot(c) ==
  /\ Registered(c)
  /\ Answer(c, Snapshot(Live))
  /\ mirror' = IF session[c].pid \in subscriptions["roster_changed"] /\ mirror[c] = "none"
                 THEN [mirror EXCEPT ![c] = "synced"] ELSE mirror
  /\ UNCHANGED <<stateThread, outbound, sinkOpen, clientSide, lost, counts>>

(* Mutant: the wrong end of the couplers is compared.                      *)
LedTo(p) == {k \in couplers : k.follower = p}

LedBy(p) == {k \in couplers : k.master = p}

(* A notification without reply: the reader goes on to its next frame.  An  *)
(* interest outside the declared provides is dropped, which changes nothing. *)
PublishInterest(c, i) ==
  LET p == session[c].pid
      out == LedBy(p)
  IN
  /\ Registered(c)
  /\ roster[p] # None
  /\ i.kind \in roster[p].provides
  /\ roster' = [roster EXCEPT ![p].interest = i]
  /\ \E D \in SUBSET out :
       /\ \A k \in out : AlwaysDerives(k.kind, i) => k \in D
       /\ \A k \in D : MayDerive(k.kind, i)
       /\ \E b \in Batches(D, i) : TrySend(b)
  /\ UNCHANGED <<couplers, subscriptions, nextProcessId, nextCouplerId, session,
                 sinkOpen, clientSide, mirror, counts>>

(* Any registered process may couple any two processes. *)
CouplerCreate(c, master, follower, kind) ==
  LET allowed == /\ roster[master] # None
                 /\ roster[follower] # None
                 /\ ~CreatesCycle(master, follower)
                 /\ Compatible(kind, roster[master].provides, roster[follower].consumes)
      id == nextCouplerId
      new == [id |-> id, master |-> master, follower |-> follower, kind |-> kind]
      focus == roster[master].interest
      update == [d \in Conns |->
                   IF d = roster[follower].conn THEN <<Update(id, focus)>> ELSE <<>>]
  IN
  /\ Registered(c)
  /\ UNCHANGED <<roster, subscriptions, nextProcessId, sinkOpen, clientSide, mirror,
                 registrations>>
  /\ \/ /\ allowed
        /\ creations < MaxCouplers
        /\ nextCouplerId' = WrappingInc(id)
        /\ couplers' = {k \in couplers : k.id # id} \cup {new}
        /\ \/ focus # None /\ MayDerive(kind, focus) /\ TrySend(update)
           \/ ~(focus # None /\ AlwaysDerives(kind, focus)) /\ UNCHANGED <<outbound, lost>>
        /\ Answer(c, Ok)
        /\ creations' = creations + 1
     \/ /\ ~allowed
        /\ Answer(c, Refusal)
        /\ UNCHANGED <<couplers, nextCouplerId, outbound, lost, creations>>

(* Any registered process may remove any coupler. *)
CouplerRemove(c, k) ==
  /\ Registered(c)
  /\ couplers' = couplers \ {k}
  /\ Answer(c, Removed(k.id))
  /\ UNCHANGED <<roster, subscriptions, nextProcessId, nextCouplerId, outbound, sinkOpen,
                 clientSide, lost, mirror, counts>>

Subscribe(c, topic) ==
  LET p == session[c].pid IN
  /\ Registered(c)
  /\ IF roster[p] = None
       THEN Answer(c, Refusal) /\ UNCHANGED subscriptions
       ELSE Answer(c, Ok) /\ subscriptions' = [subscriptions EXCEPT ![topic] = @ \cup {p}]
  /\ UNCHANGED <<roster, couplers, nextProcessId, nextCouplerId, outbound, sinkOpen,
                 clientSide, lost, mirror, counts>>

Unsubscribe(c, topic) ==
  /\ Registered(c)
  /\ subscriptions' = [subscriptions EXCEPT ![topic] = @ \ {session[c].pid}]
  /\ Answer(c, Ok)
  /\ mirror' = IF topic = "roster_changed" THEN [mirror EXCEPT ![c] = "given_up"] ELSE mirror
  /\ UNCHANGED <<roster, couplers, nextProcessId, nextCouplerId, outbound, sinkOpen,
                 clientSide, lost, counts>>

(* A handler panics: the error is answered and the reader loop ends. *)
HandlerPanics(c) ==
  /\ Reading(c)
  /\ session' = [session EXCEPT ![c].pc = "last_reply", ![c].reply = Refusal]
  /\ UNCHANGED <<stateThread, outbound, sinkOpen, clientSide, lost, mirror, counts>>

-----------------------------------------------------------------------------
(* Connection threads and clients. *)

(* Mutant: answers overtake the notifications in the queue.                *)
PushReplyFirst(c) ==
  /\ session[c].pc \in {"replying", "last_reply"}
  /\ \/ /\ sinkOpen[c]
        /\ Len(outbound[c]) < Depth
        /\ outbound' = [outbound EXCEPT ![c] = <<session[c].reply>> \o @]
     \/ /\ ~sinkOpen[c]
        /\ UNCHANGED outbound
  /\ session' = [session EXCEPT
       ![c].pc = IF @ = "replying" THEN "reading" ELSE "leaving", ![c].reply = None]
  /\ UNCHANGED <<stateThread, sinkOpen, clientSide, lost, mirror, counts>>

(* The reader's blocking send of the answer; a closed queue swallows it.   *)
PushReply(c) ==
  /\ session[c].pc \in {"replying", "last_reply"}
  /\ \/ /\ sinkOpen[c]
        /\ Len(outbound[c]) < Depth
        /\ outbound' = [outbound EXCEPT ![c] = Append(@, session[c].reply)]
     \/ /\ ~sinkOpen[c]
        /\ UNCHANGED outbound
  /\ session' = [session EXCEPT
       ![c].pc = IF @ = "replying" THEN "reading" ELSE "leaving", ![c].reply = None]
  /\ UNCHANGED <<stateThread, sinkOpen, clientSide, lost, mirror, counts>>

(* A frame that cannot be read, or a notification handler that panics, ends *)
(* the reader loop while the client is still there.                        *)
ReaderBreaks(c) ==
  /\ Reading(c)
  /\ session' = [session EXCEPT ![c].pc = "leaving"]
  /\ UNCHANGED <<stateThread, outbound, sinkOpen, clientSide, lost, mirror, counts>>

ReadEOF(c) == gone[c] /\ ReaderBreaks(c)

(* Mutant: a connection that ends does not unregister.                     *)
LeaveQuietly(c) ==
  /\ session[c].pc = "leaving"
  /\ session' = [session EXCEPT ![c].pc = "done", ![c].pid = None]
  /\ UNCHANGED <<stateThread, outbound, sinkOpen, clientSide, lost, mirror, counts>>

(* The reader loop is over: unregister whoever the connection still owns.  *)
Leave(c) ==
  /\ session[c].pc = "leaving"
  /\ IF session[c].pid = None
       THEN UNCHANGED <<roster, couplers, subscriptions, outbound, lost>>
       ELSE DropProcess(session[c].pid)
  /\ session' = [session EXCEPT ![c].pc = "done", ![c].pid = None]
  /\ UNCHANGED <<nextProcessId, nextCouplerId, sinkOpen, clientSide, mirror, counts>>

(* What a client makes of a message; a snapshot asked for before the client *)
(* was subscribed is of no use to it.                                      *)
Received(c, s, m) ==
  CASE m.type = "roster" /\ mirror[c] = "synced" -> [s EXCEPT !.snapshot = m.processes]
    [] m.type = "roster_changed" /\ m.event = "registered" ->
         [s EXCEPT !.joined = @ \cup {m.process}]
    [] m.type = "roster_changed" /\ m.event = "unregistered" ->
         [s EXCEPT !.left = @ \cup {m.process}]
    [] m.type = "coupler_update" -> [s EXCEPT !.focus[m.coupler] = m.interest]
    [] OTHER -> s

WriterSends(c) ==
  /\ sinkOpen[c] /\ ~gone[c] /\ outbound[c] # <<>>
  /\ seen' = [seen EXCEPT ![c] = Received(c, @, Head(outbound[c]))]
  /\ outbound' = [outbound EXCEPT ![c] = Tail(@)]
  /\ UNCHANGED <<stateThread, session, sinkOpen, gone, lost, mirror, counts>>

(* A write fails: the writer thread ends and takes the queue with it.      *)
WriterFails(c) ==
  /\ sinkOpen[c] /\ gone[c] /\ outbound[c] # <<>>
  /\ sinkOpen' = [sinkOpen EXCEPT ![c] = FALSE]
  /\ outbound' = [outbound EXCEPT ![c] = <<>>]
  /\ UNCHANGED <<stateThread, session, clientSide, lost, mirror, counts>>

ClientGoes(c) ==
  /\ ~gone[c]
  /\ gone' = [gone EXCEPT ![c] = TRUE]
  /\ UNCHANGED <<stateThread, session, outbound, sinkOpen, seen, lost, mirror, counts>>

-----------------------------------------------------------------------------
Init ==
  /\ roster = [p \in Ids |-> None]
  /\ couplers = {}
  /\ subscriptions = [t \in Topics |-> {}]
  /\ nextProcessId = 1
  /\ nextCouplerId = 1
  /\ session = [c \in Conns |-> [pc |-> "reading", pid |-> None, ever |-> FALSE, reply |-> None]]
  /\ outbound = [c \in Conns |-> <<>>]
  /\ sinkOpen = [c \in Conns |-> TRUE]
  /\ gone = [c \in Conns |-> FALSE]
  /\ seen = [c \in Conns |-> [joined |-> {}, left |-> {}, snapshot |-> {},
                              focus |-> [k \in Ids |-> None]]]
  /\ lost = [c \in Conns |-> FALSE]
  /\ mirror = [c \in Conns |-> "none"]
  /\ registrations = 0
  /\ creations = 0

Handshake(c) ==
  \/ \E profile \in Profiles : Register(c, profile)
  \/ Unregister(c)

Call(c) ==
  \/ "bad" \in Calls[c] /\ (Refuse(c) \/ HandlerPanics(c))
  \/ "update_label" \in Calls[c] /\ UpdateLabel(c)
  \/ "roster" \in Calls[c] /\ RosterSnapshot(c)
  \/ "publish" \in Calls[c] /\ \E i \in Foci : PublishInterest(c, i)
  \/ "couple" \in Calls[c] /\ \E master, follower \in Ids, kind \in UsedKinds :
       CouplerCreate(c, master, follower, kind)
  \/ "uncouple" \in Calls[c] /\ \E k \in couplers : CouplerRemove(c, k)
  \/ "subscribe" \in Calls[c] /\ \E topic \in UsedTopics : Subscribe(c, topic)
  \/ "unsubscribe" \in Calls[c] /\ \E topic \in UsedTopics : Unsubscribe(c, topic)

Next ==
  \E c \in Conns :
    \/ Handshake(c)
    \/ Call(c)
    \/ PushReply(c)
    \/ ReaderBreaks(c)
    \/ Leave(c)
    \/ WriterSends(c)
    \/ WriterFails(c)
    \/ c \in Vanishing /\ ClientGoes(c)

(* The daemon's threads keep running.  Nothing is assumed of the clients:  *)
(* one may stop reading for ever without closing its socket.  A socket     *)
(* holds finitely many frames, so a reader whose client is gone cannot be   *)
(* kept from the end of the stream for ever, hence the strong fairness.    *)
Fairness ==
  \A c \in Conns :
    /\ WF_vars(PushReply(c))
    /\ WF_vars(Leave(c))
    /\ WF_vars(WriterFails(c))
    /\ SF_vars(ReadEOF(c))

Spec == Init /\ [][Next]_vars
FairSpec == Spec /\ Fairness

-----------------------------------------------------------------------------
(* Properties. *)

TypeOK ==
  /\ roster \in [Ids -> Info \cup {None}]
  /\ couplers \subseteq Coupler
  /\ subscriptions \in [Topics -> SUBSET Ids]
  /\ nextProcessId \in Ids /\ nextCouplerId \in Ids
  /\ session \in [Conns -> Session]
  /\ outbound \in [Conns -> Seq(Messages)]
  /\ \A c \in Conns : Len(outbound[c]) <= Depth
  /\ sinkOpen \in [Conns -> BOOLEAN]
  /\ gone \in [Conns -> BOOLEAN]
  /\ seen \in [Conns -> Seen]
  /\ lost \in [Conns -> BOOLEAN]
  /\ mirror \in [Conns -> {"none", "synced", "given_up"}]
  /\ registrations \in 0 .. MaxRegistrations
  /\ creations \in 0 .. MaxCouplers

(* No coupler outlives either of the processes it connects, whoever created *)
(* it and however they left (State::unregister, coupler_create): routing    *)
(* never meets a missing follower.                                         *)
CouplerEndsLive ==
  \A k \in couplers : roster[k.master] # None /\ roster[k.follower] # None

(* The coupler graph never closes a cycle, so a focus is never routed back  *)
(* to where it came from (coupler_creates_cycle), whatever the order in     *)
(* which the processes create couplers.                                    *)
CouplersAcyclic ==
  \A k \in couplers : ~Reaches(couplers, k.follower, k.master)

(* Every coupler in force connects a master that declared something the     *)
(* kind accepts with a follower that declared what the kind produces: the   *)
(* check made at creation still describes the two processes now.  Ids wrap  *)
(* at 2^32, so this is claimed until every id has been given out once.     *)
CouplersCompatible ==
  registrations < IdModulus =>
    \A k \in couplers :
      /\ roster[k.master] # None /\ roster[k.follower] # None
      /\ Accepts(k.kind) \cap roster[k.master].provides # {}
      /\ Produces(k.kind) \cap roster[k.follower].consumes # {}

(* A topic's subscribers are all in the roster: nothing is kept for a       *)
(* process that left, under either topic.                                  *)
SubscribersLive == \A t \in Topics : \A p \in subscriptions[t] : roster[p] # None

(* The connection threads and the state thread agree on who owns which     *)
(* process: a roster entry belongs to exactly the one connection that       *)
(* believes it owns that process and whose queue the entry sends to.        *)
(* Claimed until every id has been given out once.                         *)
OwnersAgree ==
  registrations < IdModulus =>
    \A p \in Ids, c \in Conns :
      session[c].pid = p <=> roster[p] # None /\ roster[p].conn = c

(* The last update a client got, or has queued, for the coupler k. *)
LatestUpdate(c, k) ==
  LET q == outbound[c]
      at == {n \in DOMAIN q : q[n].type = "coupler_update" /\ q[n].coupler = k}
  IN IF at = {} THEN seen[c].focus[k]
     ELSE q[CHOOSE n \in at : \A m \in at : m <= n].interest

(* A follower whose writer runs and that has lost no notification is up to   *)
(* date: the newest update sent to it for a coupler is its master's current *)
(* interest, whether the interest was published before or after the coupler *)
(* was made, and however the masters' publications interleave.             *)
FollowersUpToDate ==
  creations < IdModulus /\ registrations < IdModulus =>
    \A k \in couplers :
      LET c == roster[k.follower].conn
          i == roster[k.master].interest
      IN sinkOpen[c] /\ ~lost[c] /\ i # None /\ AlwaysDerives(k.kind, i) => LatestUpdate(c, k.id) = i

(* Once a client holds the answer to its coupler.remove, no update for that *)
(* coupler is behind it in the queue: the answer is a barrier.             *)
RemovalIsBarrier ==
  creations < IdModulus =>
    \A c \in Conns : \A n \in DOMAIN outbound[c] :
      outbound[c][n].type = "coupler_update" =>
        \A m \in 1 .. n - 1 : outbound[c][m] # Removed(outbound[c][n].coupler)

(* The roster as a client can tell it that subscribed first and asked for   *)
(* the snapshot second: the newest snapshot, with what it was told joined,  *)
(* without what it was told left.  The answer with the snapshot may be      *)
(* queued behind events newer than the snapshot, so applying messages in    *)
(* the order they come would not do.                                       *)
KnownRoster(c) ==
  LET q == outbound[c]
      told(e) == {p \in Ids : \E n \in DOMAIN q : q[n] = Event(e, p)}
      snaps == {n \in DOMAIN q : q[n].type = "roster"}
      snapshot ==
        IF session[c].reply # None /\ session[c].reply.type = "roster"
          THEN session[c].reply.processes
        ELSE IF snaps # {} THEN q[CHOOSE n \in snaps : \A m \in snaps : m <= n].processes
        ELSE seen[c].snapshot
  IN (snapshot \cup seen[c].joined \cup told("registered"))
       \ (seen[c].left \cup told("unregistered"))

(* A client that subscribes to roster changes, then asks for the roster,    *)
(* loses no notification and whose writer runs, can tell the roster at any   *)
(* time from what it has received or will find in its queue (notify_roster, *)
(* roster_snapshot).                                                       *)
MirrorsRoster ==
  registrations < IdModulus =>
    \A c \in Conns :
      mirror[c] = "synced" /\ sinkOpen[c] /\ ~lost[c] /\ session[c].pid # None =>
        KnownRoster(c) = Live

(* When a client is gone, its process leaves the roster eventually, with    *)
(* its queue full or its reader waiting to queue an answer, and even if     *)
(* another client has stopped reading: nothing the state thread does waits  *)
(* for a client.                                                           *)
GoneLeaveRoster ==
  \A c \in Conns : gone[c] ~> \A p \in Ids : roster[p] = None \/ roster[p].conn # c

=============================================================================
