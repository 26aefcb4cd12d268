------------------------------ MODULE ClientRpc -----------------------------
(***************************************************************************)
(* One DaemonClient (client.rs) and the two threads the daemon keeps for its  *)
(* connection (dispatch.rs), with the socket between them.                   *)
(*                                                                         *)
(* The client is used by one thread, app: every call takes &mut self, so a    *)
(* second one begins when the first has returned, and notifications are read  *)
(* between calls.  Its reader thread hands answers to the call that waits, by  *)
(* id, through the map pending, and notifications to a bounded queue.         *)
(* Closing sends session.unregister, the only call that has a deadline.       *)
(*                                                                         *)
(* A frame is written in two writes, its length and its payload, and the      *)
(* monitor of the daemon's state thread writes to the same socket.            *)
(***************************************************************************)
EXTENDS Naturals, Sequences

CONSTANTS
  MaxCalls,      \* calls the application makes before it closes the client
  MaxNotices,    \* notifications the daemon has for this client
  ClientDepth,   \* OUTBOUND_QUEUE_DEPTH, of the client's queue of notifications
  ServerDepth,   \* OUTBOUND_QUEUE_DEPTH, of the connection's writer thread
  Room,          \* frames the socket holds on their way to the daemon
  Outcomes,      \* what handlers do: some of HandlerOutcomes
  MayHang        \* may the daemon stop running for ever

HandlerOutcomes == {"result", "error", "panic", "huge"}

ASSUME ClientRpcAssumption ==
  /\ MaxCalls \in Nat /\ MaxNotices \in Nat
  /\ ClientDepth \in Nat \ {0} /\ ServerDepth \in Nat \ {0} /\ Room \in Nat \ {0}
  /\ Outcomes \subseteq HandlerOutcomes
  /\ MayHang \in BOOLEAN

VARIABLES
  app,           \* pc of the thread that uses the client
  call,          \* the call it is in: id, is it too large to send, is it close's
  nextId,        \* DaemonClient::next_id
  pending,       \* ids in the map of pending calls
  slot,          \* the channel the call in progress waits on
  reader,        \* pc of the client's reader thread, and the answer it has in hand
  readerClosed,  \* DaemonClient::reader_closed
  inbox,         \* the queue of notifications
  taken,         \* history: notifications the application has read
  dropped,       \* history: notifications that found the queue full
  toDaemon,      \* the socket, towards the daemon: frames
  toClient,      \* and back: lengths and payloads
  cut,           \* has either side shut the socket down
  server,        \* pc of the connection's reader thread in the daemon, and its answer
  writer,        \* pc of the connection's writer thread
  outbound,      \* the writer's queue
  notices,       \* notifications the daemon has queued so far
  fatal,         \* has the daemon's state thread panicked
  hung           \* has the daemon stopped running

client == <<app, call, nextId, pending, slot>>
readerVars == <<reader, readerClosed, inbox, dropped>>
daemon == <<server, writer, outbound, notices, fatal, hung>>
vars == <<client, readerVars, taken, toDaemon, toClient, cut, daemon>>

-----------------------------------------------------------------------------
Answer(id, outcome) == [type |-> "answer", n |-> id, outcome |-> outcome]
Notice(n) == [type |-> "notice", n |-> n, outcome |-> "result"]
FatalNotice == [type |-> "fatal", n |-> 0, outcome |-> "result"]
NoMessage == [type |-> "none", n |-> 0, outcome |-> "result"]

LengthOf(frame) == [part |-> "length", frame |-> frame]
Payload(frame) == [part |-> "payload", frame |-> frame]

InCall == app \in {"numbered", "entered", "sending", "waiting"}
Closing == app \in {"shutting", "joining"} \/ (InCall /\ call.closes)

(* A call returns: to the application, or to close_inner. *)
Return == app' = IF call.closes THEN "shutting" ELSE "ready"
Withdraw == pending' = pending \ {call.id}

-----------------------------------------------------------------------------
(* request_inner. *)

Begin(large, closes) ==
  /\ call' = [id |-> nextId, large |-> large, closes |-> closes]
  /\ nextId' = nextId + 1
  /\ app' = "numbered"

(* A call on a client whose reader has gone returns ReaderClosed at once; it   *)
(* is not a step.                                                            *)
Request ==
  /\ app = "ready" /\ nextId <= MaxCalls
  /\ ~readerClosed
  /\ \E large \in BOOLEAN : Begin(large, FALSE)
  /\ UNCHANGED <<pending, slot, readerVars, taken, toDaemon, toClient, cut, daemon>>

Enter ==
  /\ app = "numbered"
  /\ pending' = pending \cup {call.id}
  /\ slot' = NoMessage
  /\ app' = "entered"
  /\ UNCHANGED <<call, nextId, readerVars, taken, toDaemon, toClient, cut, daemon>>

(* The reader may have gone between the first look and the entry: it would   *)
(* have cleared the map too early for this call.                            *)
LookAgain ==
  /\ app = "entered"
  /\ IF readerClosed THEN Withdraw /\ Return ELSE app' = "sending" /\ UNCHANGED pending
  /\ UNCHANGED <<call, nextId, slot, readerVars, taken, toDaemon, toClient, cut, daemon>>

Send ==
  /\ app = "sending" /\ ~call.large /\ ~cut
  /\ Len(toDaemon) < Room
  /\ toDaemon' = Append(toDaemon, call.id)
  /\ app' = "waiting"
  /\ UNCHANGED <<call, nextId, pending, slot, readerVars, taken, toClient, cut, daemon>>

(* The payload is above the maximum, or the socket is shut down: Framing or   *)
(* ReaderClosed, and the call is withdrawn.                                  *)
SendFails ==
  /\ app = "sending" /\ (call.large \/ cut)
  /\ Withdraw /\ Return
  /\ UNCHANGED <<call, nextId, slot, readerVars, taken, toDaemon, toClient, cut, daemon>>

Receive ==
  /\ app = "waiting" /\ slot # NoMessage
  /\ Return
  /\ UNCHANGED <<call, nextId, pending, slot, readerVars, taken, toDaemon, toClient, cut, daemon>>

(* The sender of the reply channel has been dropped: ReaderClosed. *)
Disconnected ==
  /\ app = "waiting" /\ slot = NoMessage
  /\ call.id \notin pending /\ reader.answer.n # call.id
  /\ Return
  /\ UNCHANGED <<call, nextId, pending, slot, readerVars, taken, toDaemon, toClient, cut, daemon>>

(* Mutant: a call that timed out stays in the map.                           *)
ForgetfulTimeout ==
  /\ app = "waiting" /\ call.closes /\ slot = NoMessage
  /\ Return
  /\ UNCHANGED <<call, nextId, pending, slot, readerVars, taken, toDaemon, toClient, cut, daemon>>

(* Only the session.unregister of close_inner has a deadline. *)
Timeout ==
  /\ app = "waiting" /\ call.closes /\ slot = NoMessage
  /\ Withdraw /\ Return
  /\ UNCHANGED <<call, nextId, slot, readerVars, taken, toDaemon, toClient, cut, daemon>>

-----------------------------------------------------------------------------
(* The rest of what the application does with a client. *)

(* publish_interest: a notification, id 0 here; nothing waits for an answer. *)
PublishInterest ==
  /\ app = "ready"
  /\ ~cut /\ Len(toDaemon) < Room
  /\ toDaemon' = Append(toDaemon, 0)
  /\ UNCHANGED <<client, readerVars, taken, toClient, cut, daemon>>

TakeNotice ==
  /\ app = "ready" /\ inbox # <<>>
  /\ inbox' = Tail(inbox) /\ taken' = Append(taken, Head(inbox))
  /\ UNCHANGED <<client, reader, readerClosed, dropped, toDaemon, toClient, cut, daemon>>

(* close, or drop: unregister with a deadline if the reader is still there,   *)
(* shut the socket down, wait for the reader.                                *)
Close ==
  /\ app = "ready"
  /\ IF readerClosed THEN app' = "shutting" /\ UNCHANGED <<call, nextId>>
                     ELSE Begin(FALSE, TRUE)
  /\ UNCHANGED <<pending, slot, readerVars, taken, toDaemon, toClient, cut, daemon>>

(* Mutant: the socket is not shut down before the reader is joined.          *)
JoinOnly ==
  /\ app = "shutting" /\ app' = "joining"
  /\ UNCHANGED <<call, nextId, pending, slot, readerVars, taken, toDaemon, toClient, cut, daemon>>

ShutSocket ==
  /\ app = "shutting" /\ app' = "joining"
  /\ cut' = TRUE
  /\ UNCHANGED <<call, nextId, pending, slot, readerVars, taken, toDaemon, toClient, daemon>>

Join ==
  /\ app = "joining" /\ reader.pc = "gone"
  /\ app' = "closed"
  /\ UNCHANGED <<call, nextId, pending, slot, readerVars, taken, toDaemon, toClient, cut, daemon>>

-----------------------------------------------------------------------------
(* The reader thread of the client. *)

Reader(pc, answer) == reader' = [pc |-> pc, answer |-> answer]

(* Two pieces make a frame when the second is the payload of the first.  A    *)
(* frame written into another leaves the reader lost: it reads lengths where   *)
(* there are none.                                                          *)
Whole == Len(toClient) >= 2 /\ toClient[2] = Payload(toClient[1].frame)
Garbled == Len(toClient) >= 2 /\ ~Whole
Next2 == toClient' = SubSeq(toClient, 3, Len(toClient))

(* dispatch_response: the entry is taken out of the map, then the answer is   *)
(* sent to whoever waits; an unknown id is ignored.                          *)
DispatchResponse ==
  /\ reader.pc = "reading" /\ Whole /\ toClient[1].frame.type = "answer"
  /\ LET id == toClient[1].frame.n IN
     /\ IF id \in pending THEN Reader("handing", toClient[1].frame) ELSE UNCHANGED reader
     /\ pending' = pending \ {id}
  /\ Next2
  /\ UNCHANGED <<app, call, nextId, slot, readerClosed, inbox, dropped, taken, toDaemon, cut, daemon>>

HandOver ==
  /\ reader.pc = "handing"
  /\ slot' = IF app = "waiting" /\ call.id = reader.answer.n THEN reader.answer ELSE slot
  /\ Reader("reading", NoMessage)
  /\ UNCHANGED <<app, call, nextId, pending, readerClosed, inbox, dropped, taken, toDaemon, toClient, cut, daemon>>

(* Mutant: the oldest notification makes room for the newest.                *)
DropOldest ==
  /\ reader.pc = "reading" /\ Whole /\ toClient[1].frame.type \in {"notice", "fatal"}
  /\ inbox' = Append(IF Len(inbox) < ClientDepth THEN inbox ELSE Tail(inbox), toClient[1].frame)
  /\ UNCHANGED dropped
  /\ Next2
  /\ UNCHANGED <<client, reader, readerClosed, taken, toDaemon, cut, daemon>>

(* dispatch_notification: one that finds the queue full is dropped. *)
DispatchNotification ==
  /\ reader.pc = "reading" /\ Whole /\ toClient[1].frame.type \in {"notice", "fatal"}
  /\ IF Len(inbox) < ClientDepth
     THEN inbox' = Append(inbox, toClient[1].frame) /\ UNCHANGED dropped
     ELSE dropped' = dropped \cup {toClient[1].frame.n} /\ UNCHANGED inbox
  /\ Next2
  /\ UNCHANGED <<client, reader, readerClosed, taken, toDaemon, cut, daemon>>

LoseTrack ==
  /\ reader.pc = "reading" /\ Garbled
  /\ Reader("lost", NoMessage) /\ Next2
  /\ UNCHANGED <<client, readerClosed, inbox, dropped, taken, toDaemon, cut, daemon>>

(* The end of the stream, or what a lost reader takes for a length above the  *)
(* maximum.  A frame cut short ends the stream too.                          *)
ReadFails ==
  /\ \/ reader.pc \in {"reading", "lost"} /\ cut /\ Len(toClient) < 2
     \/ reader.pc = "lost"
  /\ Reader("leaving", NoMessage)
  /\ UNCHANGED <<client, readerClosed, inbox, dropped, taken, toDaemon, toClient, cut, daemon>>

(* Mutant: ReaderGuard clears the map before it sets the flag.               *)
ClearFirst ==
  \/ /\ reader.pc = "leaving"
     /\ pending' = {}
     /\ Reader("clearing", NoMessage)
     /\ UNCHANGED <<app, call, nextId, slot, readerClosed, inbox, dropped, taken, toDaemon, toClient, cut, daemon>>
  \/ /\ reader.pc = "clearing"
     /\ readerClosed' = TRUE
     /\ Reader("gone", NoMessage)
     /\ UNCHANGED <<client, inbox, dropped, taken, toDaemon, toClient, cut, daemon>>

(* ReaderGuard::drop: the flag first, then the map. *)
ReaderGuardDrop ==
  \/ /\ reader.pc = "leaving"
     /\ readerClosed' = TRUE
     /\ Reader("clearing", NoMessage)
     /\ UNCHANGED <<client, inbox, dropped, taken, toDaemon, toClient, cut, daemon>>
  \/ /\ reader.pc = "clearing"
     /\ pending' = {}
     /\ Reader("gone", NoMessage)
     /\ UNCHANGED <<app, call, nextId, slot, readerClosed, inbox, dropped, taken, toDaemon, toClient, cut, daemon>>

-----------------------------------------------------------------------------
(* The connection's threads in the daemon. *)

Server(pc, answer) == server' = [pc |-> pc, answer |-> answer]

ServerReads ==
  /\ ~hung /\ server.pc = "reading" /\ toDaemon # <<>>
  /\ toDaemon' = Tail(toDaemon)
  /\ IF Head(toDaemon) = 0 THEN UNCHANGED server
     ELSE \E o \in Outcomes : Server("replying", Answer(Head(toDaemon), o))
  /\ UNCHANGED <<client, readerVars, taken, toClient, cut, writer, outbound, notices, fatal, hung>>

(* Mutant: an answer that finds the queue full is dropped. *)
TryReply ==
  /\ ~hung /\ server.pc = "replying"
  /\ outbound' = IF writer # "gone" /\ Len(outbound) < ServerDepth
                 THEN Append(outbound, server.answer) ELSE outbound
  /\ Server(IF server.answer.outcome = "panic" THEN "gone" ELSE "reading", NoMessage)
  /\ UNCHANGED <<client, readerVars, taken, toDaemon, toClient, cut, writer, notices, fatal, hung>>

(* After the answer to a call whose handler panicked the thread ends.  The    *)
(* clone of the socket the coordinator keeps outlives it.                    *)
ServerReplies ==
  /\ ~hung /\ server.pc = "replying"
  /\ \/ writer # "gone" /\ Len(outbound) < ServerDepth /\ outbound' = Append(outbound, server.answer)
     \/ writer = "gone" /\ UNCHANGED outbound
  /\ Server(IF server.answer.outcome = "panic" THEN "gone" ELSE "reading", NoMessage)
  /\ UNCHANGED <<client, readerVars, taken, toDaemon, toClient, cut, writer, notices, fatal, hung>>

ServerReadFails ==
  /\ ~hung /\ server.pc = "reading" /\ cut /\ toDaemon = <<>>
  /\ Server("gone", NoMessage)
  /\ UNCHANGED <<client, readerVars, taken, toDaemon, toClient, cut, writer, outbound, notices, fatal, hung>>

(* The state thread queues a notification, if there is room (Coordination). *)
QueueNotice ==
  /\ ~hung /\ ~fatal /\ notices < MaxNotices /\ server.pc # "gone"
  /\ writer # "gone" /\ Len(outbound) < ServerDepth
  /\ notices' = notices + 1
  /\ outbound' = Append(outbound, Notice(notices + 1))
  /\ UNCHANGED <<client, readerVars, taken, toDaemon, toClient, cut, server, writer, fatal, hung>>

WriteLength ==
  /\ ~hung /\ writer = "ready" /\ outbound # <<>>
  /\ ~cut /\ Head(outbound).outcome # "huge"
  /\ writer' = "half"
  /\ toClient' = Append(toClient, LengthOf(Head(outbound)))
  /\ UNCHANGED <<client, readerVars, taken, toDaemon, cut, server, outbound, notices, fatal, hung>>

WritePayload ==
  /\ ~hung /\ writer = "half" /\ ~cut
  /\ writer' = "ready"
  /\ toClient' = Append(toClient, Payload(Head(outbound)))
  /\ outbound' = Tail(outbound)
  /\ UNCHANGED <<client, readerVars, taken, toDaemon, cut, server, notices, fatal, hung>>

(* The frame is above the maximum or the socket is shut down: the writer      *)
(* ends, and nobody else is told.                                           *)
WriteFails ==
  /\ ~hung
  /\ \/ writer = "half" /\ cut
     \/ writer = "ready" /\ outbound # <<>> /\ (cut \/ Head(outbound).outcome = "huge")
  /\ writer' = "gone" /\ outbound' = <<>>
  /\ UNCHANGED <<client, readerVars, taken, toDaemon, toClient, cut, server, notices, fatal, hung>>

(* The monitor of a state thread that panicked writes to every socket, between *)
(* the two writes of a writer thread or not, then shuts it down; a shutdown of *)
(* the daemon only does the latter.                                          *)
FatalBroadcast ==
  /\ ~hung /\ ~fatal /\ ~cut
  /\ fatal' = TRUE
  /\ toClient' = toClient \o <<LengthOf(FatalNotice), Payload(FatalNotice)>>
  /\ UNCHANGED <<client, readerVars, taken, toDaemon, cut, server, writer, outbound, notices, hung>>

CloseAllStreams ==
  /\ ~hung /\ ~cut
  /\ cut' = TRUE
  /\ UNCHANGED <<client, readerVars, taken, toDaemon, toClient, daemon>>

Hang ==
  /\ MayHang /\ ~hung
  /\ hung' = TRUE
  /\ UNCHANGED <<client, readerVars, taken, toDaemon, toClient, cut, server, writer, outbound, notices, fatal>>

-----------------------------------------------------------------------------
Init ==
  /\ app = "ready" /\ call = [id |-> 0, large |-> FALSE, closes |-> FALSE] /\ nextId = 1
  /\ pending = {} /\ slot = NoMessage
  /\ reader = [pc |-> "reading", answer |-> NoMessage] /\ readerClosed = FALSE
  /\ inbox = <<>> /\ taken = <<>> /\ dropped = {}
  /\ toDaemon = <<>> /\ toClient = <<>> /\ cut = FALSE
  /\ server = [pc |-> "reading", answer |-> NoMessage] /\ writer = "ready" /\ outbound = <<>>
  /\ notices = 0 /\ fatal = FALSE /\ hung = FALSE

CallSteps == Enter \/ LookAgain \/ Send \/ SendFails \/ Receive \/ Disconnected
CloseSteps == ShutSocket \/ Join
ReaderSteps == DispatchResponse \/ HandOver \/ DispatchNotification \/ LoseTrack \/ ReaderGuardDrop
ServerSteps == ServerReads \/ ServerReplies \/ ServerReadFails
WriterSteps == WriteLength \/ WritePayload \/ WriteFails

Next ==
  \/ Request \/ PublishInterest \/ TakeNotice \/ Close
  \/ CallSteps \/ Timeout \/ CloseSteps
  \/ ReaderSteps \/ ReadFails
  \/ ServerSteps \/ WriterSteps
  \/ QueueNotice \/ FatalBroadcast \/ CloseAllStreams \/ Hang

Spec == Init /\ [][Next]_vars

(* Threads that can run do, deadlines pass, and a stream that has ended is    *)
(* found to have ended; what applications, handlers and daemons choose to do  *)
(* is not fair, nor that a lost reader meets an impossible length.           *)
FairSpec ==
  /\ Spec
  /\ WF_vars(CallSteps) /\ WF_vars(Timeout) /\ WF_vars(CloseSteps)
  /\ WF_vars(ReaderSteps) /\ WF_vars(ReadFails /\ cut)
  /\ WF_vars(ServerSteps) /\ WF_vars(WriterSteps)
  /\ WF_vars(CloseAllStreams /\ fatal)

-----------------------------------------------------------------------------
(* The client and its queues keep their bounds. *)
TypeOK ==
  /\ app \in {"ready", "numbered", "entered", "sending", "waiting", "shutting", "joining", "closed"}
  /\ call \in [id : Nat, large : BOOLEAN, closes : BOOLEAN] /\ call.id < nextId /\ nextId \in Nat
  /\ pending \subseteq {call.id}
  /\ reader.pc \in {"reading", "handing", "lost", "leaving", "clearing", "gone"}
  /\ readerClosed = (reader.pc \in {"clearing", "gone"})
  /\ Len(inbox) <= ClientDepth /\ Len(outbound) <= ServerDepth /\ Len(toDaemon) <= Room
  /\ {cut, fatal, hung} \subseteq BOOLEAN

(* No call leaves its entry in the map: not one that failed, timed out, or     *)
(* entered the map while the reader was clearing it.                         *)
NothingPending == ~InCall => pending = {}

(* Of the two threads of a connection one has ended, and the socket is open.   *)
Abandoned == ~cut /\ (server.pc = "gone" \/ writer = "gone")

(* Where the answer to the call in progress, or its request, is: at which place  *)
(* of a queue or of the socket, or in whose hand.                             *)
IsAnswer(frame) == frame.type = "answer" /\ frame.n = call.id
InHand == [server |-> server.answer, reader |-> reader.answer, slot |-> slot]
Places ==
  ({"toDaemon"} \X {i \in DOMAIN toDaemon : toDaemon[i] = call.id})
    \cup ({"outbound"} \X {i \in DOMAIN outbound : IsAnswer(outbound[i])})
    \cup ({"toClient"} \X {i \in DOMAIN toClient :
                            toClient[i].part = "payload" /\ IsAnswer(toClient[i].frame)})
    \cup ({hand \in DOMAIN InHand : IsAnswer(InHand[hand])} \X {1})

(* The answer a call waits for is in exactly one place between its handler and *)
(* the call, as long as the connection stands and its frames are whole: it is   *)
(* neither lost nor doubled on any of the five threads' hands.               *)
OneAnswer ==
  app = "waiting" /\ reader.pc \in {"reading", "handing"} /\ ~cut /\ ~fatal /\ ~Abandoned
    => \E place \in Places : Places = {place}

(* The messages delivered or on their way, oldest first; the length of a frame  *)
(* is no message.                                                            *)
Frames(pieces) ==
  [i \in DOMAIN pieces |-> IF pieces[i].part = "payload" THEN pieces[i].frame ELSE NoMessage]
Stream == taken \o inbox \o Frames(toClient) \o outbound
NoticesAt == {i \in DOMAIN Stream : Stream[i].type = "notice"}

(* Notifications arrive in the order they were queued, none twice; and until   *)
(* the connection breaks none is lost but those that found the queue full.    *)
NoticesInOrder ==
  /\ \A i, j \in NoticesAt : i < j => Stream[i].n < Stream[j].n
  /\ reader.pc \in {"reading", "handing"} /\ writer # "gone" =>
       {Stream[i].n : i \in NoticesAt} = (1 .. notices) \ dropped

(* Every call returns, whether or not the application reads notifications and  *)
(* however the connection ends, unless the daemon hangs or abandons it.       *)
CallsReturn == InCall ~> (~InCall \/ hung \/ Abandoned)

(* close and drop return, whatever the daemon does, unless the socket is full  *)
(* and nobody reads it: the deadline is on the answer, not on the write.       *)
Blocked == app = "sending" /\ Len(toDaemon) = Room
CloseEnds == Closing ~> (app = "closed" \/ Blocked)

(* A connection one of whose threads has ended is closed. *)
DroppedIsClosed == Abandoned ~> cut
=============================================================================
