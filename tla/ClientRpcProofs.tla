--------------------------- MODULE ClientRpcProofs --------------------------
(***************************************************************************)
(* Proofs about ClientRpc, for any number of calls and notifications, any    *)
(* depth of the queues and whatever handlers do.                             *)
(*                                                                         *)
(* The argument for NothingPending: a call that is about to enter the map has  *)
(* a number that was never sent, so that no answer to it is under way; an      *)
(* answer in the reader's hand, or handed over, is to a call no longer in the  *)
(* map.                                                                     *)
(*                                                                         *)
(* For NoticesInOrder: what has been taken, the client's queue, the socket and *)
(* the writer's queue each hold increasing numbers, and each only numbers      *)
(* below those of the next.  A frame the monitor wrote into another leaves the  *)
(* other's payload at an odd offset, after a pair that is no frame, so that a   *)
(* reader that follows takes a length and the payload of the same frame.      *)
(*                                                                         *)
(* For OneAnswer: the question and its answer pass six stations, and every     *)
(* step that leaves the call standing moves it from one to the next or keeps   *)
(* it.                                                                      *)
(***************************************************************************)
EXTENDS ClientRpc, SequenceTheorems, TLAPS

Messages ==
  {m \in [type : {"answer", "notice", "fatal", "none"}, n : Nat, outcome : HandlerOutcomes] :
     m.type = "fatal" => m.n = 0}
Pieces == [part : {"length", "payload"}, frame : Messages]

ClientTyped ==
  /\ app \in {"ready", "numbered", "entered", "sending", "waiting", "shutting", "joining", "closed"}
  /\ call \in [id : Nat, large : BOOLEAN, closes : BOOLEAN] /\ nextId \in Nat /\ call.id < nextId
  /\ pending \subseteq {call.id}
  /\ slot \in Messages

ReaderTyped ==
  /\ reader \in [pc : {"reading", "handing", "lost", "leaving", "clearing", "gone"}, answer : Messages]
  /\ readerClosed \in BOOLEAN /\ (readerClosed <=> reader.pc \in {"clearing", "gone"})
  /\ inbox \in Seq(Messages) /\ Len(inbox) <= ClientDepth

SocketTyped ==
  /\ toDaemon \in Seq(Nat) /\ Len(toDaemon) <= Room
  /\ toClient \in Seq(Pieces)
  /\ cut \in BOOLEAN

DaemonTyped ==
  /\ server \in [pc : {"reading", "replying", "gone"}, answer : Messages]
  /\ writer \in {"ready", "half", "gone"} /\ (writer = "half" => outbound # <<>>)
  /\ outbound \in Seq(Messages) /\ Len(outbound) <= ServerDepth
  /\ notices \in Nat /\ fatal \in BOOLEAN /\ hung \in BOOLEAN

(* The first number no call has been sent with. *)
Unsent == IF app \in {"numbered", "entered", "sending"} THEN call.id ELSE call.id + 1

Asked(message, k) == message.type = "answer" => message.n < k

(* Every answer, wherever it is, is to a call with a number below k. *)
AskedBelow(k) ==
  /\ \A i \in 1 .. Len(toDaemon) : toDaemon[i] < k
  /\ \A i \in 1 .. Len(outbound) : Asked(outbound[i], k)
  /\ \A i \in 1 .. Len(toClient) : Asked(toClient[i].frame, k)
  /\ Asked(server.answer, k) /\ Asked(reader.answer, k)

AnswersAsked == AskedBelow(Unsent)

(* Who is in the map waits, and its answer is not past the map. *)
InMapWaits ==
  /\ app \notin {"entered", "sending", "waiting"} => pending = {}
  /\ reader.pc = "handing" => reader.answer.type = "answer" /\ reader.answer.n \notin pending
  /\ slot # NoMessage => pending = {}

ClientInv ==
  ClientTyped /\ ReaderTyped /\ SocketTyped /\ DaemonTyped /\ AnswersAsked /\ InMapWaits

-----------------------------------------------------------------------------
(* The steps, by whose they are. *)

Calling == Request \/ Close \/ Enter \/ LookAgain \/ SendFails \/ Receive \/ Disconnected \/ Timeout
Sending == Send \/ PublishInterest
Reading == ReaderSteps \/ ReadFails
Serving == ServerReads \/ ServerReplies \/ ServerReadFails \/ QueueNotice
Writing == WriteLength \/ WritePayload \/ WriteFails \/ FatalBroadcast
Ending == ShutSocket \/ Join \/ CloseAllStreams \/ Hang

LEMMA NextSteps ==
  ASSUME Next
  PROVE  Calling \/ Sending \/ TakeNotice \/ Reading \/ Serving \/ Writing \/ Ending
BY DEF Next, CallSteps, CloseSteps, ServerSteps, WriterSteps, Calling, Sending, Reading, Serving,
       Writing, Ending

LEMMA MessagesTyped ==
  /\ NoMessage \in Messages /\ FatalNotice \in Messages
  /\ \A n \in Nat : Notice(n) \in Messages
  /\ \A n \in Nat, o \in HandlerOutcomes : Answer(n, o) \in Messages
  /\ \A m \in Messages : LengthOf(m) \in Pieces /\ Payload(m) \in Pieces
BY DEF NoMessage, FatalNotice, Notice, Answer, LengthOf, Payload, Messages, Pieces, HandlerOutcomes

(* What is left of a sequence without its first two members. *)
LEMMA DropTwo ==
  ASSUME NEW S, NEW s \in Seq(S), Len(s) >= 2
  PROVE  /\ SubSeq(s, 3, Len(s)) \in Seq(S)
         /\ Len(SubSeq(s, 3, Len(s))) = Len(s) - 2
         /\ \A i \in 1 .. Len(s) - 2 : SubSeq(s, 3, Len(s))[i] = s[i + 2]
<1>1. Len(s) \in Nat /\ \A i \in 3 .. Len(s) : s[i] \in S
  BY ElementOfSeq
<1>2. /\ SubSeq(s, 3, Len(s)) \in Seq(S)
      /\ Len(SubSeq(s, 3, Len(s))) = IF 3 <= Len(s) THEN Len(s) - 3 + 1 ELSE 0
      /\ \A i \in 1 .. Len(s) - 3 + 1 : SubSeq(s, 3, Len(s))[i] = s[3 + i - 1]
  BY <1>1, SubSeqProperties
<1>3. Len(SubSeq(s, 3, Len(s))) = Len(s) - 2
  <2>1. \A n \in Nat : n >= 2 => (IF 3 <= n THEN n - 3 + 1 ELSE 0) = n - 2
    OBVIOUS
  <2>2. QED
    BY <1>1, <1>2, <2>1
<1>4. \A i \in 1 .. Len(s) - 2 : i \in 1 .. Len(s) - 3 + 1 /\ 3 + i - 1 = i + 2
  BY <1>1
<1>5. QED
  BY <1>2, <1>3, <1>4

(* What the whole frame at the front of the socket is. *)
LEMMA FrontTyped ==
  ASSUME SocketTyped, Len(toClient) >= 2
  PROVE  /\ toClient[1] \in Pieces /\ toClient[1].frame \in Messages
         /\ SubSeq(toClient, 3, Len(toClient)) \in Seq(Pieces)
         /\ Len(SubSeq(toClient, 3, Len(toClient))) = Len(toClient) - 2
         /\ \A i \in 1 .. Len(toClient) - 2 : SubSeq(toClient, 3, Len(toClient))[i] = toClient[i + 2]
<1>1. toClient \in Seq(Pieces) /\ Len(toClient) \in Nat
  BY DEF SocketTyped
<1>2. \A i \in 1 .. Len(toClient) : toClient[i] \in Pieces
  BY <1>1, ElementOfSeq
<1>3. toClient[1] \in Pieces /\ \A i \in 3 .. Len(toClient) : toClient[i] \in Pieces
  BY <1>1, <1>2
<1>4. toClient[1].frame \in Messages
  BY <1>3 DEF Pieces
<1>5. QED
  BY <1>1, <1>3, <1>4, DropTwo

LEMMA InitClient == Init => ClientInv
<1> SUFFICES ASSUME Init PROVE ClientInv
  OBVIOUS
<1>1. <<>> \in Seq(Messages) /\ <<>> \in Seq(Nat) /\ <<>> \in Seq(Pieces) /\ Len(<<>>) = 0
  BY EmptySeq
<1>2. ClientTyped
  BY MessagesTyped DEF Init, ClientTyped
<1>3. /\ reader \in [pc : {"reading", "handing", "lost", "leaving", "clearing", "gone"}, answer : Messages]
      /\ server \in [pc : {"reading", "replying", "gone"}, answer : Messages]
  BY MessagesTyped DEF Init
<1>4. 0 <= ClientDepth /\ 0 <= ServerDepth /\ 0 <= Room
  BY ClientRpcAssumption
<1>5. Len(inbox) <= ClientDepth /\ Len(outbound) <= ServerDepth /\ Len(toDaemon) <= Room
  BY <1>1, <1>4 DEF Init
<1>6. readerClosed \in BOOLEAN /\ (readerClosed <=> reader.pc \in {"clearing", "gone"})
  BY DEF Init
<1>7. ReaderTyped /\ SocketTyped /\ DaemonTyped
  <2>1. ReaderTyped
    BY <1>1, <1>3, <1>5, <1>6 DEF Init, ReaderTyped
  <2>2. SocketTyped
    BY <1>1, <1>5 DEF Init, SocketTyped
  <2>3. DaemonTyped
    BY <1>1, <1>3, <1>5 DEF Init, DaemonTyped
  <2>4. QED
    BY <2>1, <2>2, <2>3
<1>8. AnswersAsked
  <2>1. 1 .. Len(<<>>) = {}
    BY <1>1
  <2>2. Asked(NoMessage, Unsent)
    BY DEF Asked, NoMessage
  <2>3. QED
    BY <2>1, <2>2 DEF Init, AnswersAsked, AskedBelow
<1>9. InMapWaits
  BY DEF Init, InMapWaits, NoMessage
<1>10. QED
  BY <1>2, <1>8, <1>9, <1>7 DEF ClientInv

-----------------------------------------------------------------------------
(* The application's thread and its numbers. *)

LEMMA CallingKeeps ==
  ASSUME ClientInv, Calling
  PROVE  ClientTyped' /\ InMapWaits' /\ Unsent' >= Unsent
<1>0. ClientTyped /\ ReaderTyped /\ InMapWaits /\ Asked(reader.answer, Unsent)
  BY DEF ClientInv, AnswersAsked, AskedBelow
<1> USE DEF ClientTyped, InMapWaits, Unsent, Return, Withdraw
<1>1. CASE Request \/ Close
  <2>1. UNCHANGED <<pending, slot, reader>> /\ app = "ready"
    BY <1>1 DEF Request, Close, Begin, readerVars
  <2>2. \/ app' = "shutting" /\ UNCHANGED <<call, nextId>>
        \/ /\ app' = "numbered" /\ nextId' = nextId + 1 /\ call'.id = nextId
           /\ call' \in [id : Nat, large : BOOLEAN, closes : BOOLEAN]
    <3>1. ASSUME NEW large \in BOOLEAN, NEW closes \in BOOLEAN, Begin(large, closes)
          PROVE  /\ app' = "numbered" /\ nextId' = nextId + 1 /\ call'.id = nextId
                 /\ call' \in [id : Nat, large : BOOLEAN, closes : BOOLEAN]
      BY <1>0, <3>1 DEF Begin
    <3>2. QED
      BY <1>1, <3>1 DEF Request, Close
  <2>3. pending = {}
    BY <1>0, <2>1
  <2>4. QED
    BY <1>0, <2>1, <2>2, <2>3
<1>2. CASE Enter
  <2>1. reader.pc = "handing" => reader.answer.n # call.id
    BY <1>0, <1>2 DEF Enter, Asked
  <2>2. QED
    BY <1>0, <1>2, <2>1, MessagesTyped DEF Enter, readerVars
<1>3. CASE LookAgain \/ SendFails
  <2>1. /\ UNCHANGED <<call, nextId, slot, reader>> /\ app \in {"entered", "sending"}
        /\ \/ app' \in {"shutting", "ready"} /\ pending' = pending \ {call.id}
           \/ app' = "sending" /\ pending' = pending
    BY <1>3 DEF LookAgain, SendFails, readerVars
  <2>2. pending \ {call.id} = {}
    BY <1>0
  <2>3. QED
    BY <1>0, <2>1, <2>2
<1>4. CASE Receive \/ Disconnected \/ Timeout
  <2>1. UNCHANGED <<call, nextId, slot, reader>> /\ app = "waiting" /\ app' \in {"shutting", "ready"}
    BY <1>4 DEF Receive, Disconnected, Timeout, readerVars
  <2>2. pending' = {}
    BY <1>0, <1>4 DEF Receive, Disconnected, Timeout
  <2>3. QED
    BY <1>0, <2>1, <2>2
<1>5. QED
  BY <1>1, <1>2, <1>3, <1>4 DEF Calling

(* A bound on the numbers asked for may be raised. *)
LEMMA BoundRises ==
  ASSUME SocketTyped, DaemonTyped, ReaderTyped,
         NEW k \in Nat, NEW l \in Nat, k <= l, AskedBelow(k)
  PROVE  AskedBelow(l)
<1>1. \A m \in Messages : Asked(m, k) => Asked(m, l)
  BY DEF Asked, Messages
<1>2. \A i \in 1 .. Len(toDaemon) : toDaemon[i] < l
  <2> SUFFICES ASSUME NEW i \in 1 .. Len(toDaemon) PROVE toDaemon[i] < l
    OBVIOUS
  <2>1. toDaemon[i] \in Nat /\ toDaemon[i] < k
    BY ElementOfSeq DEF SocketTyped, AskedBelow
  <2>2. QED
    BY <2>1
<1>3. \A i \in 1 .. Len(outbound) : outbound[i] \in Messages
  BY ElementOfSeq DEF DaemonTyped
<1>4. \A i \in 1 .. Len(toClient) : toClient[i].frame \in Messages
  <2> SUFFICES ASSUME NEW i \in 1 .. Len(toClient) PROVE toClient[i].frame \in Messages
    OBVIOUS
  <2>1. toClient[i] \in Pieces
    BY ElementOfSeq DEF SocketTyped
  <2>2. QED
    BY <2>1 DEF Pieces
<1>5. server.answer \in Messages /\ reader.answer \in Messages
  BY DEF DaemonTyped, ReaderTyped
<1>6. QED
  BY <1>1, <1>2, <1>3, <1>4, <1>5 DEF AskedBelow

LEMMA CallingSound ==
  ASSUME ClientInv, Calling
  PROVE  ClientInv'
<1>1. ClientTyped' /\ InMapWaits' /\ Unsent' >= Unsent
  BY CallingKeeps
<1>2. UNCHANGED <<readerVars, taken, toDaemon, toClient, cut, daemon>>
  BY DEF Calling, Request, Close, Begin, Enter, LookAgain, SendFails, Receive, Disconnected, Timeout
<1>3. ReaderTyped' /\ SocketTyped' /\ DaemonTyped'
  BY <1>2 DEF ClientInv, ReaderTyped, SocketTyped, DaemonTyped, readerVars, daemon
<1>4. Unsent \in Nat /\ Unsent' \in Nat
  BY <1>1 DEF ClientInv, ClientTyped, Unsent
<1>5. AskedBelow(Unsent')
  BY <1>1, <1>4, BoundRises DEF ClientInv, AnswersAsked
<1>6. AnswersAsked'
  BY <1>2, <1>5 DEF AnswersAsked, AskedBelow, readerVars, daemon
<1>7. QED
  BY <1>1, <1>3, <1>6 DEF ClientInv

LEMMA SendingSound ==
  ASSUME ClientInv, Sending
  PROVE  ClientInv'
<1>0. ClientTyped /\ ReaderTyped /\ SocketTyped /\ DaemonTyped /\ AskedBelow(Unsent) /\ InMapWaits
  BY DEF ClientInv, AnswersAsked
<1>1. PICK id \in Nat :
        /\ toDaemon' = Append(toDaemon, id) /\ id < Unsent' /\ Unsent <= Unsent'
        /\ ClientTyped' /\ InMapWaits' /\ Len(toDaemon) < Room
  <2>1. CASE Send
    BY <1>0, <2>1 DEF Send, ClientTyped, InMapWaits, Unsent, readerVars
  <2>2. CASE PublishInterest
    BY <1>0, <2>2 DEF PublishInterest, ClientTyped, InMapWaits, Unsent, client, readerVars
  <2>3. QED
    BY <2>1, <2>2 DEF Sending
<1>2. UNCHANGED <<readerVars, taken, toClient, cut, daemon>>
  BY DEF Sending, Send, PublishInterest
<1>3. ReaderTyped' /\ DaemonTyped'
  BY <1>0, <1>2 DEF ReaderTyped, DaemonTyped, readerVars, daemon
<1>4. SocketTyped'
  BY <1>0, <1>1, <1>2, ClientRpcAssumption DEF SocketTyped
<1>5. Unsent \in Nat /\ Unsent' \in Nat
  BY <1>0, <1>1 DEF ClientTyped, Unsent
<1>6. AskedBelow(Unsent')
  BY <1>0, <1>1, <1>5, BoundRises
<1>7. \A i \in 1 .. Len(toDaemon') : toDaemon'[i] < Unsent'
  BY <1>0, <1>1, <1>6 DEF AskedBelow, SocketTyped
<1>8. AnswersAsked'
  BY <1>2, <1>6, <1>7 DEF AnswersAsked, AskedBelow, readerVars, daemon
<1>9. QED
  BY <1>1, <1>3, <1>4, <1>8 DEF ClientInv

LEMMA TakeNoticeSound ==
  ASSUME ClientInv, TakeNotice
  PROVE  ClientInv'
<1>1. inbox \in Seq(Messages) /\ Len(inbox) <= ClientDepth /\ inbox # <<>> /\ inbox' = Tail(inbox)
  BY DEF ClientInv, ReaderTyped, TakeNotice
<1>2. inbox' \in Seq(Messages) /\ Len(inbox') <= ClientDepth
  BY <1>1, HeadTailProperties, ClientRpcAssumption
<1>3. QED
  BY <1>2 DEF TakeNotice, client, daemon, ClientInv, ClientTyped, ReaderTyped, SocketTyped, DaemonTyped,
              AnswersAsked, AskedBelow, Unsent, Asked, InMapWaits

-----------------------------------------------------------------------------
(* The reader thread. *)

LEMMA ReadingSound ==
  ASSUME ClientInv, Reading
  PROVE  ClientInv'
<1>0. ClientTyped /\ ReaderTyped /\ SocketTyped /\ DaemonTyped /\ AskedBelow(Unsent) /\ InMapWaits
  BY DEF ClientInv, AnswersAsked
<1>1. UNCHANGED <<app, call, nextId, toDaemon, cut, daemon>> /\ Unsent' = Unsent
  BY DEF Reading, ReaderSteps, DispatchResponse, HandOver, DispatchNotification, LoseTrack,
         ReaderGuardDrop, ReadFails, client, Unsent
<1>2. DaemonTyped'
  BY <1>0, <1>1 DEF DaemonTyped, daemon
<1>3. ClientTyped' /\ ReaderTyped' /\ InMapWaits' /\ Asked(reader.answer, Unsent)'
      /\ (toClient' = toClient \/ (Len(toClient) >= 2 /\ Next2))
  <2> USE DEF ClientTyped, ReaderTyped, InMapWaits, AskedBelow, Asked, Unsent, Reader
  <2>1. CASE DispatchResponse
    <3>1. Len(toClient) >= 2 /\ toClient[1].frame \in Messages /\ Asked(toClient[1].frame, Unsent)
      BY <1>0, <2>1, FrontTyped DEF DispatchResponse, Whole, SocketTyped
    <3>2. /\ UNCHANGED <<app, call, nextId, slot, readerClosed, inbox>> /\ Next2
          /\ \/ reader' = reader /\ pending' = pending \ {toClient[1].frame.n}
             \/ /\ reader' = [pc |-> "handing", answer |-> toClient[1].frame]
                /\ toClient[1].frame.type = "answer" /\ pending' = pending \ {toClient[1].frame.n}
          /\ reader.pc = "reading"
      BY <2>1 DEF DispatchResponse
    <3>3. ReaderTyped' /\ Asked(reader.answer, Unsent)'
      BY <1>0, <1>1, <3>1, <3>2
    <3>4. ClientTyped'
      BY <1>0, <3>2
    <3>5. InMapWaits'
      <4>1. pending = {} => pending' = {}
        BY <3>2
      <4>2. reader'.pc = "handing" => reader'.answer.type = "answer" /\ reader'.answer.n \notin pending'
        BY <3>2
      <4>3. QED
        BY <1>0, <3>2, <4>1, <4>2
    <3>6. QED
      BY <3>1, <3>2, <3>3, <3>4, <3>5
  <2>2. CASE HandOver
    BY <1>0, <2>2, MessagesTyped DEF HandOver, NoMessage
  <2>3. CASE DispatchNotification
    <3>1. Len(toClient) >= 2 /\ toClient[1].frame \in Messages
      BY <1>0, <2>3, FrontTyped DEF DispatchNotification, Whole
    <3>2. inbox' \in Seq(Messages) /\ Len(inbox') <= ClientDepth
      <4>1. inbox \in Seq(Messages) /\ Len(inbox) \in Nat /\ Len(inbox) <= ClientDepth
        BY <1>0
      <4>2. \/ inbox' = inbox
            \/ Len(inbox) < ClientDepth /\ inbox' = Append(inbox, toClient[1].frame)
        BY <2>3 DEF DispatchNotification
      <4>3. QED
        BY <3>1, <4>1, <4>2, ClientRpcAssumption
    <3>3. QED
      BY <1>0, <2>3, <3>1, <3>2 DEF DispatchNotification, client
  <2>4. CASE LoseTrack
    <3>1. UNCHANGED <<client, readerClosed, inbox>> /\ reader' = [pc |-> "lost", answer |-> NoMessage]
          /\ reader.pc = "reading" /\ Len(toClient) >= 2 /\ Next2
      BY <2>4 DEF LoseTrack, Garbled
    <3>2. Asked(NoMessage, Unsent)
      BY DEF NoMessage
    <3>3. QED
      BY <1>0, <3>1, <3>2, MessagesTyped DEF client
  <2>5. CASE ReadFails
    BY <1>0, <2>5, MessagesTyped DEF ReadFails, client, NoMessage
  <2>6. CASE ReaderGuardDrop
    <3>1. UNCHANGED <<app, call, slot, nextId, inbox>> /\ pending' \subseteq pending /\ UNCHANGED toClient
      BY <2>6 DEF ReaderGuardDrop, client
    <3>2. /\ \/ reader' = [pc |-> "clearing", answer |-> NoMessage]
             \/ reader' = [pc |-> "gone", answer |-> NoMessage]
          /\ readerClosed' = TRUE
      BY <1>0, <2>6 DEF ReaderGuardDrop
    <3>3. Asked(NoMessage, Unsent)
      BY DEF NoMessage
    <3>4. readerClosed' <=> reader'.pc \in {"clearing", "gone"}
      BY <3>2
    <3>5. reader' \in [pc : {"reading", "handing", "lost", "leaving", "clearing", "gone"}, answer : Messages]
      BY <3>2, MessagesTyped
    <3>6. QED
      BY <1>0, <3>1, <3>2, <3>3, <3>4, <3>5
  <2>7. QED
    BY <2>1, <2>2, <2>3, <2>4, <2>5, <2>6 DEF Reading, ReaderSteps
<1>4. SocketTyped' /\ \A i \in 1 .. Len(toClient') : Asked(toClient'[i].frame, Unsent)
  <2>1. CASE toClient' = toClient
    BY <1>0, <1>1, <2>1 DEF SocketTyped, AskedBelow
  <2>2. CASE Len(toClient) >= 2 /\ Next2
    <3>1. toClient' \in Seq(Pieces) /\ Len(toClient') = Len(toClient) - 2 /\ Len(toClient) \in Nat
          /\ \A i \in 1 .. Len(toClient) - 2 : toClient'[i] = toClient[i + 2]
      BY <1>0, <2>2, FrontTyped DEF Next2, SocketTyped
    <3>2. \A i \in 1 .. Len(toClient) - 2 : Asked(toClient[i + 2].frame, Unsent)
      BY <1>0, <3>1 DEF AskedBelow
    <3>3. QED
      BY <1>0, <1>1, <3>1, <3>2 DEF SocketTyped
  <2>3. QED
    BY <1>3, <2>1, <2>2
<1>5. AnswersAsked'
  BY <1>0, <1>1, <1>3, <1>4 DEF AnswersAsked, AskedBelow, daemon, Asked
<1>6. QED
  BY <1>2, <1>3, <1>4, <1>5 DEF ClientInv

-----------------------------------------------------------------------------
(* The daemon's threads. *)

LEMMA ServingSound ==
  ASSUME ClientInv, Serving
  PROVE  ClientInv'
<1>0. ClientTyped /\ ReaderTyped /\ SocketTyped /\ DaemonTyped /\ AskedBelow(Unsent) /\ InMapWaits
  BY DEF ClientInv, AnswersAsked
<1>1. UNCHANGED <<client, readerVars, toClient, cut, writer>> /\ Unsent' = Unsent
  BY DEF Serving, ServerReads, ServerReplies, ServerReadFails, QueueNotice, client, Unsent
<1>2. ClientTyped' /\ ReaderTyped' /\ InMapWaits'
  BY <1>0, <1>1 DEF client, readerVars, ClientTyped, ReaderTyped, InMapWaits
<1>3. /\ toDaemon' \in Seq(Nat) /\ Len(toDaemon') <= Room
      /\ \A i \in 1 .. Len(toDaemon') : toDaemon'[i] < Unsent
      /\ server' \in [pc : {"reading", "replying", "gone"}, answer : Messages] /\ Asked(server'.answer, Unsent)
  <2>1. CASE ServerReads
    <3>1. /\ Head(toDaemon) \in Nat /\ Head(toDaemon) < Unsent
          /\ toDaemon' \in Seq(Nat) /\ Len(toDaemon') = Len(toDaemon) - 1 /\ Len(toDaemon) \in Nat
          /\ \A i \in 1 .. Len(toDaemon') : toDaemon'[i] = toDaemon[i + 1]
      BY <1>0, <2>1, HeadTailProperties DEF ServerReads, SocketTyped, AskedBelow
    <3>2. \A o \in Outcomes : Answer(Head(toDaemon), o) \in Messages
      BY <3>1, MessagesTyped, ClientRpcAssumption
    <3>3. server' \in [pc : {"reading", "replying", "gone"}, answer : Messages] /\ Asked(server'.answer, Unsent)
      BY <1>0, <2>1, <3>1, <3>2 DEF ServerReads, Server, DaemonTyped, AskedBelow, Asked, Answer
    <3>4. Len(toDaemon') <= Room
      BY <1>0, <3>1, ClientRpcAssumption DEF SocketTyped
    <3>5. \A i \in 1 .. Len(toDaemon') : toDaemon[i + 1] < Unsent
      BY <1>0, <3>1 DEF AskedBelow
    <3>6. QED
      BY <3>1, <3>3, <3>4, <3>5
  <2>2. CASE ServerReplies \/ ServerReadFails
    BY <1>0, <2>2, MessagesTyped
       DEF ServerReplies, ServerReadFails, Server, SocketTyped, DaemonTyped, AskedBelow, Asked, NoMessage
  <2>3. CASE QueueNotice
    BY <1>0, <2>3 DEF QueueNotice, SocketTyped, DaemonTyped, AskedBelow
  <2>4. QED
    BY <2>1, <2>2, <2>3 DEF Serving
<1>4. \/ UNCHANGED outbound
      \/ \E m \in Messages : /\ Len(outbound) < ServerDepth /\ Asked(m, Unsent)
                            /\ outbound' = Append(outbound, m)
  BY <1>0, MessagesTyped
     DEF Serving, ServerReads, ServerReplies, ServerReadFails, QueueNotice, DaemonTyped, AskedBelow,
         Asked, Notice
<1>5. /\ outbound' \in Seq(Messages) /\ Len(outbound') <= ServerDepth /\ (outbound # <<>> => outbound' # <<>>)
      /\ \A i \in 1 .. Len(outbound') : Asked(outbound'[i], Unsent)
  <2>1. CASE UNCHANGED outbound
    BY <1>0, <2>1 DEF DaemonTyped, AskedBelow
  <2>2. CASE ~UNCHANGED outbound
    <3>1. PICK m \in Messages : /\ Len(outbound) < ServerDepth /\ Asked(m, Unsent)
                                /\ outbound' = Append(outbound, m)
      BY <1>4, <2>2
    <3>2. QED
      BY <1>0, <3>1, ClientRpcAssumption DEF DaemonTyped, AskedBelow
  <2>3. QED
    BY <2>1, <2>2
<1>6. notices' \in Nat /\ fatal' \in BOOLEAN /\ hung' \in BOOLEAN
  BY <1>0 DEF Serving, ServerReads, ServerReplies, ServerReadFails, QueueNotice, DaemonTyped
<1>7. SocketTyped' /\ DaemonTyped'
  BY <1>0, <1>1, <1>3, <1>5, <1>6 DEF SocketTyped, DaemonTyped
<1>8. AnswersAsked'
  BY <1>0, <1>1, <1>3, <1>5 DEF AnswersAsked, AskedBelow, readerVars
<1>9. QED
  BY <1>2, <1>7, <1>8 DEF ClientInv

(* What a writer puts into the socket. *)
LEMMA WritingEffect ==
  ASSUME ClientInv, Writing
  PROVE  /\ toClient' \in Seq(Pieces)
         /\ \A i \in 1 .. Len(toClient') : Asked(toClient'[i].frame, Unsent)
<1>0. SocketTyped /\ DaemonTyped /\ AskedBelow(Unsent)
  BY DEF ClientInv, AnswersAsked
<1>1. toClient \in Seq(Pieces) /\ Len(toClient) \in Nat
      /\ \A i \in 1 .. Len(toClient) : Asked(toClient[i].frame, Unsent)
  BY <1>0 DEF SocketTyped, AskedBelow
<1>2. CASE WriteLength \/ WritePayload
  <2>1. outbound # <<>> /\ outbound \in Seq(Messages)
    BY <1>0, <1>2 DEF WriteLength, WritePayload, DaemonTyped
  <2>2. Head(outbound) \in Messages /\ Asked(Head(outbound), Unsent)
    BY <1>0, <2>1 DEF AskedBelow
  <2>3. PICK piece \in Pieces : toClient' = Append(toClient, piece) /\ Asked(piece.frame, Unsent)
    BY <1>2, <2>2, MessagesTyped DEF WriteLength, WritePayload, LengthOf, Payload
  <2>4. QED
    BY <1>1, <2>3
<1>3. CASE FatalBroadcast
  <2> DEFINE both == <<LengthOf(FatalNotice), Payload(FatalNotice)>>
  <2>1. LengthOf(FatalNotice) \in Pieces /\ Payload(FatalNotice) \in Pieces
    BY MessagesTyped
  <2>2. both \in Seq(Pieces) /\ Len(both) = 2
    BY <2>1
  <2>3. \A i \in 1 .. 2 : Asked(both[i].frame, Unsent)
    BY DEF LengthOf, Payload, FatalNotice, Asked
  <2>4. toClient' = toClient \o both
    BY <1>3 DEF FatalBroadcast
  <2> HIDE DEF both
  <2>5. /\ toClient \o both \in Seq(Pieces)
        /\ Len(toClient \o both) = Len(toClient) + 2
        /\ \A i \in 1 .. Len(toClient) + 2 :
             (toClient \o both)[i] = IF i <= Len(toClient) THEN toClient[i] ELSE both[i - Len(toClient)]
    <3>1. toClient \o both \in Seq(Pieces) /\ Len(toClient \o both) = Len(toClient) + Len(both)
      BY <1>1, <2>2, ConcatProperties
    <3>2. \A i \in 1 .. Len(toClient) + Len(both) :
            (toClient \o both)[i] = IF i <= Len(toClient) THEN toClient[i] ELSE both[i - Len(toClient)]
      BY <1>1, <2>2, ConcatProperties
    <3>3. QED
      BY <2>2, <3>1, <3>2
  <2>6. \A i \in 1 .. Len(toClient) + 2 : Asked(toClient'[i].frame, Unsent)
    <3> SUFFICES ASSUME NEW i \in 1 .. Len(toClient) + 2 PROVE Asked(toClient'[i].frame, Unsent)
      OBVIOUS
    <3>1. CASE i <= Len(toClient)
      BY <1>1, <2>4, <2>5, <3>1
    <3>2. CASE i > Len(toClient)
      <4>1. i - Len(toClient) \in 1 .. 2 /\ toClient'[i] = both[i - Len(toClient)]
        BY <1>1, <2>4, <2>5, <3>2
      <4>2. QED
        BY <2>3, <4>1
    <3>3. QED
      BY <1>1, <3>1, <3>2
  <2>7. QED
    BY <2>4, <2>5, <2>6
<1>4. CASE WriteFails
  BY <1>1, <1>4 DEF WriteFails
<1>5. QED
  BY <1>2, <1>3, <1>4 DEF Writing

LEMMA WritingSound ==
  ASSUME ClientInv, Writing
  PROVE  ClientInv'
<1>0. ClientTyped /\ ReaderTyped /\ SocketTyped /\ DaemonTyped /\ AskedBelow(Unsent) /\ InMapWaits
  BY DEF ClientInv, AnswersAsked
<1>1. UNCHANGED <<client, readerVars, toDaemon, cut, server, notices, hung>> /\ Unsent' = Unsent
  BY DEF Writing, WriteLength, WritePayload, WriteFails, FatalBroadcast, client, Unsent
<1>2. ClientTyped' /\ ReaderTyped' /\ InMapWaits'
  BY <1>0, <1>1 DEF client, readerVars, ClientTyped, ReaderTyped, InMapWaits
<1>3. /\ outbound' \in Seq(Messages) /\ Len(outbound') <= ServerDepth
      /\ \A i \in 1 .. Len(outbound') : Asked(outbound'[i], Unsent)
      /\ writer' \in {"ready", "half", "gone"} /\ (writer' = "half" => outbound' # <<>>)
      /\ fatal' \in BOOLEAN
  <2>1. CASE WriteLength \/ FatalBroadcast
    BY <1>0, <2>1 DEF WriteLength, FatalBroadcast, DaemonTyped, AskedBelow
  <2>2. CASE WritePayload
    <3>1. /\ outbound' \in Seq(Messages) /\ Len(outbound') = Len(outbound) - 1 /\ Len(outbound) \in Nat
          /\ \A i \in 1 .. Len(outbound') : outbound'[i] = outbound[i + 1]
      BY <1>0, <2>2, HeadTailProperties DEF WritePayload, DaemonTyped
    <3>2. \A i \in 1 .. Len(outbound') : Asked(outbound[i + 1], Unsent)
      BY <1>0, <3>1 DEF AskedBelow
    <3>3. QED
      BY <1>0, <2>2, <3>1, <3>2, ClientRpcAssumption DEF WritePayload, DaemonTyped
  <2>3. CASE WriteFails
    <3>1. <<>> \in Seq(Messages) /\ Len(<<>>) = 0
      BY EmptySeq
    <3>2. QED
      BY <1>0, <2>3, <3>1, ClientRpcAssumption DEF WriteFails, DaemonTyped
  <2>4. QED
    BY <2>1, <2>2, <2>3 DEF Writing
<1>4. SocketTyped' /\ DaemonTyped'
  BY <1>0, <1>1, <1>3, WritingEffect DEF SocketTyped, DaemonTyped
<1>5. AnswersAsked'
  BY <1>0, <1>1, <1>3, WritingEffect DEF AnswersAsked, AskedBelow, readerVars
<1>6. QED
  BY <1>2, <1>4, <1>5 DEF ClientInv

LEMMA EndingSound ==
  ASSUME ClientInv, Ending
  PROVE  ClientInv'
<1>1. /\ UNCHANGED <<call, nextId, pending, slot, readerVars, toDaemon, toClient>>
      /\ UNCHANGED <<server, writer, outbound, notices, fatal>>
      /\ Unsent' = Unsent
  BY DEF Ending, ShutSocket, Join, CloseAllStreams, Hang, client, daemon, Unsent
<1>2. ClientTyped' /\ InMapWaits'
  BY <1>1 DEF Ending, ShutSocket, Join, CloseAllStreams, Hang, client, readerVars,
              ClientInv, ClientTyped, InMapWaits
<1>3. ReaderTyped'
  BY <1>1 DEF readerVars, ClientInv, ReaderTyped
<1>4. SocketTyped' /\ DaemonTyped'
  BY <1>1 DEF Ending, ShutSocket, Join, CloseAllStreams, Hang, daemon, ClientInv, SocketTyped, DaemonTyped
<1>5. AnswersAsked'
  BY <1>1 DEF readerVars, ClientInv, AnswersAsked, AskedBelow
<1>6. QED
  BY <1>2, <1>3, <1>4, <1>5 DEF ClientInv

-----------------------------------------------------------------------------
LEMMA StepSound == ClientInv /\ [Next]_vars => ClientInv'
<1> SUFFICES ASSUME ClientInv, [Next]_vars PROVE ClientInv'
  OBVIOUS
<1>1. CASE Next
  BY <1>1, NextSteps, CallingSound, SendingSound, TakeNoticeSound, ReadingSound, ServingSound,
     WritingSound, EndingSound
<1>2. CASE UNCHANGED vars
  BY <1>2 DEF vars, client, readerVars, daemon, ClientInv, ClientTyped, ReaderTyped, SocketTyped,
              DaemonTyped, AnswersAsked, AskedBelow, Unsent, InMapWaits
<1>3. QED
  BY <1>1, <1>2

LEMMA AlwaysSound == Spec => []ClientInv
BY InitClient, StepSound, PTL DEF Spec

(* The client, its queues and the socket keep their bounds, however many calls *)
(* are made.                                                                *)
THEOREM TypeCorrect == Spec => []TypeOK
<1>1. ClientInv => TypeOK
  BY DEF ClientInv, ClientTyped, ReaderTyped, SocketTyped, DaemonTyped, TypeOK
<1>2. QED
  BY <1>1, AlwaysSound, PTL

(* However a call ends, by an answer, a failure, a deadline or the end of the    *)
(* connection, it leaves nothing in the map of pending calls.                *)
THEOREM NothingLeft == Spec => []NothingPending
<1>1. ClientInv => NothingPending
  BY DEF ClientInv, ClientTyped, InMapWaits, NothingPending, InCall
<1>2. QED
  BY <1>1, AlwaysSound, PTL

-----------------------------------------------------------------------------
(* What the two properties about messages under way are made of: the numbers   *)
(* of the notifications in a sequence, and whether they increase.              *)

Numbers(s) == {n \in Nat : \E i \in 1 .. Len(s) : s[i].type = "notice" /\ s[i].n = n}
Ascending(s) ==
  \A i, j \in 1 .. Len(s) :
    i < j /\ s[i].type = "notice" /\ s[j].type = "notice" => s[i].n < s[j].n
Before(A, B) == \A a \in A, b \in B : a < b
NumberOf(m) == IF m.type = "notice" THEN {m.n} ELSE {}

LEMMA NumbersEmpty == Numbers(<<>>) = {} /\ Ascending(<<>>)
BY DEF Numbers, Ascending

LEMMA MembersTyped ==
  ASSUME NEW s \in Seq(Messages)
  PROVE  \A i \in 1 .. Len(s) : s[i] \in Messages /\ s[i].n \in Nat
<1>1. \A i \in 1 .. Len(s) : s[i] \in Messages
  BY ElementOfSeq
<1>2. \A m \in Messages : m.n \in Nat
  BY DEF Messages
<1>3. QED
  BY <1>1, <1>2

LEMMA NumbersAppend ==
  ASSUME NEW s \in Seq(Messages), NEW m \in Messages
  PROVE  /\ Numbers(Append(s, m)) = Numbers(s) \cup NumberOf(m)
         /\ Ascending(s) /\ Before(Numbers(s), NumberOf(m)) => Ascending(Append(s, m))
<1>1. /\ Append(s, m) \in Seq(Messages) /\ Len(Append(s, m)) = Len(s) + 1 /\ Len(s) \in Nat
      /\ \A i \in 1 .. Len(s) : Append(s, m)[i] = s[i]
      /\ Append(s, m)[Len(s) + 1] = m
  BY AppendProperties
<1> DEFINE t == Append(s, m)
<1> HIDE DEF t
<1>2. \A i \in 1 .. Len(t) : (i \in 1 .. Len(s) /\ t[i] = s[i]) \/ (i = Len(s) + 1 /\ t[i] = m)
  BY <1>1 DEF t
<1>3. \A i \in 1 .. Len(s) : i \in 1 .. Len(t) /\ t[i] = s[i] /\ s[i] \in Messages /\ s[i].n \in Nat
  BY <1>1, MembersTyped DEF t
<1>4. Len(s) + 1 \in 1 .. Len(t) /\ t[Len(s) + 1] = m /\ m.n \in Nat
  BY <1>1 DEF t, Messages
<1>5. Numbers(t) = Numbers(s) \cup NumberOf(m)
  <2>1. ASSUME NEW n \in Numbers(t)
        PROVE  n \in Numbers(s) \cup NumberOf(m)
    BY <1>2, <2>1 DEF Numbers, NumberOf
  <2>2. ASSUME NEW n \in Numbers(s) \cup NumberOf(m)
        PROVE  n \in Numbers(t)
    BY <1>3, <1>4, <2>2 DEF Numbers, NumberOf
  <2>3. QED
    BY <2>1, <2>2
<1>6. ASSUME Ascending(s), Before(Numbers(s), NumberOf(m)),
             NEW i \in 1 .. Len(t), NEW j \in 1 .. Len(t), i < j, t[i].type = "notice", t[j].type = "notice"
      PROVE  t[i].n < t[j].n
  <2>1. i \in 1 .. Len(s) /\ t[i] = s[i]
    BY <1>1, <1>2, <1>6 DEF t
  <2>2. CASE j \in 1 .. Len(s) /\ t[j] = s[j]
    BY <1>6, <2>1, <2>2 DEF Ascending
  <2>3. CASE t[j] = m
    <3>1. s[i].n \in Numbers(s)
      BY <1>3, <1>6, <2>1 DEF Numbers
    <3>2. m.n \in NumberOf(m)
      BY <1>6, <2>3 DEF NumberOf
    <3>3. QED
      BY <1>6, <2>1, <2>3, <3>1, <3>2 DEF Before
  <2>4. QED
    BY <1>2, <2>2, <2>3
<1>7. QED
  BY <1>5, <1>6 DEF t, Ascending

LEMMA NumbersTail ==
  ASSUME NEW s \in Seq(Messages), s # <<>>
  PROVE  /\ Numbers(s) = NumberOf(Head(s)) \cup Numbers(Tail(s))
         /\ Ascending(s) => Ascending(Tail(s)) /\ Before(NumberOf(Head(s)), Numbers(Tail(s)))
<1>1. /\ Tail(s) \in Seq(Messages) /\ Len(Tail(s)) = Len(s) - 1 /\ Len(s) \in Nat /\ Len(s) >= 1
      /\ \A i \in 1 .. Len(Tail(s)) : Tail(s)[i] = s[i + 1]
      /\ Head(s) = s[1]
  BY HeadTailProperties, EmptySeq
<1> DEFINE t == Tail(s)
           h == Head(s)
<1> HIDE DEF t, h
<1>2. \A i \in 1 .. Len(s) : s[i] \in Messages /\ s[i].n \in Nat
  BY MembersTyped
<1>3. \A i \in 1 .. Len(t) : i + 1 \in 1 .. Len(s) /\ t[i] = s[i + 1]
  BY <1>1 DEF t
<1>4. \A i \in 1 .. Len(s) : (i = 1 /\ s[i] = h) \/ (i - 1 \in 1 .. Len(t) /\ s[i] = t[i - 1])
  <2> SUFFICES ASSUME NEW i \in 1 .. Len(s), i # 1 PROVE i - 1 \in 1 .. Len(t) /\ s[i] = t[i - 1]
    BY <1>1 DEF h
  <2>1. i - 1 \in 1 .. Len(t)
    BY <1>1 DEF t
  <2>2. t[i - 1] = s[(i - 1) + 1] /\ (i - 1) + 1 = i
    BY <1>3, <2>1
  <2>3. QED
    BY <2>1, <2>2
<1>5. 1 \in 1 .. Len(s) /\ s[1] = h
  BY <1>1 DEF h
<1>6. Numbers(s) = NumberOf(h) \cup Numbers(t)
  <2>1. ASSUME NEW n \in Numbers(s)
        PROVE  n \in NumberOf(h) \cup Numbers(t)
    BY <1>4, <2>1 DEF Numbers, NumberOf
  <2>2. ASSUME NEW n \in Numbers(t)
        PROVE  n \in Numbers(s)
    BY <1>3, <2>2 DEF Numbers
  <2>3. NumberOf(h) \subseteq Numbers(s)
    BY <1>2, <1>5 DEF Numbers, NumberOf
  <2>4. QED
    BY <2>1, <2>2, <2>3
<1>7. ASSUME Ascending(s)
      PROVE  Ascending(t) /\ Before(NumberOf(h), Numbers(t))
  <2>1. \A i, j \in 1 .. Len(t) : i < j => i + 1 < j + 1
    BY <1>1 DEF t
  <2>2. Ascending(t)
    BY <1>3, <1>7, <2>1 DEF Ascending
  <2>3. ASSUME NEW a \in NumberOf(h), NEW b \in Numbers(t)
        PROVE  a < b
    <3>1. PICK i \in 1 .. Len(t) : t[i].type = "notice" /\ t[i].n = b
      BY DEF Numbers
    <3>2. h.type = "notice" /\ h.n = a
      BY DEF NumberOf
    <3>3. i + 1 \in 1 .. Len(s) /\ t[i] = s[i + 1] /\ 1 < i + 1
      BY <1>3, <3>1
    <3>4. QED
      BY <1>5, <1>7, <3>1, <3>2, <3>3 DEF Ascending
  <2>4. QED
    BY <2>2, <2>3 DEF Before
<1>8. QED
  BY <1>6, <1>7 DEF t, h

LEMMA NumbersConcat ==
  ASSUME NEW s \in Seq(Messages), NEW t \in Seq(Messages)
  PROVE  /\ Numbers(s \o t) = Numbers(s) \cup Numbers(t)
         /\ Ascending(s) /\ Ascending(t) /\ Before(Numbers(s), Numbers(t)) => Ascending(s \o t)
<1>1. /\ s \o t \in Seq(Messages) /\ Len(s \o t) = Len(s) + Len(t) /\ Len(s) \in Nat /\ Len(t) \in Nat
      /\ \A i \in 1 .. Len(s) + Len(t) : (s \o t)[i] = IF i <= Len(s) THEN s[i] ELSE t[i - Len(s)]
  BY ConcatProperties
<1> DEFINE u == s \o t
<1> HIDE DEF u
<1>2. \A i \in 1 .. Len(u) :
        \/ i \in 1 .. Len(s) /\ u[i] = s[i]
        \/ i > Len(s) /\ i - Len(s) \in 1 .. Len(t) /\ u[i] = t[i - Len(s)]
  <2> SUFFICES ASSUME NEW i \in 1 .. Len(u), ~(i \in 1 .. Len(s) /\ u[i] = s[i])
               PROVE  i > Len(s) /\ i - Len(s) \in 1 .. Len(t) /\ u[i] = t[i - Len(s)]
    OBVIOUS
  <2>1. i > Len(s)
    BY <1>1 DEF u
  <2>2. QED
    BY <1>1, <2>1 DEF u
<1>3. \A i \in 1 .. Len(s) : i \in 1 .. Len(u) /\ u[i] = s[i]
  BY <1>1 DEF u
<1>4. \A i \in 1 .. Len(t) : Len(s) + i \in 1 .. Len(u) /\ u[Len(s) + i] = t[i]
  <2> SUFFICES ASSUME NEW i \in 1 .. Len(t) PROVE Len(s) + i \in 1 .. Len(u) /\ u[Len(s) + i] = t[i]
    OBVIOUS
  <2>1. Len(s) + i \in 1 .. Len(s) + Len(t) /\ ~(Len(s) + i <= Len(s)) /\ (Len(s) + i) - Len(s) = i
    BY <1>1
  <2>2. QED
    BY <1>1, <2>1 DEF u
<1>5. \A i \in 1 .. Len(s) : s[i].n \in Nat
  BY MembersTyped
<1>6. \A i \in 1 .. Len(t) : t[i].n \in Nat
  BY MembersTyped
<1>7. Numbers(u) = Numbers(s) \cup Numbers(t)
  <2>1. ASSUME NEW n \in Numbers(u)
        PROVE  n \in Numbers(s) \cup Numbers(t)
    BY <1>2, <2>1 DEF Numbers
  <2>2. ASSUME NEW n \in Numbers(s)
        PROVE  n \in Numbers(u)
    BY <1>3, <2>2 DEF Numbers
  <2>3. ASSUME NEW n \in Numbers(t)
        PROVE  n \in Numbers(u)
    BY <1>4, <2>3 DEF Numbers
  <2>4. QED
    BY <2>1, <2>2, <2>3
<1>8. ASSUME Ascending(s), Ascending(t), Before(Numbers(s), Numbers(t)),
             NEW i \in 1 .. Len(u), NEW j \in 1 .. Len(u), i < j, u[i].type = "notice", u[j].type = "notice"
      PROVE  u[i].n < u[j].n
  <2>1. CASE i \in 1 .. Len(s) /\ u[i] = s[i] /\ j \in 1 .. Len(s) /\ u[j] = s[j]
    BY <1>8, <2>1 DEF Ascending
  <2>2. CASE i \in 1 .. Len(s) /\ u[i] = s[i] /\ j - Len(s) \in 1 .. Len(t) /\ u[j] = t[j - Len(s)]
    <3>1. u[i].n \in Numbers(s) /\ u[j].n \in Numbers(t)
      BY <1>5, <1>6, <1>8, <2>2 DEF Numbers
    <3>2. QED
      BY <1>8, <3>1 DEF Before
  <2>3. CASE /\ i - Len(s) \in 1 .. Len(t) /\ u[i] = t[i - Len(s)]
             /\ j - Len(s) \in 1 .. Len(t) /\ u[j] = t[j - Len(s)]
    <3>1. i - Len(s) < j - Len(s)
      BY <1>1, <1>8
    <3>2. QED
      BY <1>8, <2>3, <3>1 DEF Ascending
  <2>4. QED
    BY <1>1, <1>2, <1>8, <2>1, <2>2, <2>3
<1>9. QED
  BY <1>7, <1>8 DEF u, Ascending

-----------------------------------------------------------------------------
(* Pieces of frames. *)

FrameOf(piece) == IF piece.part = "payload" THEN piece.frame ELSE NoMessage

LEMMA FramesTyped ==
  ASSUME NEW p \in Seq(Pieces)
  PROVE  /\ Frames(p) \in Seq(Messages) /\ Len(Frames(p)) = Len(p) /\ Len(p) \in Nat
         /\ \A i \in 1 .. Len(p) : Frames(p)[i] = FrameOf(p[i]) /\ FrameOf(p[i]) \in Messages
<1>1. Len(p) \in Nat /\ DOMAIN p = 1 .. Len(p)
  BY LenProperties
<1>2. \A i \in 1 .. Len(p) : p[i] \in Pieces
  BY ElementOfSeq
<1>3. \A x \in Pieces : FrameOf(x) \in Messages
  BY MessagesTyped DEF FrameOf, Pieces
<1>4. Frames(p) = [i \in 1 .. Len(p) |-> FrameOf(p[i])]
  BY <1>1 DEF Frames, FrameOf
<1>5. \A i \in 1 .. Len(p) : FrameOf(p[i]) \in Messages
  BY <1>2, <1>3
<1>6. QED
  BY <1>1, <1>4, <1>5, IsASeq, LenProperties

LEMMA FramesAppend ==
  ASSUME NEW p \in Seq(Pieces), NEW x \in Pieces
  PROVE  Frames(Append(p, x)) = Append(Frames(p), FrameOf(x))
<1>1. /\ Append(p, x) \in Seq(Pieces) /\ Len(Append(p, x)) = Len(p) + 1 /\ Len(p) \in Nat
      /\ \A i \in 1 .. Len(p) : Append(p, x)[i] = p[i]
      /\ Append(p, x)[Len(p) + 1] = x
  BY AppendProperties
<1>2. FrameOf(x) \in Messages
  BY MessagesTyped DEF FrameOf, Pieces
<1>3. /\ Append(Frames(p), FrameOf(x)) \in Seq(Messages)
      /\ Len(Append(Frames(p), FrameOf(x))) = Len(p) + 1
      /\ \A i \in 1 .. Len(p) : Append(Frames(p), FrameOf(x))[i] = FrameOf(p[i])
      /\ Append(Frames(p), FrameOf(x))[Len(p) + 1] = FrameOf(x)
  BY <1>2, FramesTyped, AppendProperties
<1>4. /\ Frames(Append(p, x)) \in Seq(Messages)
      /\ Len(Frames(Append(p, x))) = Len(p) + 1
      /\ \A i \in 1 .. Len(p) + 1 : Frames(Append(p, x))[i] = FrameOf(Append(p, x)[i])
  BY <1>1, FramesTyped
<1>5. \A i \in 1 .. Len(p) + 1 : i \in 1 .. Len(p) \/ i = Len(p) + 1
  BY <1>1
<1>6. \A i \in 1 .. Len(p) + 1 : Frames(Append(p, x))[i] = Append(Frames(p), FrameOf(x))[i]
  BY <1>1, <1>3, <1>4, <1>5
<1>7. QED
  BY <1>3, <1>4, <1>6, SeqEqual

(* The first two pieces are taken off. *)
LEMMA FramesFront ==
  ASSUME NEW p \in Seq(Pieces), Len(p) >= 2, NEW q, q = SubSeq(p, 3, Len(p))
  PROVE  /\ Frames(p) \in Seq(Messages) /\ Frames(p) # <<>> /\ Head(Frames(p)) = FrameOf(p[1])
         /\ Tail(Frames(p)) \in Seq(Messages) /\ Tail(Frames(p)) # <<>>
         /\ Head(Tail(Frames(p))) = FrameOf(p[2])
         /\ Frames(q) = Tail(Tail(Frames(p)))
<1> DEFINE f == Frames(p)
<1>1. /\ f \in Seq(Messages) /\ Len(f) = Len(p) /\ Len(p) \in Nat
      /\ \A i \in 1 .. Len(p) : f[i] = FrameOf(p[i])
  BY FramesTyped
<1>2. /\ q \in Seq(Pieces) /\ Len(q) = Len(p) - 2
      /\ \A i \in 1 .. Len(p) - 2 : q[i] = p[i + 2]
  BY DropTwo
<1>3. /\ Frames(q) \in Seq(Messages) /\ Len(Frames(q)) = Len(p) - 2
      /\ \A i \in 1 .. Len(p) - 2 : Frames(q)[i] = FrameOf(q[i])
  BY <1>2, FramesTyped
<1> HIDE DEF f
<1>4. f # <<>> /\ Head(f) = FrameOf(p[1]) /\ Tail(f) \in Seq(Messages) /\ Len(Tail(f)) = Len(p) - 1
      /\ \A i \in 1 .. Len(p) - 1 : Tail(f)[i] = f[i + 1]
  <2>1. f # <<>>
    BY <1>1, EmptySeq
  <2>2. 1 \in 1 .. Len(p)
    BY <1>1
  <2>3. Head(f) = f[1] /\ Tail(f) \in Seq(Messages) /\ Len(Tail(f)) = Len(f) - 1
        /\ \A i \in 1 .. Len(Tail(f)) : Tail(f)[i] = f[i + 1]
    BY <1>1, <2>1, HeadTailProperties
  <2>4. QED
    BY <1>1, <2>1, <2>2, <2>3
<1> DEFINE g == Tail(f)
<1> HIDE DEF g
<1>5. g # <<>> /\ Head(g) = FrameOf(p[2]) /\ Tail(g) \in Seq(Messages) /\ Len(Tail(g)) = Len(p) - 2
      /\ \A i \in 1 .. Len(p) - 2 : Tail(g)[i] = g[i + 1]
  <2>1. g \in Seq(Messages) /\ Len(g) = Len(p) - 1
    BY <1>4 DEF g
  <2>2. g # <<>>
    BY <1>1, <2>1, EmptySeq
  <2>3. Head(g) = g[1] /\ Tail(g) \in Seq(Messages) /\ Len(Tail(g)) = Len(g) - 1
        /\ \A i \in 1 .. Len(Tail(g)) : Tail(g)[i] = g[i + 1]
    BY <2>1, <2>2, HeadTailProperties
  <2>4. g[1] = f[1 + 1] /\ 1 + 1 = 2 /\ 2 \in 1 .. Len(p)
    <3>1. 1 \in 1 .. Len(p) - 1
      BY <1>1
    <3>2. QED
      BY <1>1, <1>4, <3>1 DEF g
  <2>5. QED
    BY <1>1, <2>1, <2>2, <2>3, <2>4
<1>6. Tail(g) = Frames(q)
  <2>1. ASSUME NEW i \in 1 .. Len(p) - 2
        PROVE  Tail(g)[i] = Frames(q)[i]
    <3>1. i + 1 \in 1 .. Len(p) - 1 /\ (i + 1) + 1 = i + 2 /\ i + 2 \in 1 .. Len(p)
      BY <1>1
    <3>2. Tail(g)[i] = f[i + 2]
      BY <1>4, <1>5, <3>1 DEF g
    <3>3. QED
      BY <1>1, <1>2, <1>3, <3>1, <3>2
  <2>2. QED
    BY <1>3, <1>5, <2>1, SeqEqual
<1>7. QED
  BY <1>1, <1>4, <1>5, <1>6 DEF f, g

LEMMA FramesDrop ==
  ASSUME NEW p \in Seq(Pieces), Len(p) >= 2, NEW q, q = SubSeq(p, 3, Len(p))
  PROVE  /\ Numbers(Frames(p)) =
              NumberOf(FrameOf(p[1])) \cup NumberOf(FrameOf(p[2])) \cup Numbers(Frames(q))
         /\ Ascending(Frames(p)) =>
              Ascending(Frames(q)) /\ Before(NumberOf(FrameOf(p[2])), Numbers(Frames(q)))
<1> DEFINE f == Frames(p)
           g == Tail(f)
<1> HIDE DEF f, g
<1>1. /\ f \in Seq(Messages) /\ f # <<>> /\ Head(f) = FrameOf(p[1])
      /\ g \in Seq(Messages) /\ g # <<>> /\ Head(g) = FrameOf(p[2])
      /\ Frames(q) = Tail(g)
  BY FramesFront DEF f, g
<1>2. /\ Numbers(f) = NumberOf(Head(f)) \cup Numbers(g)
      /\ Ascending(f) => Ascending(g)
  BY <1>1, NumbersTail DEF g
<1>3. /\ Numbers(g) = NumberOf(Head(g)) \cup Numbers(Tail(g))
      /\ Ascending(g) => Ascending(Tail(g)) /\ Before(NumberOf(Head(g)), Numbers(Tail(g)))
  BY <1>1, NumbersTail
<1>4. QED
  BY <1>1, <1>2, <1>3 DEF f

(* Two pieces are put at the end, neither of them a part of a notification.    *)
LEMMA FramesFatal ==
  ASSUME NEW p \in Seq(Pieces), NEW q, q = p \o <<LengthOf(FatalNotice), Payload(FatalNotice)>>
  PROVE  /\ Numbers(Frames(q)) = Numbers(Frames(p))
         /\ Ascending(Frames(p)) => Ascending(Frames(q))
         /\ q \in Seq(Pieces) /\ Len(q) = Len(p) + 2
         /\ \A i \in 1 .. Len(p) : q[i] = p[i]
         /\ q[Len(p) + 1] = LengthOf(FatalNotice) /\ q[Len(p) + 2] = Payload(FatalNotice)
<1> DEFINE l == LengthOf(FatalNotice)
           b == Payload(FatalNotice)
           r == Append(p, l)
<1>1. l \in Pieces /\ b \in Pieces
  BY MessagesTyped
<1>2. FrameOf(l) = NoMessage /\ FrameOf(b) = FatalNotice
  BY DEF FrameOf, LengthOf, Payload
<1>3. NumberOf(NoMessage) = {} /\ NumberOf(FatalNotice) = {}
  BY DEF NumberOf, NoMessage, FatalNotice
<1> HIDE DEF l, b
<1>4. /\ r \in Seq(Pieces) /\ Len(r) = Len(p) + 1 /\ Len(p) \in Nat
      /\ (\A i \in 1 .. Len(p) : r[i] = p[i]) /\ r[Len(p) + 1] = l
  BY <1>1, AppendProperties
<1> HIDE DEF r
<1>5. q = Append(r, b)
  <2>1. <<l>> \in Seq(Pieces) /\ <<b>> \in Seq(Pieces) /\ <<l, b>> = <<l>> \o <<b>>
    <3>1. <<l>> \in Seq(Pieces) /\ <<b>> \in Seq(Pieces) /\ <<l, b>> \in Seq(Pieces)
      BY <1>1
    <3>2. Append(<<l>>, b) = <<l, b>>
      <4>1. Len(<<l>>) = 1 /\ <<l>>[1] = l /\ Len(<<l, b>>) = 2 /\ <<l, b>>[1] = l /\ <<l, b>>[2] = b
        OBVIOUS
      <4>2. /\ Append(<<l>>, b) \in Seq(Pieces) /\ Len(Append(<<l>>, b)) = Len(<<l>>) + 1
            /\ (\A i \in 1 .. Len(<<l>>) : Append(<<l>>, b)[i] = <<l>>[i])
            /\ Append(<<l>>, b)[Len(<<l>>) + 1] = b
        BY <1>1, <3>1, AppendProperties
      <4> DEFINE one == <<l>>
                 two == <<l, b>>
      <4> HIDE DEF one, two
      <4>3. Len(Append(one, b)) = 2 /\ Append(one, b)[1] = l /\ Append(one, b)[2] = b
        BY <4>1, <4>2 DEF one, two
      <4>4. \A i \in 1 .. 2 : i = 1 \/ i = 2
        OBVIOUS
      <4>5. \A i \in 1 .. 2 : Append(one, b)[i] = two[i]
        BY <4>1, <4>3, <4>4 DEF two
      <4>6. QED
        BY <3>1, <4>1, <4>2, <4>3, <4>5, SeqEqual DEF one, two
    <3>3. Append(<<l>>, b) = <<l>> \o <<b>>
      BY <1>1, <3>1, AppendIsConcat
    <3>4. QED
      BY <3>1, <3>2, <3>3
  <2>2. r = p \o <<l>> /\ Append(r, b) = r \o <<b>>
    BY <1>1, <1>4, AppendIsConcat DEF r
  <2>3. (p \o <<l>>) \o <<b>> = p \o (<<l>> \o <<b>>)
    BY <2>1, ConcatAssociative
  <2>4. QED
    BY <2>1, <2>2, <2>3 DEF l, b
<1>6. /\ q \in Seq(Pieces) /\ Len(q) = Len(r) + 1
      /\ (\A i \in 1 .. Len(r) : q[i] = r[i]) /\ q[Len(r) + 1] = b
  <2>1. /\ Append(r, b) \in Seq(Pieces) /\ Len(Append(r, b)) = Len(r) + 1
        /\ (\A i \in 1 .. Len(r) : Append(r, b)[i] = r[i]) /\ Append(r, b)[Len(r) + 1] = b
    BY <1>1, <1>4, AppendProperties
  <2>2. QED
    BY ONLY <1>5, <2>1
<1>7. Frames(r) = Append(Frames(p), NoMessage) /\ Frames(q) = Append(Frames(r), FatalNotice)
  BY <1>1, <1>2, <1>4, <1>5, FramesAppend DEF r
<1>8. Frames(p) \in Seq(Messages) /\ Frames(r) \in Seq(Messages)
  BY <1>4, FramesTyped
<1>9. /\ Numbers(Frames(r)) = Numbers(Frames(p)) \cup {}
      /\ Ascending(Frames(p)) => Ascending(Frames(r))
  BY <1>3, <1>7, <1>8, NumbersAppend, MessagesTyped DEF Before
<1>10. /\ Numbers(Frames(q)) = Numbers(Frames(r)) \cup {}
       /\ Ascending(Frames(r)) => Ascending(Frames(q))
  BY <1>3, <1>7, <1>8, NumbersAppend, MessagesTyped DEF Before
<1>11. \A i \in 1 .. Len(p) : i \in 1 .. Len(r)
  BY <1>4
<1>12. Len(p) + 1 \in 1 .. Len(r) /\ Len(q) = Len(p) + 2 /\ Len(r) + 1 = Len(p) + 2
  BY <1>4, <1>6
<1>13. QED
  BY <1>4, <1>6, <1>9, <1>10, <1>11, <1>12 DEF l, b

-----------------------------------------------------------------------------
(* The reader has not lost track of the frames. *)
Following == reader.pc \in {"reading", "handing"}

(* Frames lie at even offsets, except for the payload of one that another has   *)
(* been written into: a reader that follows never takes that for a frame.      *)
Lined ==
  /\ \A k \in Nat : Following /\ 2 * k + 1 <= Len(toClient) /\ toClient[2 * k + 1].part = "payload"
       => k >= 1 /\ toClient[2 * k] # Payload(toClient[2 * k - 1].frame)
  /\ writer = "half" => \E k \in Nat : Len(toClient) = 2 * k + 1
  /\ writer = "ready" => \E k \in Nat : Len(toClient) = 2 * k

Sorted ==
  /\ taken \in Seq(Messages) /\ Ascending(taken) /\ Ascending(inbox)
  /\ Ascending(Frames(toClient)) /\ Ascending(outbound)
  /\ Before(Numbers(taken), Numbers(inbox))
  /\ Before(Numbers(taken), Numbers(Frames(toClient)))
  /\ Before(Numbers(taken), Numbers(outbound))
  /\ Before(Numbers(inbox), Numbers(Frames(toClient)))
  /\ Before(Numbers(inbox), Numbers(outbound))
  /\ Before(Numbers(Frames(toClient)), Numbers(outbound))

Present == Numbers(taken) \cup Numbers(inbox) \cup Numbers(Frames(toClient)) \cup Numbers(outbound)

(* What is delivered or on its way has been queued, and while the connection    *)
(* works it is all that has been queued and did not find the queue full.      *)
Counted ==
  /\ Present \subseteq 1 .. notices /\ dropped \subseteq 0 .. notices
  /\ server.answer.type # "notice"
  /\ Following /\ writer # "gone" => Present = (1 .. notices) \ dropped

NoticeInv == ClientInv /\ Lined /\ Sorted /\ Counted

LEMMA InitNotices == Init => NoticeInv
<1> SUFFICES ASSUME Init PROVE NoticeInv
  OBVIOUS
<1>1. ClientInv
  BY InitClient
<1>2. <<>> \in Seq(Messages) /\ <<>> \in Seq(Pieces) /\ Len(<<>>) = 0
  BY EmptySeq
<1>3. Frames(toClient) = <<>>
  <2>1. Frames(toClient) \in Seq(Messages) /\ Len(Frames(toClient)) = 0
    BY <1>2, FramesTyped DEF Init
  <2>2. QED
    BY <2>1, EmptySeq
<1>4. Lined
  <2>1. 0 \in Nat /\ 0 = 2 * 0 /\ \A k \in Nat : ~(2 * k + 1 <= 0)
    OBVIOUS
  <2>2. QED
    BY <1>2, <2>1 DEF Init, Lined
<1>5. Sorted
  BY <1>2, <1>3, NumbersEmpty DEF Init, Sorted, Before
<1>6. Counted
  <2>1. Present = {}
    BY <1>3, NumbersEmpty DEF Init, Present
  <2>2. (1 .. 0) \ {} = {}
    OBVIOUS
  <2>3. QED
    BY <2>1, <2>2 DEF Init, Counted, NoMessage
<1>7. QED
  BY <1>1, <1>4, <1>5, <1>6 DEF NoticeInv

(* Numbers that have been queued are numbers. *)
LEMMA Sane ==
  ASSUME NoticeInv
  PROVE  /\ inbox \in Seq(Messages) /\ taken \in Seq(Messages) /\ outbound \in Seq(Messages)
         /\ toClient \in Seq(Pieces) /\ Len(toClient) \in Nat
         /\ Frames(toClient) \in Seq(Messages) /\ notices \in Nat
         /\ reader.pc \in {"reading", "handing", "lost", "leaving", "clearing", "gone"}
         /\ writer \in {"ready", "half", "gone"} /\ (writer = "half" => outbound # <<>>)
BY FramesTyped DEF NoticeInv, ClientInv, ReaderTyped, SocketTyped, DaemonTyped, Sorted

-----------------------------------------------------------------------------
(* Steps that move no message. *)
Still ==
  /\ UNCHANGED <<taken, inbox, toClient, outbound, notices, dropped, writer>>
  /\ Following' => Following
  /\ server'.answer.type # "notice"

LEMMA StillSound ==
  ASSUME NoticeInv, Still
  PROVE  Lined' /\ Sorted' /\ Counted'
BY DEF NoticeInv, Still, Lined, Sorted, Counted, Present

LEMMA QuietSteps ==
  ASSUME NoticeInv,
         \/ Calling \/ Sending \/ Ending
         \/ ServerReads \/ ServerReadFails \/ HandOver \/ ReadFails \/ ReaderGuardDrop
         \/ UNCHANGED vars
  PROVE  Still
<1>1. server.answer.type # "notice"
  BY DEF NoticeInv, Counted
<1>2. CASE Calling \/ Sending \/ Ending \/ UNCHANGED vars
  BY <1>1, <1>2 DEF Calling, Request, Close, Enter, LookAgain, SendFails, Receive, Disconnected, Timeout,
    Sending, Send, PublishInterest, Ending, ShutSocket, Join, CloseAllStreams, Hang, vars, client, readerVars, daemon,
    Still, Following
<1>3. CASE ServerReads \/ ServerReadFails
  BY <1>1, <1>3 DEF ServerReads, ServerReadFails, Server, Answer, NoMessage, readerVars, Still, Following
<1>4. CASE HandOver \/ ReadFails \/ ReaderGuardDrop
  BY <1>1, <1>4 DEF HandOver, ReadFails, ReaderGuardDrop, Reader, daemon, Still, Following
<1>5. QED
  BY <1>2, <1>3, <1>4

LEMMA TakeNoticeKeepsOrder ==
  ASSUME NoticeInv, TakeNotice
  PROVE  Lined' /\ Sorted' /\ Counted'
<1>1. /\ inbox # <<>> /\ inbox' = Tail(inbox) /\ taken' = Append(taken, Head(inbox))
      /\ UNCHANGED <<reader, toClient, outbound, notices, dropped, writer, server>>
  BY DEF TakeNotice, daemon
<1>2. Head(inbox) \in Messages /\ Numbers(inbox) \subseteq Nat
  BY <1>1, Sane DEF Numbers
<1>3. /\ Numbers(inbox) = NumberOf(Head(inbox)) \cup Numbers(inbox')
      /\ Ascending(inbox') /\ Before(NumberOf(Head(inbox)), Numbers(inbox'))
  BY <1>1, NumbersTail, Sane DEF NoticeInv, Sorted
<1>4. Before(Numbers(taken), NumberOf(Head(inbox)))
  BY <1>3 DEF NoticeInv, Sorted, Before
<1>5. /\ Numbers(taken') = Numbers(taken) \cup NumberOf(Head(inbox))
      /\ Ascending(taken') /\ taken' \in Seq(Messages)
  BY <1>1, <1>2, <1>4, NumbersAppend, AppendProperties, Sane DEF NoticeInv, Sorted
<1>6. Lined'
  BY <1>1 DEF NoticeInv, Lined, Following
<1>7. Sorted'
  BY <1>1, <1>3, <1>5 DEF NoticeInv, Sorted, Before
<1>8. Present' = Present
  BY <1>1, <1>3, <1>5 DEF Present
<1>9. QED
  BY <1>1, <1>6, <1>7, <1>8 DEF NoticeInv, Counted, Following

(* Two pieces are taken off the front of the socket. *)
LEMMA LinedDrop ==
  ASSUME NoticeInv, Len(toClient) >= 2, Next2, UNCHANGED writer,
         Following' => Following /\ Whole
  PROVE  Lined'
<1>1. /\ Len(toClient') = Len(toClient) - 2 /\ Len(toClient) \in Nat
      /\ \A i \in 1 .. Len(toClient) - 2 : toClient'[i] = toClient[i + 2]
  BY Sane, DropTwo DEF Next2
<1>2. ASSUME NEW k \in Nat, Following', 2 * k + 1 <= Len(toClient'), toClient'[2 * k + 1].part = "payload"
      PROVE  k >= 1 /\ toClient'[2 * k] # Payload(toClient'[2 * k - 1].frame)
  <2>1. toClient'[2 * k + 1] = toClient[2 * (k + 1) + 1] /\ 2 * (k + 1) + 1 <= Len(toClient)
    <3>1. 2 * k + 1 \in 1 .. Len(toClient) - 2 /\ (2 * k + 1) + 2 = 2 * (k + 1) + 1
      BY <1>1, <1>2
    <3>2. QED
      BY <1>1, <1>2, <3>1
  <2>2. toClient[2 * (k + 1)] # Payload(toClient[2 * (k + 1) - 1].frame)
    <3>1. k + 1 \in Nat /\ Following
      BY <1>2
    <3>2. toClient[2 * (k + 1) + 1].part = "payload"
      BY <1>2, <2>1
    <3> DEFINE j == k + 1
    <3> HIDE DEF j
    <3>3. Following /\ 2 * j + 1 <= Len(toClient) /\ toClient[2 * j + 1].part = "payload" /\ j \in Nat
      BY <2>1, <3>1, <3>2 DEF j
    <3>4. toClient[2 * j] # Payload(toClient[2 * j - 1].frame)
      BY <3>3 DEF NoticeInv, Lined
    <3>5. QED
      BY <3>4 DEF j
  <2>3. k # 0
    <3>1. 2 * (0 + 1) = 2 /\ 2 * (0 + 1) - 1 = 1
      OBVIOUS
    <3>2. QED
      BY <1>2, <2>2, <3>1 DEF Whole
  <2>4. /\ 2 * k \in 1 .. Len(toClient) - 2 /\ 2 * k + 2 = 2 * (k + 1)
        /\ 2 * k - 1 \in 1 .. Len(toClient) - 2 /\ (2 * k - 1) + 2 = 2 * (k + 1) - 1
    BY <1>1, <1>2, <2>3
  <2>5. toClient'[2 * k] = toClient[2 * (k + 1)] /\ toClient'[2 * k - 1] = toClient[2 * (k + 1) - 1]
    BY <1>1, <2>4
  <2>6. QED
    BY <2>2, <2>3, <2>5
<1>3. ASSUME NEW k \in Nat, Len(toClient) = 2 * k + 1
      PROVE  \E j \in Nat : Len(toClient') = 2 * j + 1
  <2>1. k - 1 \in Nat /\ Len(toClient') = 2 * (k - 1) + 1
    BY <1>1, <1>3
  <2>2. QED
    BY <2>1
<1>4. ASSUME NEW k \in Nat, Len(toClient) = 2 * k
      PROVE  \E j \in Nat : Len(toClient') = 2 * j
  <2>1. k - 1 \in Nat /\ Len(toClient') = 2 * (k - 1)
    BY <1>1, <1>4
  <2>2. QED
    BY <2>1
<1>5. QED
  BY <1>2, <1>3, <1>4 DEF NoticeInv, Lined

(* What a reader that follows takes off is a length and the payload of the same frame. *)
LEMMA FrontPieces ==
  ASSUME NoticeInv, reader.pc = "reading", Len(toClient) >= 2, Next2
  PROVE  /\ toClient[1].frame \in Messages
         /\ Numbers(Frames(toClient')) \subseteq Numbers(Frames(toClient)) /\ Ascending(Frames(toClient'))
         /\ Whole => /\ Numbers(Frames(toClient)) =
                          NumberOf(toClient[1].frame) \cup Numbers(Frames(toClient'))
                     /\ Before(NumberOf(toClient[1].frame), Numbers(Frames(toClient')))
<1>1. toClient[1] \in Pieces /\ toClient[1].frame \in Messages
  BY FrontTyped DEF NoticeInv, ClientInv
<1>2. /\ Numbers(Frames(toClient)) =
            NumberOf(FrameOf(toClient[1])) \cup NumberOf(FrameOf(toClient[2])) \cup Numbers(Frames(toClient'))
      /\ Ascending(Frames(toClient'))
      /\ Before(NumberOf(FrameOf(toClient[2])), Numbers(Frames(toClient')))
  BY Sane, FramesDrop DEF Next2, NoticeInv, Sorted
<1>3. FrameOf(toClient[1]) = NoMessage
  <2>1. 0 \in Nat /\ 2 * 0 + 1 = 1 /\ ~(0 >= 1)
    OBVIOUS
  <2>2. 1 <= Len(toClient)
    BY Sane
  <2>3. toClient[1].part # "payload"
    BY <2>1, <2>2 DEF NoticeInv, Lined, Following
  <2>4. QED
    BY <2>3 DEF FrameOf
<1>4. Whole => FrameOf(toClient[2]) = toClient[1].frame
  BY DEF Whole, FrameOf, Payload
<1>5. NumberOf(NoMessage) = {}
  BY DEF NumberOf, NoMessage
<1>6. QED
  BY <1>1, <1>2, <1>3, <1>4, <1>5

LEMMA DispatchKeepsOrder ==
  ASSUME NoticeInv, DispatchResponse \/ LoseTrack
  PROVE  Lined' /\ Sorted' /\ Counted'
<1>1. /\ reader.pc = "reading" /\ Len(toClient) >= 2 /\ Next2 /\ UNCHANGED <<taken, inbox, outbound, notices, dropped, writer, server>>
      /\ Following' => Following /\ Whole /\ toClient[1].frame.type = "answer"
  BY DEF DispatchResponse, LoseTrack, Garbled, Whole, Reader, daemon, Following
<1>2. Lined'
  BY <1>1, LinedDrop
<1>3. Numbers(Frames(toClient')) \subseteq Numbers(Frames(toClient)) /\ Ascending(Frames(toClient'))
  BY <1>1, FrontPieces
<1>4. Following' => Numbers(Frames(toClient')) = Numbers(Frames(toClient))
  BY <1>1, FrontPieces DEF NumberOf
<1>5. Sorted'
  BY <1>1, <1>3 DEF NoticeInv, Sorted, Before
<1>6. Present' \subseteq Present /\ (Following' => Present' = Present)
  BY <1>1, <1>3, <1>4 DEF Present
<1>7. Counted'
  BY <1>1, <1>6 DEF NoticeInv, Counted, Following
<1>8. QED
  BY <1>2, <1>5, <1>7

LEMMA NotificationKeepsOrder ==
  ASSUME NoticeInv, DispatchNotification
  PROVE  Lined' /\ Sorted' /\ Counted'
<1> DEFINE f == toClient[1].frame
<1>1. /\ reader.pc = "reading" /\ Len(toClient) >= 2 /\ Next2 /\ Whole /\ f.type \in {"notice", "fatal"}
      /\ UNCHANGED <<taken, reader, outbound, notices, writer, server>>
      /\ \/ inbox' = Append(inbox, f) /\ UNCHANGED dropped
         \/ dropped' = dropped \cup {f.n} /\ UNCHANGED inbox
  BY DEF DispatchNotification, Whole, daemon
<1>2. Lined'
  BY <1>1, LinedDrop DEF Following
<1>3. /\ f \in Messages /\ Ascending(Frames(toClient'))
      /\ Numbers(Frames(toClient)) = NumberOf(f) \cup Numbers(Frames(toClient'))
      /\ Before(NumberOf(f), Numbers(Frames(toClient')))
  BY <1>1, FrontPieces
<1> HIDE DEF f
<1>4. /\ Before(Numbers(taken), NumberOf(f)) /\ Before(Numbers(inbox), NumberOf(f))
      /\ Before(NumberOf(f), Numbers(outbound))
  BY <1>3 DEF NoticeInv, Sorted, Before
<1>5. CASE inbox' = Append(inbox, f) /\ UNCHANGED dropped
  <2>1. /\ Numbers(inbox') = Numbers(inbox) \cup NumberOf(f)
        /\ Ascending(inbox')
    BY <1>3, <1>4, <1>5, NumbersAppend, Sane DEF NoticeInv, Sorted
  <2>2. Sorted'
    BY <1>1, <1>3, <1>4, <2>1 DEF NoticeInv, Sorted, Before
  <2>3. Present' = Present
    BY <1>1, <1>3, <2>1 DEF Present
  <2>4. QED
    BY <1>1, <1>2, <1>5, <2>2, <2>3 DEF NoticeInv, Counted, Following
<1>6. CASE dropped' = dropped \cup {f.n} /\ UNCHANGED inbox
  <2>1. Sorted'
    BY <1>1, <1>3, <1>6 DEF NoticeInv, Sorted, Before
  <2>2. f.n \in 0 .. notices /\ f.n \notin Present'
    <3>1. CASE f.type = "fatal"
      <4>1. f.n = 0
        BY <1>3, <3>1 DEF Messages
      <4>2. NumberOf(f) = {}
        BY <3>1 DEF NumberOf
      <4>3. Present' \subseteq Present
        BY <1>1, <1>3, <1>6, <4>2 DEF Present
      <4>4. QED
        BY <4>1, <4>3, Sane DEF NoticeInv, Counted
    <3>2. CASE f.type = "notice"
      <4>1. f.n \in Nat /\ NumberOf(f) = {f.n} /\ ~(f.n < f.n)
        BY <1>3, <3>2 DEF Messages, NumberOf
      <4>2. f.n \in 1 .. notices
        BY <1>3, <4>1 DEF NoticeInv, Counted, Present
      <4>3. f.n \notin Present'
        BY <1>1, <1>3, <1>4, <1>6, <4>1 DEF Present, Before
      <4>4. QED
        BY <4>2, <4>3, Sane
    <3>3. QED
      BY <1>1, <3>1, <3>2
  <2>3. Present' \cup NumberOf(f) = Present /\ NumberOf(f) \subseteq {f.n}
    BY <1>1, <1>3, <1>6 DEF Present, NumberOf
  <2>4. Counted'
    BY <1>1, <1>6, <2>2, <2>3, Sane DEF NoticeInv, Counted, Following
  <2>5. QED
    BY <1>2, <2>1, <2>4
<1>7. QED
  BY <1>1, <1>5, <1>6

-----------------------------------------------------------------------------
LEMMA RepliesKeepOrder ==
  ASSUME NoticeInv, ServerReplies
  PROVE  Lined' /\ Sorted' /\ Counted'
<1>1. UNCHANGED <<taken, inbox, toClient, notices, dropped, writer, reader>> /\ server'.answer = NoMessage
  BY DEF ServerReplies, Server, readerVars
<1>2. outbound' = outbound \/ (outbound' = Append(outbound, server.answer))
  BY DEF ServerReplies
<1>3. server.answer \in Messages /\ NumberOf(server.answer) = {}
  BY DEF NoticeInv, ClientInv, DaemonTyped, Counted, NumberOf
<1>4. Numbers(outbound') = Numbers(outbound) /\ Ascending(outbound')
  <2>1. CASE outbound' = outbound
    BY <2>1 DEF NoticeInv, Sorted
  <2>2. CASE outbound' = Append(outbound, server.answer)
    <3>1. Before(Numbers(outbound), NumberOf(server.answer))
      BY <1>3 DEF Before
    <3>2. Ascending(outbound) /\ outbound \in Seq(Messages)
      BY Sane DEF NoticeInv, Sorted
    <3>3. /\ Numbers(Append(outbound, server.answer)) = Numbers(outbound) \cup NumberOf(server.answer)
          /\ Ascending(Append(outbound, server.answer))
      BY <1>3, <3>1, <3>2, NumbersAppend
    <3>4. QED
      BY <1>3, <2>2, <3>3
  <2>3. QED
    BY <1>2, <2>1, <2>2
<1>5. Lined' /\ Sorted'
  BY <1>1, <1>4 DEF NoticeInv, Lined, Sorted, Following
<1>6. Present' = Present
  BY <1>1, <1>4 DEF Present
<1>7. QED
  BY <1>1, <1>5, <1>6 DEF NoticeInv, Counted, Following, NoMessage

LEMMA QueueNoticeKeepsOrder ==
  ASSUME NoticeInv, QueueNotice
  PROVE  Lined' /\ Sorted' /\ Counted'
<1>1. /\ UNCHANGED <<taken, inbox, toClient, dropped, writer, reader, server>>
      /\ notices' = notices + 1 /\ outbound' = Append(outbound, Notice(notices + 1))
  BY DEF QueueNotice, readerVars
<1>2. notices \in Nat /\ Notice(notices + 1) \in Messages /\ NumberOf(Notice(notices + 1)) = {notices + 1}
  <2>1. notices \in Nat /\ notices + 1 \in Nat
    BY Sane
  <2>2. QED
    BY <2>1, MessagesTyped DEF NumberOf, Notice
<1>3. \A n \in Present : n < notices + 1
  BY <1>2 DEF NoticeInv, Counted
<1>4. /\ Before(Numbers(taken), {notices + 1}) /\ Before(Numbers(inbox), {notices + 1})
      /\ Before(Numbers(Frames(toClient)), {notices + 1}) /\ Before(Numbers(outbound), {notices + 1})
  BY <1>3 DEF Present, Before
<1>5. Numbers(outbound') = Numbers(outbound) \cup {notices + 1} /\ Ascending(outbound')
  BY <1>1, <1>2, <1>4, NumbersAppend, Sane DEF NoticeInv, Sorted
<1>6. Lined'
  BY <1>1 DEF NoticeInv, Lined, Following
<1>7. Sorted'
  BY <1>1, <1>4, <1>5 DEF NoticeInv, Sorted, Before
<1>8. Present' = Present \cup {notices + 1}
  BY <1>1, <1>5 DEF Present
<1>9. Counted'
  <2>1. 1 .. notices + 1 = (1 .. notices) \cup {notices + 1} /\ 0 .. notices \subseteq 0 .. notices + 1
        /\ notices + 1 \notin 0 .. notices
    BY <1>2
  <2>2. Present' \subseteq 1 .. notices' /\ dropped' \subseteq 0 .. notices' /\ notices + 1 \notin dropped
    BY <1>1, <1>8, <2>1 DEF NoticeInv, Counted
  <2>3. Following' /\ writer' # "gone" => Present' = (1 .. notices') \ dropped'
    BY <1>1, <1>8, <2>1, <2>2 DEF NoticeInv, Counted, Following
  <2>4. QED
    BY <1>1, <2>2, <2>3 DEF NoticeInv, Counted
<1>10. QED
  BY <1>6, <1>7, <1>9

(* A piece at the end of the socket, at an even offset or a length. *)
LEMMA LinedAppend ==
  ASSUME NoticeInv, UNCHANGED reader, NEW piece \in Pieces, toClient' = Append(toClient, piece),
         \/ writer = "ready" /\ writer' = "half" /\ piece.part = "length"
         \/ writer = "half" /\ writer' = "ready"
  PROVE  Lined'
<1>1. /\ Len(toClient') = Len(toClient) + 1 /\ Len(toClient) \in Nat
      /\ \A i \in 1 .. Len(toClient) : toClient'[i] = toClient[i]
      /\ toClient'[Len(toClient) + 1] = piece
  BY Sane, AppendProperties
<1>2. ASSUME NEW k \in Nat, Following', 2 * k + 1 <= Len(toClient'), toClient'[2 * k + 1].part = "payload"
      PROVE  k >= 1 /\ toClient'[2 * k] # Payload(toClient'[2 * k - 1].frame)
  <2>1. 2 * k + 1 <= Len(toClient)
    <3>1. CASE writer = "half"
      <4>1. PICK j \in Nat : Len(toClient) = 2 * j + 1
        BY <3>1 DEF NoticeInv, Lined
      <4>2. 2 * k + 1 # (2 * j + 1) + 1
        OBVIOUS
      <4>3. QED
        BY <1>1, <1>2, <4>1, <4>2
    <3>2. CASE piece.part = "length"
      <4>1. 2 * k + 1 # Len(toClient) + 1
        BY <1>1, <1>2, <3>2
      <4>2. QED
        BY <1>1, <1>2, <4>1
    <3>3. QED
      BY <3>1, <3>2
  <2>2. 2 * k + 1 \in 1 .. Len(toClient) /\ toClient'[2 * k + 1] = toClient[2 * k + 1]
    BY <1>1, <2>1
  <2>3. Following
    BY <1>2 DEF Following
  <2>4. k >= 1 /\ toClient[2 * k] # Payload(toClient[2 * k - 1].frame)
    BY <1>2, <2>1, <2>2, <2>3 DEF NoticeInv, Lined
  <2>5. 2 * k \in 1 .. Len(toClient) /\ 2 * k - 1 \in 1 .. Len(toClient)
    BY <1>1, <2>1, <2>4
  <2>6. QED
    BY <1>1, <2>4, <2>5
<1>3. writer' = "half" => \E k \in Nat : Len(toClient') = 2 * k + 1
  BY <1>1 DEF NoticeInv, Lined
<1>4. writer' = "ready" => \E k \in Nat : Len(toClient') = 2 * k
  <2> SUFFICES ASSUME writer' = "ready" PROVE \E k \in Nat : Len(toClient') = 2 * k
    OBVIOUS
  <2>1. PICK j \in Nat : Len(toClient) = 2 * j + 1
    BY DEF NoticeInv, Lined
  <2>2. j + 1 \in Nat /\ Len(toClient') = 2 * (j + 1)
    BY <1>1, <2>1
  <2>3. QED
    BY <2>2
<1>5. QED
  BY <1>2, <1>3, <1>4 DEF Lined

LEMMA WriteLengthKeepsOrder ==
  ASSUME NoticeInv, WriteLength
  PROVE  Lined' /\ Sorted' /\ Counted'
<1> DEFINE piece == LengthOf(Head(outbound))
<1>1. /\ UNCHANGED <<taken, inbox, outbound, notices, dropped, reader, server>> /\ outbound # <<>>
      /\ writer = "ready" /\ writer' = "half" /\ toClient' = Append(toClient, piece)
  BY DEF WriteLength, readerVars
<1>2. Head(outbound) \in Messages
  BY <1>1, Sane
<1>3. piece \in Pieces /\ piece.part = "length" /\ FrameOf(piece) = NoMessage
  BY <1>2, MessagesTyped DEF LengthOf, FrameOf
<1> HIDE DEF piece
<1>4. Lined'
  BY <1>1, <1>3, LinedAppend
<1>5. Frames(toClient') = Append(Frames(toClient), NoMessage)
  BY <1>1, <1>3, FramesAppend, Sane
<1>6. Numbers(Frames(toClient')) = Numbers(Frames(toClient)) /\ Ascending(Frames(toClient'))
  <2> DEFINE s == Frames(toClient)
  <2>1. s \in Seq(Messages) /\ NoMessage \in Messages /\ Ascending(s)
    BY MessagesTyped, Sane DEF NoticeInv, Sorted
  <2>2. NumberOf(NoMessage) = {}
    BY DEF NumberOf, NoMessage
  <2>3. Before(Numbers(s), NumberOf(NoMessage))
    BY <2>2 DEF Before
  <2> HIDE DEF s
  <2>4. /\ Numbers(Append(s, NoMessage)) = Numbers(s) \cup NumberOf(NoMessage)
        /\ Ascending(Append(s, NoMessage))
    BY <2>1, <2>3, NumbersAppend
  <2>5. QED
    BY <1>5, <2>2, <2>4 DEF s
<1>7. Sorted'
  BY <1>1, <1>6 DEF NoticeInv, Sorted
<1>8. Present' = Present
  BY <1>1, <1>6 DEF Present
<1>9. QED
  BY <1>1, <1>4, <1>7, <1>8 DEF NoticeInv, Counted, Following

LEMMA WritePayloadKeepsOrder ==
  ASSUME NoticeInv, WritePayload
  PROVE  Lined' /\ Sorted' /\ Counted'
<1> DEFINE h == Head(outbound)
           piece == Payload(h)
<1>1. /\ UNCHANGED <<taken, inbox, notices, dropped, reader, server>> /\ outbound # <<>>
      /\ writer = "half" /\ writer' = "ready" /\ toClient' = Append(toClient, piece)
      /\ outbound' = Tail(outbound)
  BY Sane DEF WritePayload, readerVars
<1>2. h \in Messages
  BY <1>1, Sane
<1>3. piece \in Pieces /\ FrameOf(piece) = h
  BY <1>2, MessagesTyped DEF Payload, FrameOf
<1>4. /\ Numbers(outbound) = NumberOf(h) \cup Numbers(outbound')
      /\ Ascending(outbound') /\ Before(NumberOf(h), Numbers(outbound'))
  BY <1>1, NumbersTail, Sane DEF NoticeInv, Sorted
<1> HIDE DEF piece, h
<1>5. Lined'
  BY <1>1, <1>3, LinedAppend
<1>6. Frames(toClient') = Append(Frames(toClient), h)
  BY <1>1, <1>3, FramesAppend, Sane
<1>7. /\ Before(Numbers(taken), NumberOf(h)) /\ Before(Numbers(inbox), NumberOf(h))
      /\ Before(Numbers(Frames(toClient)), NumberOf(h))
  BY <1>4 DEF NoticeInv, Sorted, Before
<1>8. /\ Numbers(Frames(toClient')) = Numbers(Frames(toClient)) \cup NumberOf(h)
      /\ Ascending(Frames(toClient'))
  BY <1>2, <1>6, <1>7, NumbersAppend, Sane DEF NoticeInv, Sorted
<1>9. Sorted'
  BY <1>1, <1>4, <1>7, <1>8 DEF NoticeInv, Sorted, Before
<1>10. Present' = Present
  BY <1>1, <1>4, <1>8 DEF Present
<1>11. QED
  BY <1>1, <1>5, <1>9, <1>10 DEF NoticeInv, Counted, Following

LEMMA WriteFailsKeepsOrder ==
  ASSUME NoticeInv, WriteFails
  PROVE  Lined' /\ Sorted' /\ Counted'
<1>1. /\ UNCHANGED <<taken, inbox, toClient, notices, dropped, reader, server>>
      /\ writer' = "gone" /\ outbound' = <<>>
  BY DEF WriteFails, readerVars
<1>2. Numbers(outbound') = {} /\ Ascending(outbound')
  BY <1>1, NumbersEmpty
<1>3. Sorted'
  BY <1>1, <1>2 DEF NoticeInv, Sorted, Before
<1>4. Present' \subseteq Present
  BY <1>1, <1>2 DEF Present
<1>5. QED
  BY <1>1, <1>3, <1>4 DEF NoticeInv, Lined, Counted, Following

(* The frame of the monitor, whatever it is written into. *)
LEMMA FatalKeepsOrder ==
  ASSUME NoticeInv, FatalBroadcast
  PROVE  Lined' /\ Sorted' /\ Counted'
<1>1. /\ UNCHANGED <<taken, inbox, outbound, notices, dropped, reader, server, writer>>
      /\ toClient' = toClient \o <<LengthOf(FatalNotice), Payload(FatalNotice)>>
  BY DEF FatalBroadcast, readerVars
<1>2. /\ Numbers(Frames(toClient')) = Numbers(Frames(toClient)) /\ Ascending(Frames(toClient'))
      /\ Len(toClient') = Len(toClient) + 2 /\ Len(toClient) \in Nat
      /\ \A i \in 1 .. Len(toClient) : toClient'[i] = toClient[i]
      /\ toClient'[Len(toClient) + 1] = LengthOf(FatalNotice)
      /\ toClient'[Len(toClient) + 2] = Payload(FatalNotice)
  BY <1>1, FramesFatal, Sane DEF NoticeInv, Sorted
<1>3. ASSUME NEW k \in Nat, Following', 2 * k + 1 <= Len(toClient'), toClient'[2 * k + 1].part = "payload"
      PROVE  k >= 1 /\ toClient'[2 * k] # Payload(toClient'[2 * k - 1].frame)
  <2>1. CASE 2 * k + 1 <= Len(toClient)
    <3>1. 2 * k + 1 \in 1 .. Len(toClient) /\ toClient'[2 * k + 1] = toClient[2 * k + 1]
      BY <1>2, <2>1
    <3>2. Following
      BY <1>1, <1>3 DEF Following
    <3>3. k >= 1 /\ toClient[2 * k] # Payload(toClient[2 * k - 1].frame)
      BY <1>3, <2>1, <3>1, <3>2 DEF NoticeInv, Lined
    <3>4. 2 * k \in 1 .. Len(toClient) /\ 2 * k - 1 \in 1 .. Len(toClient)
      BY <1>2, <2>1, <3>3
    <3>5. QED
      BY <1>2, <3>3, <3>4
  <2>2. CASE 2 * k + 1 = Len(toClient) + 1
    BY <1>2, <1>3, <2>2 DEF LengthOf
  <2>3. CASE 2 * k + 1 = Len(toClient) + 2
    <3>1. k >= 1 /\ 2 * k = Len(toClient) + 1
      BY <1>2, <2>3
    <3>2. QED
      BY <1>2, <3>1 DEF LengthOf, Payload
  <2>4. QED
    BY <1>2, <1>3, <2>1, <2>2, <2>3
<1>4. ASSUME NEW k \in Nat
      PROVE  /\ k + 1 \in Nat
             /\ Len(toClient) = 2 * k + 1 => Len(toClient') = 2 * (k + 1) + 1
             /\ Len(toClient) = 2 * k => Len(toClient') = 2 * (k + 1)
  BY <1>2
<1>5. Lined'
  BY <1>1, <1>3, <1>4 DEF NoticeInv, Lined
<1>6. Sorted'
  BY <1>1, <1>2 DEF NoticeInv, Sorted
<1>7. Present' = Present
  BY <1>1, <1>2 DEF Present
<1>8. QED
  BY <1>1, <1>5, <1>6, <1>7 DEF NoticeInv, Counted, Following

-----------------------------------------------------------------------------
LEMMA NoticeStep == NoticeInv /\ [Next]_vars => NoticeInv'
<1> SUFFICES ASSUME NoticeInv, [Next]_vars PROVE NoticeInv'
  OBVIOUS
<1>1. ClientInv'
  BY StepSound DEF NoticeInv
<1>2. Lined' /\ Sorted' /\ Counted'
  <2>1. CASE Calling \/ Sending \/ Ending \/ UNCHANGED vars
    BY <2>1, QuietSteps, StillSound
  <2>2. CASE TakeNotice
    BY <2>2, TakeNoticeKeepsOrder
  <2>3. CASE Reading
    BY <2>3, QuietSteps, StillSound, DispatchKeepsOrder, NotificationKeepsOrder DEF Reading, ReaderSteps
  <2>4. CASE Serving
    BY <2>4, QuietSteps, StillSound, RepliesKeepOrder, QueueNoticeKeepsOrder DEF Serving
  <2>5. CASE Writing
    BY <2>5, WriteLengthKeepsOrder, WritePayloadKeepsOrder, WriteFailsKeepsOrder, FatalKeepsOrder DEF Writing
  <2>6. QED
    BY <2>1, <2>2, <2>3, <2>4, <2>5, NextSteps
<1>3. QED
  BY <1>1, <1>2 DEF NoticeInv

LEMMA AlwaysOrdered == Spec => []NoticeInv
BY InitNotices, NoticeStep, PTL DEF Spec

(* The numbers at the places of notifications are the numbers of the sequence. *)
LEMMA NumbersAt ==
  ASSUME NEW s \in Seq(Messages)
  PROVE  {s[i].n : i \in {j \in DOMAIN s : s[j].type = "notice"}} = Numbers(s)
<1>1. DOMAIN s = 1 .. Len(s) /\ \A i \in 1 .. Len(s) : s[i].n \in Nat
  BY MembersTyped, LenProperties
<1>2. QED
  BY <1>1 DEF Numbers

(* Notifications reach the application in the order the daemon queued them and  *)
(* none twice, whoever writes between whom; while the connection works, those   *)
(* delivered or on their way are all but the ones that found the client's      *)
(* queue full.                                                              *)
THEOREM NoticesOrdered == Spec => []NoticesInOrder
<1>1. NoticeInv => NoticesInOrder
  <2> SUFFICES ASSUME NoticeInv PROVE NoticesInOrder
    OBVIOUS
  <2> DEFINE a == taken \o inbox
             b == a \o Frames(toClient)
  <2>1. a \in Seq(Messages) /\ Ascending(a) /\ Numbers(a) = Numbers(taken) \cup Numbers(inbox)
    BY Sane, NumbersConcat, ConcatProperties DEF NoticeInv, Sorted
  <2> HIDE DEF a
  <2>2. /\ b \in Seq(Messages) /\ Ascending(b)
        /\ Numbers(b) = Numbers(taken) \cup Numbers(inbox) \cup Numbers(Frames(toClient))
    <3>1. Before(Numbers(a), Numbers(Frames(toClient)))
      BY <2>1 DEF NoticeInv, Sorted, Before
    <3>2. QED
      BY <2>1, <3>1, Sane, NumbersConcat, ConcatProperties DEF NoticeInv, Sorted
  <2> HIDE DEF b
  <2>3. Stream = b \o outbound /\ Stream \in Seq(Messages) /\ Ascending(Stream) /\ Numbers(Stream) = Present
    <3>1. Stream = b \o outbound
      BY DEF Stream, a, b
    <3>2. Before(Numbers(b), Numbers(outbound))
      BY <2>2 DEF NoticeInv, Sorted, Before
    <3>3. QED
      BY <2>2, <3>1, <3>2, Sane, NumbersConcat, ConcatProperties DEF NoticeInv, Sorted, Present
  <2>4. DOMAIN Stream = 1 .. Len(Stream)
    BY <2>3, LenProperties
  <2>5. \A i, j \in NoticesAt : i < j => Stream[i].n < Stream[j].n
    BY <2>3, <2>4 DEF NoticesAt, Ascending
  <2>6. {Stream[i].n : i \in NoticesAt} = Present
    BY <2>3, NumbersAt DEF NoticesAt
  <2>7. QED
    BY <2>5, <2>6 DEF NoticesInOrder, NoticeInv, Counted, Following
<1>2. QED
  BY <1>1, AlwaysOrdered, PTL

-----------------------------------------------------------------------------
(* A sequence holds no member of W, or one at one place. *)
Empty(s, W) == \A i \in 1 .. Len(s) : s[i] \notin W
Single(s, W) == \E i \in 1 .. Len(s) : s[i] \in W /\ \A j \in 1 .. Len(s) : s[j] \in W => j = i

LEMMA HoldsAppend ==
  ASSUME NEW S, NEW s \in Seq(S), NEW m \in S, NEW W
  PROVE  /\ m \notin W => (Empty(s, W) => Empty(Append(s, m), W)) /\ (Single(s, W) => Single(Append(s, m), W))
         /\ m \in W /\ Empty(s, W) => Single(Append(s, m), W)
<1> DEFINE t == Append(s, m)
<1>1. /\ Len(t) = Len(s) + 1 /\ Len(s) \in Nat
      /\ \A i \in 1 .. Len(s) : t[i] = s[i]
      /\ t[Len(s) + 1] = m
  BY AppendProperties
<1> HIDE DEF t
<1>2. \A i \in 1 .. Len(t) : (i \in 1 .. Len(s) /\ t[i] = s[i]) \/ (i = Len(s) + 1 /\ t[i] = m)
  BY <1>1
<1>3. (\A i \in 1 .. Len(s) : i \in 1 .. Len(t)) /\ Len(s) + 1 \in 1 .. Len(t)
  BY <1>1
<1>4. ASSUME m \notin W, Empty(s, W) PROVE Empty(t, W)
  BY <1>2, <1>4 DEF Empty
<1>5. ASSUME m \notin W, Single(s, W) PROVE Single(t, W)
  BY <1>1, <1>2, <1>3, <1>5 DEF Single
<1>6. ASSUME m \in W, Empty(s, W) PROVE Single(t, W)
  BY <1>1, <1>2, <1>3, <1>6 DEF Single, Empty
<1>7. QED
  BY <1>4, <1>5, <1>6 DEF t

LEMMA HoldsTail ==
  ASSUME NEW S, NEW s \in Seq(S), s # <<>>, NEW W
  PROVE  /\ Empty(s, W) => Head(s) \notin W /\ Empty(Tail(s), W)
         /\ Single(s, W) /\ Head(s) \in W => Empty(Tail(s), W)
         /\ Single(s, W) /\ Head(s) \notin W => Single(Tail(s), W)
<1> DEFINE t == Tail(s)
<1>1. /\ Len(t) = Len(s) - 1 /\ Len(s) \in Nat /\ Len(s) >= 1
      /\ \A i \in 1 .. Len(t) : t[i] = s[i + 1]
      /\ Head(s) = s[1]
  BY HeadTailProperties, EmptySeq
<1> HIDE DEF t
<1>2. \A i \in 1 .. Len(t) : i + 1 \in 1 .. Len(s) /\ t[i] = s[i + 1] /\ i + 1 # 1
  BY <1>1
<1>3. 1 \in 1 .. Len(s) /\ s[1] = Head(s)
  BY <1>1
<1>4. ASSUME Empty(s, W) PROVE Head(s) \notin W /\ Empty(t, W)
  BY <1>2, <1>3, <1>4 DEF Empty
<1>5. ASSUME Single(s, W), Head(s) \in W PROVE Empty(t, W)
  <2>1. PICK i \in 1 .. Len(s) : \A j \in 1 .. Len(s) : s[j] \in W => j = i
    BY <1>5 DEF Single
  <2>2. i = 1
    BY <1>3, <1>5, <2>1
  <2>3. QED
    BY <1>2, <2>1, <2>2 DEF Empty
<1>6. ASSUME Single(s, W), Head(s) \notin W PROVE Single(t, W)
  <2>1. PICK i \in 1 .. Len(s) : s[i] \in W /\ \A j \in 1 .. Len(s) : s[j] \in W => j = i
    BY <1>6 DEF Single
  <2>2. i # 1
    BY <1>3, <1>6, <2>1
  <2>3. i - 1 \in 1 .. Len(t) /\ t[i - 1] = s[i]
    <3>1. i - 1 \in 1 .. Len(t) /\ (i - 1) + 1 = i
      BY <1>1, <2>2
    <3>2. QED
      BY <1>1, <3>1
  <2>4. \A j \in 1 .. Len(t) : t[j] \in W => j = i - 1
    <3> SUFFICES ASSUME NEW j \in 1 .. Len(t), t[j] \in W PROVE j = i - 1
      OBVIOUS
    <3>1. j + 1 = i
      BY <1>2, <2>1
    <3>2. QED
      BY <3>1
  <2>5. QED
    BY <2>1, <2>3, <2>4 DEF Single
<1>7. QED
  BY <1>4, <1>5, <1>6 DEF t

-----------------------------------------------------------------------------
AnswersTo(id) == {m \in Messages : m.type = "answer" /\ m.n = id}

AskNone == Empty(toDaemon, {call.id})
AskOne == Single(toDaemon, {call.id})
OutNone == Empty(outbound, AnswersTo(call.id))
OutOne == Single(outbound, AnswersTo(call.id))
SockNone == Empty(Frames(toClient), AnswersTo(call.id))
SockOne == Single(Frames(toClient), AnswersTo(call.id))
ByServer == IsAnswer(server.answer)
ByReader == IsAnswer(reader.answer)
BySlot == IsAnswer(slot)

(* Where the answer to the call, or the question, is: on one of these stations. *)
OnWay ==
  \/ AskOne /\ ~ByServer /\ OutNone /\ SockNone /\ ~ByReader /\ ~BySlot
  \/ AskNone /\ ByServer /\ OutNone /\ SockNone /\ ~ByReader /\ ~BySlot
  \/ AskNone /\ ~ByServer /\ OutOne /\ SockNone /\ ~ByReader /\ ~BySlot
  \/ AskNone /\ ~ByServer /\ OutNone /\ SockOne /\ ~ByReader /\ ~BySlot
  \/ AskNone /\ ~ByServer /\ OutNone /\ SockNone /\ ByReader /\ ~BySlot
  \/ AskNone /\ ~ByServer /\ OutNone /\ SockNone /\ ~ByReader /\ BySlot

Standing == app = "waiting" /\ Following /\ ~cut /\ ~fatal /\ ~Abandoned

HandsSound ==
  /\ server.pc # "replying" => server.answer = NoMessage
  /\ reader.pc # "handing" => reader.answer = NoMessage
  /\ nextId >= 1 /\ (InCall => call.id >= 1)
  /\ app \in {"entered", "sending"} => slot = NoMessage
  /\ app \in {"entered", "sending"} /\ Following => pending = {call.id}

Tracked == Standing => OnWay /\ (pending = {call.id} \/ ByReader \/ BySlot)

AnswerInv == NoticeInv /\ HandsSound /\ Tracked

LEMMA InitAnswers == Init => AnswerInv
<1> SUFFICES ASSUME Init PROVE AnswerInv
  OBVIOUS
<1>1. NoticeInv
  BY InitNotices
<1>2. HandsSound /\ Tracked
  BY DEF Init, HandsSound, Tracked, Standing, InCall
<1>3. QED
  BY <1>1, <1>2 DEF AnswerInv

LEMMA Facts ==
  ASSUME AnswerInv
  PROVE  /\ toDaemon \in Seq(Nat) /\ outbound \in Seq(Messages) /\ toClient \in Seq(Pieces)
         /\ Frames(toClient) \in Seq(Messages)
         /\ server.answer \in Messages /\ reader.answer \in Messages /\ slot \in Messages
         /\ call.id \in Nat /\ pending \subseteq {call.id} /\ nextId \in Nat
         /\ reader.pc \in {"reading", "handing", "lost", "leaving", "clearing", "gone"}
         /\ server.pc \in {"reading", "replying", "gone"}
         /\ app \in {"ready", "numbered", "entered", "sending", "waiting", "shutting", "joining", "closed"}
BY Sane DEF AnswerInv, NoticeInv, ClientInv, ClientTyped, ReaderTyped, SocketTyped, DaemonTyped

-----------------------------------------------------------------------------
(* What the threads have in hand. *)

LEMMA HandsKept ==
  ASSUME AnswerInv, Next
  PROVE  HandsSound'
<1>0. HandsSound /\ ClientInv
  BY DEF AnswerInv, NoticeInv
<1> USE DEF HandsSound
<1>1. CASE Request \/ Close
  <2>1. UNCHANGED <<slot, pending, reader, server>> /\ app = "ready"
    BY <1>1 DEF Request, Close, Begin, readerVars, daemon
  <2>2. \/ app' = "shutting" /\ UNCHANGED <<call, nextId>>
        \/ app' = "numbered" /\ nextId' = nextId + 1 /\ call'.id = nextId
    BY <1>1 DEF Request, Close, Begin
  <2>3. nextId' >= 1 /\ (InCall' => call'.id >= 1)
    BY <1>0, <2>1, <2>2, Facts DEF InCall
  <2>4. QED
    BY <1>0, <2>1, <2>2, <2>3
<1>2. CASE Enter
  <2>1. pending \cup {call.id} = {call.id}
    BY Facts
  <2>2. QED
    BY <1>0, <1>2, <2>1 DEF Enter, InCall, readerVars, daemon
<1>3. CASE LookAgain \/ SendFails \/ Receive \/ Disconnected \/ Timeout
  BY <1>0, <1>3 DEF LookAgain, SendFails, Receive, Disconnected, Timeout, Return, Withdraw, InCall, readerVars,
                    daemon, Following
<1>4. CASE Sending \/ TakeNotice \/ Ending
  BY <1>0, <1>4 DEF Sending, Send, PublishInterest, TakeNotice, Ending, ShutSocket, Join, CloseAllStreams, Hang,
                    InCall, client, readerVars, daemon, Following
<1>5. CASE DispatchResponse
  <2>1. /\ reader.pc = "reading" /\ Whole /\ toClient[1].frame.type = "answer"
        /\ UNCHANGED <<app, call, nextId, slot, server>> /\ pending' = pending \ {toClient[1].frame.n}
        /\ \/ reader' = reader
           \/ reader' = [pc |-> "handing", answer |-> toClient[1].frame]
    BY <1>5 DEF DispatchResponse, Reader, daemon
  <2>2. app \in {"entered", "sending"} => toClient[1].frame.n # call.id
    <3>1. 1 \in 1 .. Len(toClient) /\ call.id \in Nat /\ toClient[1].frame.n \in Nat
      <4>1. Len(toClient) >= 2 /\ Len(toClient) \in Nat
        BY <2>1, Sane DEF Whole, AnswerInv
      <4>2. toClient[1].frame \in Messages
        BY <1>0, <4>1, FrontTyped DEF ClientInv
      <4>3. QED
        BY <4>1, <4>2, Facts DEF Messages
    <3>2. Asked(toClient[1].frame, Unsent)
      BY <1>0, <3>1 DEF ClientInv, AnswersAsked, AskedBelow
    <3>3. QED
      BY <2>1, <3>1, <3>2 DEF Asked, Unsent
  <2>3. QED
    BY <1>0, <2>1, <2>2, Facts DEF InCall, Following
<1>6. CASE HandOver
  BY <1>0, <1>6 DEF HandOver, Reader, InCall, Following, daemon
<1>7. CASE DispatchNotification \/ LoseTrack \/ ReadFails
  BY <1>0, <1>7 DEF DispatchNotification, LoseTrack, ReadFails, Reader, client, daemon, InCall, Following
<1>8. CASE ReaderGuardDrop
  BY <1>0, <1>8 DEF ReaderGuardDrop, Reader, client, daemon, InCall, Following
<1>9. CASE Serving \/ Writing
  BY <1>0, <1>9 DEF Serving, ServerReads, ServerReplies, ServerReadFails, QueueNotice, Server, Writing, WriteLength,
                    WritePayload, WriteFails, FatalBroadcast, client, readerVars, InCall, Following
<1>10. QED
  BY <1>1, <1>2, <1>3, <1>4, <1>5, <1>6, <1>7, <1>8, <1>9, NextSteps DEF Calling, Reading, ReaderSteps

-----------------------------------------------------------------------------
(* A call that stands after a step stood before it, unless the step sends it;    *)
(* few steps leave it standing.                                             *)
Moves ==
  \/ DispatchResponse \/ HandOver \/ DispatchNotification \/ ServerReads \/ ServerReplies
  \/ QueueNotice \/ WriteLength \/ WritePayload \/ Hang

LEMMA StillStanding ==
  ASSUME AnswerInv, Next, Standing'
  PROVE  Send \/ (Moves /\ Standing /\ UNCHANGED <<app, call>>)
<1>0. /\ app' = "waiting" /\ Following' /\ ~cut' /\ ~fatal' /\ server'.pc # "gone" /\ writer' # "gone"
      /\ call \in [id : Nat, large : BOOLEAN, closes : BOOLEAN]
  BY DEF Standing, Abandoned, AnswerInv, NoticeInv, ClientInv, ClientTyped
<1> USE DEF Moves, Standing, Abandoned, Following
<1>1. CASE Calling \/ PublishInterest \/ TakeNotice \/ ShutSocket \/ Join
  BY <1>0, <1>1 DEF Calling, Request, Close, Begin, Enter, LookAgain, SendFails, Receive, Disconnected, Timeout,
                    Return, PublishInterest, TakeNotice, ShutSocket, Join, client
<1>2. CASE CloseAllStreams \/ Hang
  BY <1>0, <1>2 DEF CloseAllStreams, Hang, client, readerVars
<1>3. CASE Reading
  BY <1>0, <1>3 DEF Reading, ReaderSteps, DispatchResponse, HandOver, DispatchNotification, LoseTrack,
                    ReaderGuardDrop, ReadFails, Reader, client, daemon
<1>4. CASE Serving
  BY <1>0, <1>4 DEF Serving, ServerReads, ServerReplies, ServerReadFails, QueueNotice, Server, client, readerVars
<1>5. CASE Writing
  BY <1>0, <1>5 DEF Writing, WriteLength, WritePayload, WriteFails, FatalBroadcast, client, readerVars
<1>6. QED
  BY <1>1, <1>2, <1>3, <1>4, <1>5, NextSteps DEF Sending, Ending

(* A call that is sent has a number no answer under way has. *)
LEMMA SendTracks ==
  ASSUME AnswerInv, Send, Following'
  PROVE  OnWay' /\ pending' = {call'.id}
<1>1. /\ app = "sending" /\ toDaemon' = Append(toDaemon, call.id) /\ Following
      /\ UNCHANGED <<call, pending, slot, reader, server, outbound, toClient>>
  BY DEF Send, readerVars, daemon, Following
<1>2. AskedBelow(call.id)
  BY <1>1 DEF AnswerInv, NoticeInv, ClientInv, AnswersAsked, Unsent
<1>3. slot = NoMessage /\ pending = {call.id}
  BY <1>1 DEF AnswerInv, HandsSound
<1>4. ~ByServer /\ ~ByReader /\ ~BySlot
  BY <1>2, <1>3, Facts DEF ByServer, ByReader, BySlot, IsAnswer, NoMessage, AskedBelow, Asked
<1>5. AskNone
  <2>1. \A i \in 1 .. Len(toDaemon) : toDaemon[i] < call.id
    BY <1>2 DEF AskedBelow
  <2>2. ~(call.id < call.id)
    BY Facts
  <2>3. QED
    BY <2>1, <2>2 DEF AskNone, Empty
<1>6. OutNone
  BY <1>2, Facts DEF OutNone, Empty, AnswersTo, AskedBelow, Asked
<1>7. SockNone
  <2> SUFFICES ASSUME NEW i \in 1 .. Len(Frames(toClient)) PROVE Frames(toClient)[i] \notin AnswersTo(call.id)
    BY DEF SockNone, Empty
  <2>1. i \in 1 .. Len(toClient) /\ Frames(toClient)[i] = FrameOf(toClient[i])
    BY FramesTyped, Facts
  <2>2. Asked(toClient[i].frame, call.id)
    BY <1>2, <2>1 DEF AskedBelow
  <2>3. QED
    BY <2>1, <2>2, Facts DEF FrameOf, NoMessage, AnswersTo, Asked
<1>8. AskOne'
  <2>1. Single(Append(toDaemon, call.id), {call.id})
    BY <1>5, Facts, HoldsAppend DEF AskNone
  <2>2. QED
    BY <1>1, <2>1 DEF AskOne
<1>9. OnWay'
  BY <1>1, <1>4, <1>6, <1>7, <1>8
     DEF OnWay, ByServer, ByReader, BySlot, IsAnswer, OutNone, SockNone
<1>10. QED
  BY <1>1, <1>3, <1>9

-----------------------------------------------------------------------------
(* The stations of the reader thread. *)

LEMMA DispatchTracks ==
  ASSUME AnswerInv, DispatchResponse, Standing, UNCHANGED call
  PROVE  OnWay' /\ (pending' = {call'.id} \/ ByReader' \/ BySlot')
<1> DEFINE frame == toClient[1].frame
           f == Frames(toClient)
           g == Tail(f)
<1>1. /\ reader.pc = "reading" /\ Whole /\ frame.type = "answer" /\ Next2
      /\ UNCHANGED <<slot, toDaemon, outbound, server>> /\ pending' = pending \ {frame.n}
      /\ frame.n \in pending => reader' = [pc |-> "handing", answer |-> frame]
      /\ frame.n \notin pending => UNCHANGED reader
  BY DEF DispatchResponse, Reader, daemon
<1>2. OnWay /\ (pending = {call.id} \/ ByReader \/ BySlot)
  BY DEF AnswerInv, Tracked
<1>3. ~ByReader
  BY <1>1 DEF AnswerInv, HandsSound, ByReader, IsAnswer, NoMessage
<1>4. frame \in Messages
  BY <1>1, FrontTyped DEF Whole, AnswerInv, NoticeInv, ClientInv
<1>5. /\ f \in Seq(Messages) /\ f # <<>> /\ Head(f) = FrameOf(toClient[1])
      /\ g \in Seq(Messages) /\ g # <<>> /\ Head(g) = FrameOf(toClient[2])
      /\ Frames(toClient') = Tail(g)
  BY <1>1, Facts, FramesFront DEF Next2, Whole
<1>6. Head(f) = NoMessage /\ Head(g) = frame
  <2>1. toClient[1].part # "payload"
    <3>1. 0 \in Nat /\ 2 * 0 + 1 = 1 /\ ~(0 >= 1)
      OBVIOUS
    <3>2. 1 <= Len(toClient)
      BY <1>1, Sane DEF Whole, AnswerInv
    <3>3. QED
      BY <1>1, <3>1, <3>2 DEF AnswerInv, NoticeInv, Lined, Following
  <2>2. QED
    BY <1>1, <1>5, <2>1 DEF FrameOf, Whole, Payload
<1>7. NoMessage \notin AnswersTo(call.id) /\ (frame \in AnswersTo(call.id) <=> frame.n = call.id)
  BY <1>1, <1>4 DEF AnswersTo, NoMessage
<1> HIDE DEF frame, f, g
<1>8. /\ SockNone => Empty(g, AnswersTo(call.id))
      /\ SockOne => Single(g, AnswersTo(call.id))
  BY <1>5, <1>6, <1>7, HoldsTail DEF SockNone, SockOne, f, g
<1>9. /\ Empty(g, AnswersTo(call.id)) =>
           Head(g) \notin AnswersTo(call.id) /\ Empty(Tail(g), AnswersTo(call.id))
      /\ Single(g, AnswersTo(call.id)) /\ Head(g) \in AnswersTo(call.id) =>
           Empty(Tail(g), AnswersTo(call.id))
      /\ Single(g, AnswersTo(call.id)) /\ Head(g) \notin AnswersTo(call.id) =>
           Single(Tail(g), AnswersTo(call.id))
  BY <1>5, HoldsTail
<1>10. CASE frame.n = call.id
  <2>1. ~SockNone
    BY <1>6, <1>7, <1>8, <1>10, <1>9
  <2>2. AskNone /\ ~ByServer /\ OutNone /\ SockOne /\ ~BySlot /\ pending = {call.id}
    BY <1>2, <1>3, <2>1 DEF OnWay
  <2>3. SockNone'
    <3>1. Empty(Tail(g), AnswersTo(call.id))
      BY <1>6, <1>7, <1>8, <1>10, <2>2, <1>9
    <3>2. QED
      BY <1>5, <3>1 DEF SockNone
  <2>4. ByReader'
    BY <1>1, <1>10, <2>2 DEF ByReader, IsAnswer
  <2>5. AskNone' /\ ~ByServer' /\ OutNone' /\ ~BySlot'
    BY <1>1, <2>2 DEF AskNone, ByServer, OutNone, BySlot, IsAnswer
  <2>6. QED
    BY <2>3, <2>4, <2>5 DEF OnWay
<1>11. CASE frame.n # call.id
  <2>1. (SockNone => SockNone') /\ (SockOne => SockOne')
    <3>1. /\ SockNone => Empty(Tail(g), AnswersTo(call.id))
          /\ SockOne => Single(Tail(g), AnswersTo(call.id))
      BY <1>6, <1>7, <1>8, <1>11, <1>9
    <3>2. QED
      BY <1>5, <3>1 DEF SockNone, SockOne
  <2>2. frame.n \notin pending /\ pending' = pending /\ UNCHANGED reader
    BY <1>1, <1>11, Facts
  <2>3. QED
    BY <1>1, <1>2, <2>1, <2>2
       DEF OnWay, AskNone, AskOne, OutNone, OutOne, ByServer, ByReader, BySlot, IsAnswer
<1>12. QED
  BY <1>10, <1>11

LEMMA HandOverTracks ==
  ASSUME AnswerInv, HandOver, Standing, UNCHANGED call
  PROVE  OnWay' /\ (pending' = {call'.id} \/ ByReader' \/ BySlot')
<1>1. /\ reader.pc = "handing" /\ app = "waiting"
      /\ slot' = IF call.id = reader.answer.n THEN reader.answer ELSE slot
      /\ reader'.answer = NoMessage
      /\ UNCHANGED <<pending, toDaemon, toClient, outbound, server>>
  BY DEF HandOver, Standing, Reader, daemon
<1>2. reader.answer.type = "answer"
  BY <1>1 DEF AnswerInv, NoticeInv, ClientInv, InMapWaits
<1>3. OnWay /\ (pending = {call.id} \/ ByReader \/ BySlot)
  BY DEF AnswerInv, Tracked
<1>4. ~ByReader' /\ (ByReader => BySlot') /\ (~ByReader => BySlot' = BySlot)
  BY <1>1, <1>2 DEF ByReader, BySlot, IsAnswer, NoMessage
<1>5. AskNone' = AskNone /\ AskOne' = AskOne /\ OutNone' = OutNone /\ OutOne' = OutOne
      /\ SockNone' = SockNone /\ SockOne' = SockOne /\ ByServer' = ByServer
  BY <1>1 DEF AskNone, AskOne, OutNone, OutOne, SockNone, SockOne, ByServer, IsAnswer
<1>6. OnWay'
  BY <1>3, <1>4, <1>5 DEF OnWay
<1>7. QED
  BY <1>1, <1>3, <1>4, <1>6

LEMMA NotificationTracks ==
  ASSUME AnswerInv, DispatchNotification, Standing, UNCHANGED call
  PROVE  OnWay' /\ (pending' = {call'.id} \/ ByReader' \/ BySlot')
<1> DEFINE f == Frames(toClient)
           g == Tail(f)
<1>1. /\ reader.pc = "reading" /\ Whole /\ toClient[1].frame.type # "answer" /\ Next2
      /\ UNCHANGED <<slot, pending, reader, toDaemon, outbound, server>>
  BY DEF DispatchNotification, client, daemon
<1>2. OnWay /\ (pending = {call.id} \/ ByReader \/ BySlot)
  BY DEF AnswerInv, Tracked
<1>3. /\ f \in Seq(Messages) /\ f # <<>> /\ Head(f) = FrameOf(toClient[1])
      /\ g \in Seq(Messages) /\ g # <<>> /\ Head(g) = FrameOf(toClient[2])
      /\ Frames(toClient') = Tail(g)
  BY <1>1, Facts, FramesFront DEF Next2, Whole
<1>4. Head(f) \notin AnswersTo(call.id) /\ Head(g) \notin AnswersTo(call.id)
  BY <1>1, <1>3 DEF FrameOf, Whole, Payload, AnswersTo, NoMessage
<1> HIDE DEF f, g
<1>5. (SockNone => SockNone') /\ (SockOne => SockOne')
  <2>1. /\ SockNone => Empty(g, AnswersTo(call.id))
        /\ SockOne => Single(g, AnswersTo(call.id))
    BY <1>3, <1>4, HoldsTail DEF SockNone, SockOne, f, g
  <2>2. /\ SockNone => Empty(Tail(g), AnswersTo(call.id))
        /\ SockOne => Single(Tail(g), AnswersTo(call.id))
    BY <1>3, <1>4, <2>1, HoldsTail
  <2>3. QED
    BY <1>3, <2>2 DEF SockNone, SockOne
<1>6. QED
  BY <1>1, <1>2, <1>5
     DEF OnWay, AskNone, AskOne, OutNone, OutOne, ByServer, ByReader, BySlot, IsAnswer

-----------------------------------------------------------------------------
(* The stations in the daemon. *)

LEMMA ReadTracks ==
  ASSUME AnswerInv, ServerReads, Standing, UNCHANGED call
  PROVE  OnWay' /\ (pending' = {call'.id} \/ ByReader' \/ BySlot')
<1> DEFINE h == Head(toDaemon)
           t == Tail(toDaemon)
           W == {call.id}
<1>1. /\ server.pc = "reading" /\ toDaemon # <<>> /\ toDaemon' = t
      /\ UNCHANGED <<slot, pending, reader, toClient, outbound>>
      /\ h = 0 => UNCHANGED server
      /\ h # 0 => \E o \in Outcomes : server'.answer = Answer(h, o)
  BY DEF ServerReads, Server, client, readerVars
<1>2. OnWay /\ (pending = {call.id} \/ ByReader \/ BySlot)
  BY DEF AnswerInv, Tracked
<1>3. ~ByServer
  BY <1>1 DEF AnswerInv, HandsSound, ByServer, IsAnswer, NoMessage
<1>4. 0 # call.id
  BY DEF AnswerInv, HandsSound, InCall, Standing
<1>5. ByServer' <=> h = call.id
  <2>1. CASE h = 0
    BY <1>1, <1>3, <1>4, <2>1 DEF ByServer, IsAnswer
  <2>2. CASE h # 0
    <3>1. PICK o \in Outcomes : server'.answer = Answer(h, o)
      BY <1>1, <2>2
    <3>2. Answer(h, o).type = "answer" /\ Answer(h, o).n = h
      BY DEF Answer
    <3>3. QED
      BY <3>1, <3>2 DEF ByServer, IsAnswer
  <2>3. QED
    BY <2>1, <2>2
<1>6. h \in W <=> h = call.id
  OBVIOUS
<1>7. toDaemon \in Seq(Nat) /\ toDaemon # <<>>
  BY <1>1, Facts
<1> HIDE DEF h, W, t
<1>8. /\ Empty(toDaemon, W) => h \notin W /\ Empty(t, W)
      /\ Single(toDaemon, W) /\ h \in W => Empty(t, W)
      /\ Single(toDaemon, W) /\ h \notin W => Single(t, W)
  BY <1>7, HoldsTail DEF h, t
<1>9. /\ AskNone => ~ByServer' /\ AskNone'
      /\ AskOne => (ByServer' /\ AskNone') \/ (~ByServer' /\ AskOne')
  BY <1>1, <1>5, <1>6, <1>8 DEF AskNone, AskOne, W
<1>10. SockNone' = SockNone /\ SockOne' = SockOne /\ OutNone' = OutNone /\ OutOne' = OutOne
       /\ ByReader' = ByReader /\ BySlot' = BySlot
  BY <1>1 DEF SockNone, SockOne, OutNone, OutOne, ByReader, BySlot, IsAnswer
<1>11. OnWay'
  BY <1>2, <1>3, <1>9, <1>10 DEF OnWay
<1>12. QED
  BY <1>1, <1>2, <1>10, <1>11

(* A frame goes to the end of the writer's queue. *)
LEMMA QueueHolds ==
  ASSUME AnswerInv, NEW m \in Messages, outbound' = Append(outbound, m), UNCHANGED call
  PROVE  /\ ~IsAnswer(m) => (OutNone => OutNone') /\ (OutOne => OutOne')
         /\ IsAnswer(m) /\ OutNone => OutOne'
<1> DEFINE W == AnswersTo(call.id)
<1>1. m \in W <=> IsAnswer(m)
  BY DEF AnswersTo, IsAnswer
<1> HIDE DEF W
<1>2. /\ m \notin W => /\ Empty(outbound, W) => Empty(Append(outbound, m), W)
                       /\ Single(outbound, W) => Single(Append(outbound, m), W)
      /\ m \in W /\ Empty(outbound, W) => Single(Append(outbound, m), W)
  BY Facts, HoldsAppend
<1>3. QED
  BY <1>1, <1>2 DEF OutNone, OutOne, W

LEMMA ReplyTracks ==
  ASSUME AnswerInv, ServerReplies, Standing, UNCHANGED call
  PROVE  OnWay' /\ (pending' = {call'.id} \/ ByReader' \/ BySlot')
<1>1. /\ outbound' = Append(outbound, server.answer) /\ server'.answer = NoMessage
      /\ UNCHANGED <<slot, pending, reader, toClient, toDaemon>>
  BY DEF ServerReplies, Server, client, readerVars, Standing, Abandoned
<1>2. OnWay /\ (pending = {call.id} \/ ByReader \/ BySlot)
  BY DEF AnswerInv, Tracked
<1>3. ~ByServer'
  BY <1>1 DEF ByServer, IsAnswer, NoMessage
<1>4. /\ ~ByServer => (OutNone => OutNone') /\ (OutOne => OutOne')
      /\ ByServer /\ OutNone => OutOne'
  BY <1>1, Facts, QueueHolds DEF ByServer
<1>5. SockNone' = SockNone /\ SockOne' = SockOne /\ AskNone' = AskNone /\ AskOne' = AskOne
      /\ ByReader' = ByReader /\ BySlot' = BySlot
  BY <1>1 DEF SockNone, SockOne, AskNone, AskOne, ByReader, BySlot, IsAnswer
<1>6. OnWay'
  BY <1>2, <1>3, <1>4, <1>5 DEF OnWay
<1>7. QED
  BY <1>1, <1>2, <1>5, <1>6

LEMMA QueueNoticeTracks ==
  ASSUME AnswerInv, QueueNotice, Standing, UNCHANGED call
  PROVE  OnWay' /\ (pending' = {call'.id} \/ ByReader' \/ BySlot')
<1>1. /\ outbound' = Append(outbound, Notice(notices + 1))
      /\ UNCHANGED <<slot, pending, reader, toClient, toDaemon, server>>
  BY DEF QueueNotice, client, readerVars
<1>2. OnWay /\ (pending = {call.id} \/ ByReader \/ BySlot)
  BY DEF AnswerInv, Tracked
<1>3. Notice(notices + 1) \in Messages /\ ~IsAnswer(Notice(notices + 1))
  <2>1. notices + 1 \in Nat
    BY Sane DEF AnswerInv
  <2>2. QED
    BY <2>1, MessagesTyped DEF IsAnswer, Notice
<1>4. (OutNone => OutNone') /\ (OutOne => OutOne')
  BY <1>1, <1>3, QueueHolds
<1>5. SockNone' = SockNone /\ SockOne' = SockOne /\ AskNone' = AskNone /\ AskOne' = AskOne
      /\ ByReader' = ByReader /\ BySlot' = BySlot /\ ByServer' = ByServer
  BY <1>1 DEF SockNone, SockOne, AskNone, AskOne, ByReader, BySlot, ByServer, IsAnswer
<1>6. OnWay'
  BY <1>2, <1>4, <1>5 DEF OnWay
<1>7. QED
  BY <1>1, <1>2, <1>5, <1>6

LEMMA WriteLengthTracks ==
  ASSUME AnswerInv, WriteLength, Standing, UNCHANGED call
  PROVE  OnWay' /\ (pending' = {call'.id} \/ ByReader' \/ BySlot')
<1>1. /\ outbound # <<>> /\ toClient' = Append(toClient, LengthOf(Head(outbound)))
      /\ UNCHANGED <<slot, pending, reader, outbound, toDaemon, server>>
  BY DEF WriteLength, client, readerVars
<1>2. OnWay /\ (pending = {call.id} \/ ByReader \/ BySlot)
  BY DEF AnswerInv, Tracked
<1>3. Frames(toClient') = Append(Frames(toClient), NoMessage)
  <2>1. Head(outbound) \in Messages
    BY <1>1, Facts
  <2>2. LengthOf(Head(outbound)) \in Pieces /\ FrameOf(LengthOf(Head(outbound))) = NoMessage
    BY <2>1, MessagesTyped DEF LengthOf, FrameOf
  <2>3. QED
    BY <1>1, <2>2, FramesAppend, Facts
<1>4. (SockNone => SockNone') /\ (SockOne => SockOne')
  <2> DEFINE W == AnswersTo(call.id)
             f == Frames(toClient)
  <2>1. NoMessage \in Messages /\ NoMessage \notin W
    BY MessagesTyped DEF AnswersTo, NoMessage
  <2>2. f \in Seq(Messages)
    BY Facts
  <2> HIDE DEF W, f
  <2>3. /\ Empty(f, W) => Empty(Append(f, NoMessage), W)
        /\ Single(f, W) => Single(Append(f, NoMessage), W)
    BY <2>1, <2>2, HoldsAppend
  <2>4. QED
    BY <1>3, <2>3 DEF SockNone, SockOne, W, f
<1>5. OutNone' = OutNone /\ OutOne' = OutOne /\ AskNone' = AskNone /\ AskOne' = AskOne
      /\ ByReader' = ByReader /\ BySlot' = BySlot /\ ByServer' = ByServer
  BY <1>1 DEF OutNone, OutOne, AskNone, AskOne, ByReader, BySlot, ByServer, IsAnswer
<1>6. OnWay'
  BY <1>2, <1>4, <1>5 DEF OnWay
<1>7. QED
  BY <1>1, <1>2, <1>5, <1>6

LEMMA WritePayloadTracks ==
  ASSUME AnswerInv, WritePayload, Standing, UNCHANGED call
  PROVE  OnWay' /\ (pending' = {call'.id} \/ ByReader' \/ BySlot')
<1> DEFINE h == Head(outbound)
           t == Tail(outbound)
           W == AnswersTo(call.id)
           f == Frames(toClient)
<1>1. /\ outbound # <<>> /\ toClient' = Append(toClient, Payload(h)) /\ outbound' = t
      /\ UNCHANGED <<slot, pending, reader, toDaemon, server>>
  BY Sane DEF WritePayload, client, readerVars, AnswerInv
<1>2. OnWay /\ (pending = {call.id} \/ ByReader \/ BySlot)
  BY DEF AnswerInv, Tracked
<1>3. h \in Messages
  BY <1>1, Facts
<1>4. Frames(toClient') = Append(f, h)
  <2>1. Payload(h) \in Pieces /\ FrameOf(Payload(h)) = h
    BY <1>3, MessagesTyped DEF Payload, FrameOf
  <2>2. QED
    BY <1>1, <2>1, FramesAppend, Facts
<1>5. outbound \in Seq(Messages) /\ outbound # <<>> /\ f \in Seq(Messages)
  BY <1>1, Facts
<1> HIDE DEF h, t, W, f
<1>6. /\ Empty(outbound, W) => h \notin W /\ Empty(t, W)
      /\ Single(outbound, W) /\ h \in W => Empty(t, W)
      /\ Single(outbound, W) /\ h \notin W => Single(t, W)
  BY <1>5, HoldsTail DEF h, t
<1>7. /\ h \notin W => (Empty(f, W) => Empty(Append(f, h), W)) /\ (Single(f, W) => Single(Append(f, h), W))
      /\ h \in W /\ Empty(f, W) => Single(Append(f, h), W)
  BY <1>3, <1>5, HoldsAppend
<1>8. /\ OutNone <=> Empty(outbound, W)
      /\ OutOne <=> Single(outbound, W)
      /\ OutNone' <=> Empty(t, W)
      /\ OutOne' <=> Single(t, W)
      /\ SockNone <=> Empty(f, W)
      /\ SockOne <=> Single(f, W)
      /\ SockNone' <=> Empty(Append(f, h), W)
      /\ SockOne' <=> Single(Append(f, h), W)
  BY <1>1, <1>4 DEF OutNone, OutOne, SockNone, SockOne, W, f
<1>9. AskNone' = AskNone /\ AskOne' = AskOne
      /\ ByReader' = ByReader /\ BySlot' = BySlot /\ ByServer' = ByServer
  BY <1>1 DEF AskNone, AskOne, ByReader, BySlot, ByServer, IsAnswer
<1>10. OnWay'
  BY <1>2, <1>6, <1>7, <1>8, <1>9 DEF OnWay
<1>11. QED
  BY <1>1, <1>2, <1>9, <1>10

LEMMA HangTracks ==
  ASSUME AnswerInv, Hang \/ UNCHANGED vars, Standing, UNCHANGED call
  PROVE  OnWay' /\ (pending' = {call'.id} \/ ByReader' \/ BySlot')
<1>1. UNCHANGED <<slot, pending, reader, toClient, toDaemon, server, outbound>>
  BY DEF Hang, vars, client, readerVars, daemon
<1>2. OnWay /\ (pending = {call.id} \/ ByReader \/ BySlot)
  BY DEF AnswerInv, Tracked
<1>3. QED
  BY <1>1, <1>2
     DEF OnWay, AskNone, AskOne, OutNone, OutOne, SockNone, SockOne, ByServer, ByReader, BySlot, IsAnswer

-----------------------------------------------------------------------------
LEMMA AnswerStep == AnswerInv /\ [Next]_vars => AnswerInv'
<1> SUFFICES ASSUME AnswerInv, [Next]_vars PROVE AnswerInv'
  OBVIOUS
<1>1. NoticeInv'
  BY NoticeStep DEF AnswerInv
<1>2. CASE Next
  <2>1. HandsSound'
    BY <1>2, HandsKept
  <2>2. ASSUME Standing'
        PROVE  OnWay' /\ (pending' = {call'.id} \/ ByReader' \/ BySlot')
    <3>1. CASE Send
      BY <2>2, <3>1, SendTracks DEF Standing
    <3>2. CASE Moves /\ Standing /\ UNCHANGED <<app, call>>
      BY <3>2, DispatchTracks, HandOverTracks, NotificationTracks, ReadTracks, ReplyTracks,
         QueueNoticeTracks, WriteLengthTracks, WritePayloadTracks, HangTracks DEF Moves
    <3>3. QED
      BY <1>2, <2>2, <3>1, <3>2, StillStanding
  <2>3. QED
    BY <1>1, <2>1, <2>2 DEF AnswerInv, Tracked
<1>3. CASE UNCHANGED vars
  <2>1. UNCHANGED <<app, call, nextId, pending, slot, reader, server, cut, fatal, writer>>
    BY <1>3 DEF vars, client, readerVars, daemon
  <2>2. HandsSound' /\ (Standing' => Standing)
    BY <2>1 DEF AnswerInv, HandsSound, Standing, Following, Abandoned, InCall
  <2>3. Tracked'
    BY <1>3, <2>1, <2>2, HangTracks DEF Tracked
  <2>4. QED
    BY <1>1, <2>2, <2>3 DEF AnswerInv
<1>4. QED
  BY <1>2, <1>3

LEMMA AlwaysAnswered == Spec => []AnswerInv
BY InitAnswers, AnswerStep, PTL DEF Spec

(* The places of the answer, from the stations. *)
AskAt == {i \in DOMAIN toDaemon : toDaemon[i] = call.id}
OutAt == {i \in DOMAIN outbound : IsAnswer(outbound[i])}
SockAt == {i \in DOMAIN toClient : toClient[i].part = "payload" /\ IsAnswer(toClient[i].frame)}
HandsAt == {hand \in DOMAIN InHand : IsAnswer(InHand[hand])}

LEMMA PlacesFound ==
  ASSUME AnswerInv
  PROVE  /\ AskNone => AskAt = {}
         /\ AskOne => \E i : AskAt = {i}
         /\ OutNone => OutAt = {}
         /\ OutOne => \E i : OutAt = {i}
         /\ SockNone => SockAt = {}
         /\ SockOne => \E i : SockAt = {i}
         /\ HandsAt = {hand \in {"server", "reader", "slot"} :
                         \/ hand = "server" /\ ByServer
                         \/ hand = "reader" /\ ByReader
                         \/ hand = "slot" /\ BySlot}
<1>1. ASSUME NEW S, NEW s \in Seq(S), NEW W, NEW T, T = {i \in DOMAIN s : s[i] \in W}
      PROVE  (Empty(s, W) => T = {}) /\ (Single(s, W) => \E i : T = {i})
  <2>1. DOMAIN s = 1 .. Len(s)
    BY LenProperties
  <2>2. Empty(s, W) => T = {}
    BY <1>1, <2>1 DEF Empty
  <2>3. ASSUME Single(s, W) PROVE \E i : T = {i}
    <3>1. PICK i \in 1 .. Len(s) : s[i] \in W /\ \A j \in 1 .. Len(s) : s[j] \in W => j = i
      BY <2>3 DEF Single
    <3>2. T = {i}
      BY <1>1, <2>1, <3>1
    <3>3. QED
      BY <3>2
  <2>4. QED
    BY <2>2, <2>3
<1>2. AskAt = {i \in DOMAIN toDaemon : toDaemon[i] \in {call.id}}
  BY DEF AskAt
<1>3. OutAt = {i \in DOMAIN outbound : outbound[i] \in AnswersTo(call.id)}
  <2>1. \A i \in DOMAIN outbound : outbound[i] \in Messages
    BY Facts, LenProperties, ElementOfSeq
  <2>2. QED
    BY <2>1 DEF OutAt, AnswersTo, IsAnswer
<1>4. SockAt = {i \in DOMAIN Frames(toClient) : Frames(toClient)[i] \in AnswersTo(call.id)}
  <2>1. /\ DOMAIN Frames(toClient) = 1 .. Len(toClient) /\ DOMAIN toClient = 1 .. Len(toClient)
        /\ \A i \in 1 .. Len(toClient) : Frames(toClient)[i] = FrameOf(toClient[i]) /\ FrameOf(toClient[i]) \in Messages
    BY Facts, FramesTyped, LenProperties
  <2>2. \A i \in 1 .. Len(toClient) :
          FrameOf(toClient[i]) \in AnswersTo(call.id)
            <=> toClient[i].part = "payload" /\ IsAnswer(toClient[i].frame)
    BY <2>1 DEF FrameOf, AnswersTo, IsAnswer, NoMessage
  <2>3. QED
    BY <2>1, <2>2 DEF SockAt
<1>5. HandsAt = {hand \in {"server", "reader", "slot"} :
                         \/ hand = "server" /\ ByServer
                         \/ hand = "reader" /\ ByReader
                         \/ hand = "slot" /\ BySlot}
  <2>1. DOMAIN InHand = {"server", "reader", "slot"} /\ InHand["server"] = server.answer
        /\ InHand["reader"] = reader.answer /\ InHand["slot"] = slot
    BY DEF InHand
  <2>2. QED
    BY <2>1 DEF HandsAt, ByServer, ByReader, BySlot
<1>6. AskNone => AskAt = {}
  BY <1>1, <1>2, Facts DEF AskNone
<1>7. AskOne => \E i : AskAt = {i}
  BY <1>1, <1>2, Facts DEF AskOne
<1>8. OutNone => OutAt = {}
  BY <1>1, <1>3, Facts DEF OutNone
<1>9. OutOne => \E i : OutAt = {i}
  BY <1>1, <1>3, Facts DEF OutOne
<1>10. SockNone => SockAt = {}
  BY <1>1, <1>4, Facts DEF SockNone
<1>11. SockOne => \E i : SockAt = {i}
  BY <1>1, <1>4, Facts DEF SockOne
<1>12. QED
  BY <1>5, <1>6, <1>7, <1>8, <1>9, <1>10, <1>11

(* The answer a call waits for is neither lost nor doubled: as long as the        *)
(* connection stands and its frames are whole, the question or its answer is at   *)
(* exactly one place between the call and its handler.                        *)
THEOREM AnswerInOnePlace == Spec => []OneAnswer
<1>1. AnswerInv => OneAnswer
  <2> SUFFICES ASSUME AnswerInv, Standing PROVE \E place \in Places : Places = {place}
    BY DEF OneAnswer, Standing, Following
  <2>1. OnWay
    BY DEF AnswerInv, Tracked
  <2>2. Places = ({"toDaemon"} \X AskAt) \cup ({"outbound"} \X OutAt) \cup ({"toClient"} \X SockAt)
                   \cup (HandsAt \X {1})
    BY DEF Places, AskAt, OutAt, SockAt, HandsAt
  <2>3. \A x, i : {x} \X {} = {} /\ {} \X {x} = {} /\ {x} \X {i} = {<<x, i>>}
    OBVIOUS
  <2>4. \E place : Places = {place}
    <3>1. CASE AskOne /\ ~ByServer /\ OutNone /\ SockNone /\ ~ByReader /\ ~BySlot
      <4>1. OutAt = {} /\ SockAt = {} /\ HandsAt = {} /\ \E i : AskAt = {i}
        BY <3>1, PlacesFound
      <4>2. PICK i : AskAt = {i}
        BY <4>1
      <4>3. Places = {<<"toDaemon", i>>}
        BY <2>2, <2>3, <4>1, <4>2
      <4>4. QED
        BY <4>3
    <3>2. CASE AskNone /\ ByServer /\ OutNone /\ SockNone /\ ~ByReader /\ ~BySlot
      <4>1. AskAt = {} /\ OutAt = {} /\ SockAt = {} /\ HandsAt = {"server"}
        BY <3>2, PlacesFound
      <4>2. Places = {<<"server", 1>>}
        BY <2>2, <2>3, <4>1
      <4>3. QED
        BY <4>2
    <3>3. CASE AskNone /\ ~ByServer /\ OutOne /\ SockNone /\ ~ByReader /\ ~BySlot
      <4>1. AskAt = {} /\ SockAt = {} /\ HandsAt = {} /\ \E i : OutAt = {i}
        BY <3>3, PlacesFound
      <4>2. PICK i : OutAt = {i}
        BY <4>1
      <4>3. Places = {<<"outbound", i>>}
        BY <2>2, <2>3, <4>1, <4>2
      <4>4. QED
        BY <4>3
    <3>4. CASE AskNone /\ ~ByServer /\ OutNone /\ SockOne /\ ~ByReader /\ ~BySlot
      <4>1. AskAt = {} /\ OutAt = {} /\ HandsAt = {} /\ \E i : SockAt = {i}
        BY <3>4, PlacesFound
      <4>2. PICK i : SockAt = {i}
        BY <4>1
      <4>3. Places = {<<"toClient", i>>}
        BY <2>2, <2>3, <4>1, <4>2
      <4>4. QED
        BY <4>3
    <3>5. CASE AskNone /\ ~ByServer /\ OutNone /\ SockNone /\ ByReader /\ ~BySlot
      <4>1. AskAt = {} /\ OutAt = {} /\ SockAt = {} /\ HandsAt = {"reader"}
        BY <3>5, PlacesFound
      <4>2. Places = {<<"reader", 1>>}
        BY <2>2, <2>3, <4>1
      <4>3. QED
        BY <4>2
    <3>6. CASE AskNone /\ ~ByServer /\ OutNone /\ SockNone /\ ~ByReader /\ BySlot
      <4>1. AskAt = {} /\ OutAt = {} /\ SockAt = {} /\ HandsAt = {"slot"}
        BY <3>6, PlacesFound
      <4>2. Places = {<<"slot", 1>>}
        BY <2>2, <2>3, <4>1
      <4>3. QED
        BY <4>2
    <3>7. QED
      BY <2>1, <3>1, <3>2, <3>3, <3>4, <3>5, <3>6 DEF OnWay
  <2>5. QED
    BY <2>4
<1>2. QED
  BY <1>1, AlwaysAnswered, PTL
=============================================================================
