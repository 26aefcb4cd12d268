---------------------------- MODULE ShutdownProofs ----------------------------
(* Theorems about Shutdown, for any number of clients, queue depth and idle    *)
(* timeout.                                                                 *)
EXTENDS Shutdown, TLAPS

-----------------------------------------------------------------------------
(* The invariant.                                                           *)

(* A thread that is about to queue an answer has one; a thread that joins the *)
(* state thread waits until it has ended.                                    *)
Answering ==
  /\ \A c \in Conns : conn[c].pc \in {"replying", "last_reply"} => conn[c].reply \in {"ok", "bye"}
  /\ monitor # "waiting" => ~Running

(* Whoever is registered has a thread that will unregister it.               *)
Represented ==
  /\ Running => \A c \in roster : Serving(c)
  /\ EmptiedTracksRoster
  /\ RosterEmptyAtReturn

(* A client that has received t notifications and has the queue s before it.  *)
Clear(s) == \A n \in 1 .. Len(s) : s[n] # "notice"
Single(s) == \A m, n \in 1 .. Len(s) : s[m] = "notice" /\ s[n] = "notice" => m = n
Fine(t, s) == t <= 1 /\ Single(s) /\ (t = 1 => Clear(s))

(* Nobody is notified before the flag is up, and nobody but the monitor that   *)
(* raised it notifies as long as it does.                                    *)
Unnotified(c) == told[c] = 0 /\ Clear(outbound[c])

NoticesSound ==
  /\ \A c \in Conns : Fine(told[c], outbound[c])
  /\ ~flag => \A c \in Conns : Unnotified(c)
  /\ monitor \in {"locking", "writing", "closing", "waking"} => flag
  /\ monitor = "locking" => \A c \in Conns : Unnotified(c)
  /\ monitor = "writing" =>
       \A c \in Conns : Clear(outbound[c]) /\ (c \in toTell => told[c] = 0)

(* A connection that is served can be reached by the closer until it has been *)
(* through, unless the listener still has it in hand.                        *)
Reached ==
  /\ closer # "none" => flag
  /\ \A c \in Conns : Serving(c) => cut[c] \/ c \in streams
  /\ Prompt /\ closer \in {"waking", "done"} =>
       listener.pc # "checked" /\ \A c \in Conns : Serving(c) => cut[c]

(* The types, in parts that steps disturb one at a time.                     *)
ThreadsTyped ==
  /\ flag \in BOOLEAN /\ streams \subseteq Conns
  /\ listener \in [pc : {"binding", "accepting", "checked", "done"}, holds : Conns \cup {None}]
  /\ listener.pc = "checked" => listener.holds \in Conns
  /\ wake \in BOOLEAN
  /\ closer \in {"none", "sleeping", "waking", "done"}
  /\ stateThread \in {"running", "panicked", "returned"}
  /\ monitor \in {"waiting", "locking", "writing", "closing", "waking", "done"}
  /\ toTell \subseteq Conns
  /\ signal \in {"waiting", "done"} /\ exited \in BOOLEAN

RosterTyped ==
  /\ roster \subseteq Conns
  /\ emptiedFor \in 0 .. IdleTicks + 1 \cup {None}
  /\ silentFor \in 0 .. IdleTicks

Pcs == {"none", "backlog", "accepted", "reading", "replying", "last_reply", "leaving", "done"}

ConnsTyped ==
  conn \in [Conns -> [pc : Pcs, reply : {"ok", "bye", None}, ever : BOOLEAN]]

QueuesTyped ==
  /\ outbound \in [Conns -> Seq(Words)]
  /\ \A c \in Conns : Len(outbound[c]) <= Depth

SocketsTyped ==
  /\ sinkOpen \in [Conns -> BOOLEAN]
  /\ cut \in [Conns -> BOOLEAN] /\ gone \in [Conns -> BOOLEAN]
  /\ told \in [Conns -> Nat]
  /\ missed \subseteq Conns /\ late \subseteq Conns /\ refused \in BOOLEAN

LEMMA TypeParts ==
  TypeOK <=> ThreadsTyped /\ RosterTyped /\ ConnsTyped /\ QueuesTyped /\ SocketsTyped
BY DEF TypeOK, ThreadsTyped, RosterTyped, ConnsTyped, Pcs, QueuesTyped, SocketsTyped

(* A connection comes into the roster after it has come to be listed.         *)
Arrived ==
  /\ \A c \in roster : Serving(c) \/ conn[c].pc = "done"
  /\ \A c \in roster : cut[c] \/ c \in streams
  /\ listener.pc = "checked" => conn[listener.holds].pc = "accepted"

(* Nothing is closed before those who are there have been told, or are the     *)
(* monitor's to tell.                                                       *)
Informed(c) == told[c] = 1 \/ ~Clear(outbound[c])

Duty ==
  /\ ~flag \/ monitor \in {"locking", "writing"} => closer = "none" /\ \A c \in Conns : ~cut[c]
  /\ flag /\ monitor # "locking" =>
       \A c \in roster \ (missed \cup late) :
         sinkOpen[c] => Informed(c) \/ (monitor = "writing" /\ c \in toTell)

ShutdownInv ==
  TypeOK /\ Answering /\ Represented /\ NoticesSound /\ Reached /\ Arrived /\ Duty

LEMMA InitSound == Init => ShutdownInv
<1> SUFFICES ASSUME Init PROVE ShutdownInv
  OBVIOUS
<1>1. TypeOK
  <2>1. ThreadsTyped
    BY ConstantsAssumption DEF Init, ThreadsTyped
  <2>5. RosterTyped
    BY ConstantsAssumption DEF Init, RosterTyped
  <2>2. ConnsTyped
    BY DEF Init, ConnsTyped, Pcs
  <2>3. QueuesTyped
    <3>1. <<>> \in Seq(Words) /\ Len(<<>>) = 0 /\ 0 <= Depth
      BY ConstantsAssumption
    <3>2. QED
      BY <3>1 DEF Init, QueuesTyped
  <2>6. SocketsTyped
    BY DEF Init, SocketsTyped
  <2>4. QED
    BY <2>1, <2>2, <2>3, <2>5, <2>6, TypeParts
<1>2. Answering /\ Represented
  BY ConstantsAssumption
     DEF Init, Answering, Represented, EmptiedTracksRoster, RosterEmptyAtReturn, Running
<1>3. NoticesSound /\ Reached
  BY DEF Init, NoticesSound, Unnotified, Fine, Single, Clear, Reached, Serving
<1>4. Arrived /\ Duty
  BY DEF Init, Arrived, Duty
<1>5. QED
  BY <1>1, <1>2, <1>3, <1>4 DEF ShutdownInv

-----------------------------------------------------------------------------
(* The steps, by what they change.                                          *)

(* A request: a client's thread, the roster and the clock.                   *)
Requesting(c) ==
  Register(c) \/ RegisterMismatch(c) \/ Unregister(c) \/ Request(c) \/ Refuse(c)
  \/ HandlerPanics(c)

(* What begins a shutdown.                                                  *)
Initiating == Signal \/ RecvTimesOut \/ \E c \in Conns : AskShutdown(c)

(* A queue, and the thread that waits for room in it.                        *)
Queueing(c) == PushReply(c) \/ WriterSends(c) \/ WriterFails(c) \/ WriterEnds(c)

(* A connection that comes, or goes.                                        *)
Moving(c) == ReaderBreaks(c) \/ Leave(c) \/ Connect(c) \/ ClientGoes(c)

(* Nothing but the clock and the threads of the daemon itself.               *)
Housekeeping ==
  SignalCloses \/ Tick \/ StatePanics \/ StateReturns \/ Exit \/ CloserWakes
  \/ Bind \/ AcceptWake \/ MonitorJoins \/ MonitorLocks \/ MonitorUnlocks \/ MonitorWakes

(* Sockets are shut down.                                                   *)
Closing == CloserCloses \/ MonitorCloses

Handing == RegisterStream \/ \E c \in Conns : Accept(c)

LEMMA NextSteps ==
  ASSUME Next
  PROVE  \/ \E c \in Conns : Requesting(c) \/ Queueing(c) \/ Moving(c) \/ MonitorWrites(c)
         \/ Initiating \/ Housekeeping \/ Closing \/ Handing
BY DEF Next, Connection, Listener, Closer, Monitor, Requesting, Initiating, Queueing, Moving,
       Housekeeping, Closing, Handing

(* InitiateShutdown appends at most one notification to each queue, and none   *)
(* if the flag is up.                                                       *)
LEMMA InitiateEffect ==
  ASSUME ShutdownInv, InitiateShutdown
  PROVE  /\ flag' = TRUE
         /\ flag => UNCHANGED <<outbound, missed, closer>>
         /\ ~flag => closer' = "sleeping"
         /\ outbound' \in [Conns -> Seq(Words)]
         /\ missed' \subseteq Conns
         /\ closer' \in {"none", "sleeping", "waking", "done"}
         /\ \A c \in Conns :
              /\ Len(outbound'[c]) <= Depth
              /\ \/ outbound'[c] = outbound[c]
                 \/ ~flag /\ outbound'[c] = Append(outbound[c], "notice")
<1> DEFINE room == {c \in roster : sinkOpen[c] /\ Len(outbound[c]) < Depth}
<1>1. QueuesTyped /\ missed \subseteq Conns /\ roster \subseteq Conns
      /\ closer \in {"none", "sleeping", "waking", "done"}
  BY TypeParts DEF ShutdownInv, SocketsTyped, RosterTyped, ThreadsTyped
<1>2. CASE flag
  BY <1>1, <1>2 DEF InitiateShutdown, QueuesTyped, ShutdownInv, TypeOK
<1>3. CASE ~flag
  <2>1. /\ flag' = TRUE /\ closer' = "sleeping" /\ missed' = missed \cup (roster \ room)
        /\ outbound' = [c \in Conns |-> IF c \in room THEN Append(outbound[c], "notice")
                                                      ELSE outbound[c]]
    BY <1>3 DEF InitiateShutdown
  <2>2. "notice" \in Words
    BY DEF Words
  <2>3. \A c \in room : /\ Append(outbound[c], "notice") \in Seq(Words)
                        /\ Len(Append(outbound[c], "notice")) <= Depth
    <3> SUFFICES ASSUME NEW c \in room
                 PROVE  /\ Append(outbound[c], "notice") \in Seq(Words)
                        /\ Len(Append(outbound[c], "notice")) <= Depth
      OBVIOUS
    <3>1. outbound[c] \in Seq(Words) /\ Len(outbound[c]) < Depth /\ Len(outbound[c]) \in Nat
      BY <1>1 DEF QueuesTyped
    <3> HIDE DEF room
    <3>2. QED
      BY <2>2, <3>1, ConstantsAssumption
  <2>4. \A c \in Conns :
          /\ outbound'[c] \in Seq(Words) /\ Len(outbound'[c]) <= Depth
          /\ outbound'[c] = outbound[c] \/ outbound'[c] = Append(outbound[c], "notice")
    BY <1>1, <2>1, <2>3 DEF QueuesTyped
  <2>5. QED
    BY <1>1, <1>3, <2>1, <2>4
<1>4. QED
  BY <1>2, <1>3 DEF ShutdownInv, TypeOK

-----------------------------------------------------------------------------
(* Types. *)

LEMMA ThreadsKeep ==
  ASSUME ShutdownInv, Next
  PROVE  ThreadsTyped'
<1> USE DEF coordinator, mainThreads
<1>0. ThreadsTyped
  BY TypeParts DEF ShutdownInv
<1>1. CASE \E c \in Conns : Requesting(c)
  BY <1>0, <1>1 DEF Requesting, Register, RegisterMismatch, Unregister, Request, Refuse,
                    HandlerPanics, ThreadsTyped
<1>2. CASE \E c \in Conns : Queueing(c)
  BY <1>0, <1>2 DEF Queueing, PushReply, WriterSends, WriterFails, WriterEnds, ThreadsTyped
<1>3. CASE \E c \in Conns : Moving(c)
  BY <1>0, <1>3 DEF Moving, ReaderBreaks, Leave, Connect, ClientGoes, ThreadsTyped
<1>4. CASE \E c \in Conns : MonitorWrites(c)
  BY <1>0, <1>4 DEF MonitorWrites, ThreadsTyped
<1>5. CASE Initiating
  <2>1. /\ flag' \in BOOLEAN /\ closer' \in {"none", "sleeping", "waking", "done"}
        /\ signal' \in {"waiting", "done"}
    BY <1>0, <1>5, InitiateEffect DEF Initiating, Signal, RecvTimesOut, AskShutdown, ThreadsTyped
  <2>2. UNCHANGED <<streams, listener, wake, monitor, toTell, exited, stateThread>>
    BY <1>5 DEF Initiating, Signal, RecvTimesOut, AskShutdown
  <2>3. QED
    BY <1>0, <2>1, <2>2 DEF ThreadsTyped
<1>6. CASE Housekeeping
  <2>1. CASE SignalCloses \/ Exit
    BY <1>0, <2>1 DEF SignalCloses, Exit, ThreadsTyped
  <2>7. CASE Tick \/ StatePanics \/ StateReturns
    BY <1>0, <2>7 DEF Tick, StatePanics, StateReturns, ThreadsTyped
  <2>2. CASE CloserWakes \/ MonitorWakes
    <3>1. CASE CloserWakes
      BY <1>0, <3>1 DEF CloserWakes, WakeListener, ThreadsTyped
    <3>2. CASE MonitorWakes
      BY <1>0, <3>2 DEF MonitorWakes, WakeListener, ThreadsTyped
    <3>3. QED
      BY <2>2, <3>1, <3>2
  <2>3. CASE Bind
    BY <1>0, <2>3 DEF Bind, ThreadsTyped
  <2>4. CASE AcceptWake
    BY <1>0, <2>4 DEF AcceptWake, ThreadsTyped
  <2>5. CASE MonitorJoins \/ MonitorLocks \/ MonitorUnlocks
    <3>1. CASE MonitorJoins
      BY <1>0, <3>1 DEF MonitorJoins, ThreadsTyped
    <3>2. CASE MonitorLocks
      BY <1>0, <3>2 DEF MonitorLocks, ThreadsTyped
    <3>3. CASE MonitorUnlocks
      BY <1>0, <3>3 DEF MonitorUnlocks, ThreadsTyped
    <3>4. QED
      BY <2>5, <3>1, <3>2, <3>3
  <2>6. QED
    BY <1>6, <2>1, <2>2, <2>3, <2>4, <2>5, <2>7 DEF Housekeeping
<1>7. CASE Closing
  BY <1>0, <1>7 DEF Closing, CloserCloses, MonitorCloses, CloseAllStreams, ThreadsTyped
<1>8. CASE Handing
  BY <1>0, <1>8 DEF Handing, RegisterStream, Accept, ThreadsTyped
<1>9. QED
  BY NextSteps, <1>1, <1>2, <1>3, <1>4, <1>5, <1>6, <1>7, <1>8

LEMMA RosterKeeps ==
  ASSUME ShutdownInv, Next
  PROVE  RosterTyped'
<1> USE ConstantsAssumption DEF clock, Commanded
<1>0. RosterTyped
  BY TypeParts DEF ShutdownInv
<1>1. CASE \E c \in Conns : Requesting(c)
  BY <1>0, <1>1 DEF Requesting, Register, RegisterMismatch, Unregister, DropProcess, Request,
                    Refuse, HandlerPanics, RosterTyped
<1>2. CASE \E c \in Conns : Queueing(c)
  BY <1>0, <1>2 DEF Queueing, PushReply, WriterSends, WriterFails, WriterEnds, RosterTyped
<1>3. CASE \E c \in Conns : Moving(c)
  BY <1>0, <1>3 DEF Moving, ReaderBreaks, Leave, DropProcess, Connect, ClientGoes, RosterTyped
<1>4. CASE \E c \in Conns : MonitorWrites(c)
  BY <1>0, <1>4 DEF MonitorWrites, RosterTyped
<1>5. CASE Initiating
  BY <1>0, <1>5 DEF Initiating, Signal, RecvTimesOut, AskShutdown, RosterTyped
<1>6. CASE Housekeeping
  BY <1>0, <1>6 DEF Housekeeping, SignalCloses, Tick, StatePanics, StateReturns, Exit, CloserWakes,
                    Bind, AcceptWake, MonitorJoins, MonitorLocks, MonitorUnlocks,
                    MonitorWakes, RosterTyped
<1>7. CASE Closing
  BY <1>0, <1>7 DEF Closing, CloserCloses, MonitorCloses, RosterTyped
<1>8. CASE Handing
  BY <1>0, <1>8 DEF Handing, RegisterStream, Accept, RosterTyped
<1>9. QED
  BY NextSteps, <1>1, <1>2, <1>3, <1>4, <1>5, <1>6, <1>7, <1>8

LEMMA TurnTyped ==
  ASSUME ConnsTyped, NEW c \in Conns, NEW pc \in Pcs, NEW reply \in {"ok", "bye", None},
         conn' = [conn EXCEPT ![c].pc = pc, ![c].reply = reply]
  PROVE  ConnsTyped'
BY DEF ConnsTyped

LEMMA AnswerTyped ==
  ASSUME ConnsTyped, NEW c \in Conns, NEW reply \in {"ok", "bye"}, Answer(c, reply)
  PROVE  ConnsTyped'
<1>1. "replying" \in Pcs
  BY DEF Pcs
<1>2. QED
  BY <1>1, TurnTyped DEF Answer

LEMMA ConnsKeep ==
  ASSUME ShutdownInv, Next
  PROVE  ConnsTyped'
<1> USE DEF Pcs
<1>0. ConnsTyped /\ ThreadsTyped
  BY TypeParts DEF ShutdownInv
<1>1. CASE \E c \in Conns : Requesting(c)
  <2>1. PICK c \in Conns : Requesting(c)
    BY <1>1
  <2>2. CASE Register(c)
    BY <1>0, <2>2 DEF Register, ConnsTyped
  <2>5. CASE HandlerPanics(c)
    BY <1>0, <2>5, TurnTyped DEF HandlerPanics
  <2>3. CASE RegisterMismatch(c) \/ Unregister(c) \/ Request(c) \/ Refuse(c)
    BY <1>0, <2>3, AnswerTyped DEF RegisterMismatch, Unregister, Request, Refuse
  <2>4. QED
    BY <2>1, <2>2, <2>3, <2>5 DEF Requesting
<1>2. CASE \E c \in Conns : Queueing(c)
  BY <1>0, <1>2 DEF Queueing, PushReply, WriterSends, WriterFails, WriterEnds, ConnsTyped
<1>3. CASE \E c \in Conns : Moving(c)
  BY <1>0, <1>3 DEF Moving, ReaderBreaks, Leave, Connect, ClientGoes, ConnsTyped
<1>4. CASE \E c \in Conns : MonitorWrites(c)
  BY <1>0, <1>4 DEF MonitorWrites, ConnsTyped
<1>5. CASE Initiating
  <2>1. CASE Signal \/ RecvTimesOut
    BY <1>0, <2>1 DEF Signal, RecvTimesOut, ConnsTyped
  <2>2. CASE \E c \in Conns : AskShutdown(c)
    BY <1>0, <2>2, AnswerTyped DEF AskShutdown
  <2>3. QED
    BY <1>5, <2>1, <2>2 DEF Initiating
<1>6. CASE Housekeeping
  BY <1>0, <1>6 DEF Housekeeping, SignalCloses, Tick, StatePanics, StateReturns, Exit, CloserWakes,
                    Bind, AcceptWake, MonitorJoins, MonitorLocks, MonitorUnlocks,
                    MonitorWakes, ConnsTyped
<1>7. CASE Closing
  BY <1>0, <1>7 DEF Closing, CloserCloses, MonitorCloses, ConnsTyped
<1>8. CASE Handing
  BY <1>0, <1>8 DEF Handing, RegisterStream, Accept, ConnsTyped, ThreadsTyped
<1>9. QED
  BY NextSteps, <1>1, <1>2, <1>3, <1>4, <1>5, <1>6, <1>7, <1>8

LEMMA QueuesKeep ==
  ASSUME ShutdownInv, Next
  PROVE  QueuesTyped'
<1>0. QueuesTyped
  BY TypeParts DEF ShutdownInv
<1>1. CASE \E c \in Conns : Requesting(c)
  BY <1>0, <1>1 DEF Requesting, Register, RegisterMismatch, Unregister, Request, Refuse,
                    HandlerPanics, QueuesTyped
<1>2. CASE \E c \in Conns : Queueing(c)
  <2>1. PICK c \in Conns : Queueing(c)
    BY <1>2
  <2>2. outbound[c] \in Seq(Words) /\ Len(outbound[c]) <= Depth /\ Len(outbound[c]) \in Nat
        /\ Depth \in Nat
    BY <1>0, ConstantsAssumption DEF QueuesTyped
  <2>3. CASE PushReply(c)
    <3>1. conn[c].reply \in Words
      BY <2>3 DEF PushReply, ShutdownInv, Answering, Words
    <3>2. CASE UNCHANGED outbound
      BY <1>0, <3>2 DEF QueuesTyped
    <3>3. CASE Len(outbound[c]) < Depth
               /\ outbound' = [outbound EXCEPT ![c] = Append(@, conn[c].reply)]
      <4>1. /\ Append(outbound[c], conn[c].reply) \in Seq(Words)
            /\ Len(Append(outbound[c], conn[c].reply)) <= Depth
        BY <2>2, <3>1, <3>3
      <4>2. QED
        BY <1>0, <3>3, <4>1 DEF QueuesTyped
    <3>4. QED
      BY <2>3, <3>2, <3>3 DEF PushReply
  <2>4. CASE WriterSends(c)
    <3>1. outbound' = [outbound EXCEPT ![c] = Tail(@)] /\ outbound[c] # <<>>
      BY <2>4 DEF WriterSends
    <3>2. Tail(outbound[c]) \in Seq(Words) /\ Len(Tail(outbound[c])) <= Depth
      BY <2>2, <3>1
    <3>3. QED
      BY <1>0, <3>1, <3>2 DEF QueuesTyped
  <2>5. CASE WriterFails(c)
    <3>1. outbound' = [outbound EXCEPT ![c] = <<>>]
      BY <2>5 DEF WriterFails
    <3>2. <<>> \in Seq(Words) /\ Len(<<>>) <= Depth
      BY <2>2
    <3>3. QED
      BY <1>0, <3>1, <3>2 DEF QueuesTyped
  <2>6. CASE WriterEnds(c)
    BY <1>0, <2>6 DEF WriterEnds, QueuesTyped
  <2>7. QED
    BY <2>1, <2>3, <2>4, <2>5, <2>6 DEF Queueing
<1>3. CASE \E c \in Conns : Moving(c)
  BY <1>0, <1>3 DEF Moving, ReaderBreaks, Leave, Connect, ClientGoes, QueuesTyped
<1>4. CASE \E c \in Conns : MonitorWrites(c)
  BY <1>0, <1>4 DEF MonitorWrites, QueuesTyped
<1>5. CASE Initiating
  BY <1>0, <1>5, InitiateEffect DEF Initiating, Signal, RecvTimesOut, AskShutdown, QueuesTyped
<1>6. CASE Housekeeping
  BY <1>0, <1>6 DEF Housekeeping, SignalCloses, Tick, StatePanics, StateReturns, Exit, CloserWakes,
                    Bind, AcceptWake, MonitorJoins, MonitorLocks, MonitorUnlocks,
                    MonitorWakes, QueuesTyped
<1>7. CASE Closing
  BY <1>0, <1>7 DEF Closing, CloserCloses, MonitorCloses, QueuesTyped
<1>8. CASE Handing
  BY <1>0, <1>8 DEF Handing, RegisterStream, Accept, QueuesTyped
<1>9. QED
  BY NextSteps, <1>1, <1>2, <1>3, <1>4, <1>5, <1>6, <1>7, <1>8

LEMMA SocketsKeep ==
  ASSUME ShutdownInv, Next
  PROVE  SocketsTyped'
<1> USE DEF sockets, history
<1>0. SocketsTyped
  BY TypeParts DEF ShutdownInv
<1>1. CASE \E c \in Conns : Requesting(c)
  BY <1>0, <1>1 DEF Requesting, Register, RegisterMismatch, Unregister, Request, Refuse,
                    HandlerPanics, SocketsTyped
<1>2. CASE \E c \in Conns : Queueing(c)
  <2>1. PICK c \in Conns : Queueing(c)
    BY <1>2
  <2>2. CASE PushReply(c)
    BY <1>0, <2>2 DEF PushReply, SocketsTyped
  <2>3. CASE WriterSends(c)
    <3>1. told' \in [Conns -> Nat]
      BY <1>0, <2>3 DEF WriterSends, SocketsTyped
    <3>2. QED
      BY <1>0, <2>3, <3>1 DEF WriterSends, SocketsTyped
  <2>4. CASE WriterFails(c) \/ WriterEnds(c)
    BY <1>0, <2>4 DEF WriterFails, WriterEnds, SocketsTyped
  <2>5. QED
    BY <2>1, <2>2, <2>3, <2>4 DEF Queueing
<1>3. CASE \E c \in Conns : Moving(c)
  BY <1>0, <1>3 DEF Moving, ReaderBreaks, Leave, Connect, ClientGoes, SocketsTyped
<1>4. CASE \E c \in Conns : MonitorWrites(c)
  BY <1>0, <1>4 DEF MonitorWrites, SocketsTyped
<1>5. CASE Initiating
  BY <1>0, <1>5, InitiateEffect DEF Initiating, Signal, RecvTimesOut, AskShutdown, SocketsTyped
<1>6. CASE Housekeeping
  BY <1>0, <1>6 DEF Housekeeping, SignalCloses, Tick, StatePanics, StateReturns, Exit, CloserWakes,
                    Bind, AcceptWake, MonitorJoins, MonitorLocks, MonitorUnlocks,
                    MonitorWakes, SocketsTyped
<1>7. CASE Closing
  BY <1>0, <1>7 DEF Closing, CloserCloses, MonitorCloses, CloseAllStreams, SocketsTyped
<1>8. CASE Handing
  BY <1>0, <1>8 DEF Handing, RegisterStream, Accept, SocketsTyped
<1>9. QED
  BY NextSteps, <1>1, <1>2, <1>3, <1>4, <1>5, <1>6, <1>7, <1>8

LEMMA TypeKeeps ==
  ASSUME ShutdownInv, Next
  PROVE  TypeOK'
<1>1. ThreadsTyped' /\ RosterTyped' /\ ConnsTyped' /\ QueuesTyped' /\ SocketsTyped'
  BY ThreadsKeep, RosterKeeps, ConnsKeep, QueuesKeep, SocketsKeep
<1>2. QED
  BY <1>1
     DEF TypeOK, ThreadsTyped, RosterTyped, ConnsTyped, Pcs, QueuesTyped, SocketsTyped

-----------------------------------------------------------------------------
(* Who holds an answer, and when the monitor is awake.                       *)

LEMMA AnsweringKeeps ==
  ASSUME ShutdownInv, Next
  PROVE  Answering'
<1> USE DEF mainThreads, Running
<1>0. Answering /\ ConnsTyped /\ ThreadsTyped
  BY TypeParts DEF ShutdownInv
<1>1. CASE \E c \in Conns : Requesting(c)
  <2>1. UNCHANGED <<monitor, stateThread>>
    BY <1>1 DEF Requesting, Register, RegisterMismatch, Unregister, Request, Refuse, HandlerPanics
  <2>2. \A c \in Conns : conn'[c].pc \in {"replying", "last_reply"} => conn'[c].reply \in {"ok", "bye"}
    BY <1>0, <1>1 DEF Requesting, Register, RegisterMismatch, Unregister, Request, Refuse, Answer,
                      HandlerPanics, Answering, ConnsTyped
  <2>3. QED
    BY <1>0, <2>1, <2>2 DEF Answering
<1>2. CASE \E c \in Conns : Queueing(c)
  BY <1>0, <1>2 DEF Queueing, PushReply, WriterSends, WriterFails, WriterEnds, Answering, ConnsTyped
<1>3. CASE \E c \in Conns : Moving(c)
  BY <1>0, <1>3 DEF Moving, ReaderBreaks, Leave, Connect, ClientGoes, Answering, ConnsTyped
<1>4. CASE \E c \in Conns : MonitorWrites(c)
  BY <1>0, <1>4 DEF MonitorWrites, Answering
<1>5. CASE Initiating
  <2>1. CASE Signal \/ RecvTimesOut
    BY <1>0, <2>1 DEF Signal, RecvTimesOut, Answering
  <2>2. CASE \E c \in Conns : AskShutdown(c)
    BY <1>0, <2>2 DEF AskShutdown, Answer, Answering, ConnsTyped
  <2>3. QED
    BY <1>5, <2>1, <2>2 DEF Initiating
<1>6. CASE Housekeeping
  BY <1>0, <1>6 DEF Housekeeping, SignalCloses, Tick, StatePanics, StateReturns, Exit, CloserWakes,
                    Bind, AcceptWake, MonitorJoins, MonitorLocks, MonitorUnlocks,
                    MonitorWakes, Answering
<1>7. CASE Closing
  BY <1>0, <1>7 DEF Closing, CloserCloses, MonitorCloses, Answering
<1>8. CASE Handing
  BY <1>0, <1>8 DEF Handing, RegisterStream, Accept, Answering, ConnsTyped, ThreadsTyped
<1>9. QED
  BY NextSteps, <1>1, <1>2, <1>3, <1>4, <1>5, <1>6, <1>7, <1>8

-----------------------------------------------------------------------------
(* Who is registered has a thread that will unregister it.                   *)

LEMMA RepresentedKeeps ==
  ASSUME ShutdownInv, Next
  PROVE  Represented'
<1> USE ConstantsAssumption
    DEF clock, Running, Serving, EmptiedTracksRoster, RosterEmptyAtReturn, Represented
<1>0. Represented /\ ConnsTyped /\ ThreadsTyped /\ RosterTyped
  BY TypeParts DEF ShutdownInv
<1>1. CASE \E c \in Conns : Requesting(c)
  <2>1. PICK c \in Conns : Requesting(c)
    BY <1>1
  <2>2. CASE Register(c)
    BY <1>0, <2>2 DEF Register, Reading, ConnsTyped, RosterTyped
  <2>3. CASE Unregister(c)
    BY <1>0, <2>3 DEF Unregister, DropProcess, Answer, ConnsTyped, RosterTyped
  <2>4. CASE RegisterMismatch(c) \/ Request(c) \/ Refuse(c)
    BY <1>0, <2>4 DEF RegisterMismatch, Request, Refuse, Answer, ConnsTyped, RosterTyped
  <2>5. CASE HandlerPanics(c)
    BY <1>0, <2>5 DEF HandlerPanics, ConnsTyped, RosterTyped
  <2>6. QED
    BY <2>1, <2>2, <2>3, <2>4, <2>5 DEF Requesting
<1>2. CASE \E c \in Conns : Queueing(c)
  BY <1>0, <1>2 DEF Queueing, PushReply, WriterSends, WriterFails, WriterEnds, ConnsTyped, RosterTyped
<1>3. CASE \E c \in Conns : Moving(c)
  <2>1. PICK c \in Conns : Moving(c)
    BY <1>3
  <2>2. CASE Leave(c)
    BY <1>0, <2>2 DEF Leave, DropProcess, ConnsTyped, RosterTyped
  <2>3. CASE ReaderBreaks(c) \/ Connect(c) \/ ClientGoes(c)
    BY <1>0, <2>3 DEF ReaderBreaks, Reading, Connect, ClientGoes, ConnsTyped, RosterTyped
  <2>4. QED
    BY <2>1, <2>2, <2>3 DEF Moving
<1>4. CASE \E c \in Conns : MonitorWrites(c)
  BY <1>0, <1>4 DEF MonitorWrites
<1>5. CASE Initiating
  <2>1. UNCHANGED <<roster, emptiedFor, stateThread>>
    BY <1>5 DEF Initiating, Signal, RecvTimesOut, AskShutdown
  <2>2. \A c \in Conns : Serving(c) => conn'[c].pc \in {"reading", "replying", "last_reply", "leaving"}
    <3>1. CASE Signal \/ RecvTimesOut
      BY <1>0, <3>1 DEF Signal, RecvTimesOut
    <3>2. CASE \E c \in Conns : AskShutdown(c)
      BY <1>0, <3>2 DEF AskShutdown, Answer, ConnsTyped
    <3>3. QED
      BY <1>5, <3>1, <3>2 DEF Initiating
  <2>3. QED
    BY <1>0, <2>1, <2>2 DEF RosterTyped
<1>6. CASE Housekeeping
  <2>1. CASE Tick
    BY <1>0, <2>1 DEF Tick, RosterTyped
  <2>2. CASE StatePanics \/ StateReturns
    BY <1>0, <2>2 DEF StatePanics, StateReturns, RosterTyped
  <2>3. CASE SignalCloses \/ Exit \/ CloserWakes \/ Bind \/ AcceptWake
    BY <1>0, <2>3 DEF SignalCloses, Exit, CloserWakes, Bind, AcceptWake
  <2>4. CASE MonitorJoins \/ MonitorLocks \/ MonitorUnlocks \/ MonitorWakes
    BY <1>0, <2>4 DEF MonitorJoins, MonitorLocks, MonitorUnlocks, MonitorWakes
  <2>5. QED
    BY <1>6, <2>1, <2>2, <2>3, <2>4 DEF Housekeeping
<1>7. CASE Closing
  BY <1>0, <1>7 DEF Closing, CloserCloses, MonitorCloses
<1>8. CASE Handing
  BY <1>0, <1>8 DEF Handing, RegisterStream, Accept, ConnsTyped, RosterTyped, ThreadsTyped
<1>9. QED
  BY NextSteps, <1>1, <1>2, <1>3, <1>4, <1>5, <1>6, <1>7, <1>8

-----------------------------------------------------------------------------
(* What the closer can reach.                                               *)

LEMMA ReachedKeeps ==
  ASSUME ShutdownInv, Next
  PROVE  Reached'
<1> USE DEF coordinator, mainThreads, sockets, Serving, Reached
<1>0. Reached /\ ConnsTyped /\ ThreadsTyped /\ SocketsTyped
  BY TypeParts DEF ShutdownInv
<1>1. CASE \E c \in Conns : Requesting(c)
  BY <1>0, <1>1 DEF Requesting, Register, RegisterMismatch, Unregister, Request, Refuse, Answer,
                    HandlerPanics, Reading, ConnsTyped
<1>2. CASE \E c \in Conns : Queueing(c)
  BY <1>0, <1>2 DEF Queueing, PushReply, WriterSends, WriterFails, WriterEnds, ConnsTyped
<1>3. CASE \E c \in Conns : Moving(c)
  BY <1>0, <1>3 DEF Moving, ReaderBreaks, Reading, Leave, Connect, ClientGoes, ConnsTyped
<1>4. CASE \E c \in Conns : MonitorWrites(c)
  BY <1>0, <1>4 DEF MonitorWrites
<1>5. CASE Initiating
  <2>1. \/ UNCHANGED <<flag, closer>>
        \/ flag' = TRUE /\ closer' = IF flag THEN closer ELSE "sleeping"
    BY <1>5, InitiateEffect DEF Initiating, Signal, RecvTimesOut, AskShutdown
  <2>2. CASE Signal \/ RecvTimesOut
    BY <1>0, <2>1, <2>2 DEF Signal, RecvTimesOut
  <2>3. CASE \E c \in Conns : AskShutdown(c)
    BY <1>0, <2>1, <2>3 DEF AskShutdown, Answer, Reading, ConnsTyped
  <2>4. QED
    BY <1>5, <2>2, <2>3 DEF Initiating
<1>6. CASE Housekeeping
  BY <1>0, <1>6 DEF Housekeeping, SignalCloses, Tick, StatePanics, StateReturns, Exit, CloserWakes,
                    Bind, AcceptWake, MonitorJoins, MonitorLocks, MonitorUnlocks,
                    MonitorWakes, ThreadsTyped
<1>7. CASE Closing
  BY <1>0, <1>7 DEF Closing, CloserCloses, MonitorCloses, CloseAllStreams, SocketsTyped, ThreadsTyped
<1>8. CASE Handing
  BY <1>0, <1>8 DEF Handing, RegisterStream, Accept, ConnsTyped, ThreadsTyped
<1>9. QED
  BY NextSteps, <1>1, <1>2, <1>3, <1>4, <1>5, <1>6, <1>7, <1>8

-----------------------------------------------------------------------------
(* One notification. *)

LEMMA FineAppend ==
  ASSUME NEW t \in Nat, NEW s \in Seq(Words), NEW w \in Words, w # "notice", Fine(t, s)
  PROVE  Fine(t, Append(s, w)) /\ (Clear(s) <=> Clear(Append(s, w)))
<1>1. \A n \in 1 .. Len(Append(s, w)) :
        Append(s, w)[n] = "notice" => n \in 1 .. Len(s) /\ s[n] = "notice"
  OBVIOUS
<1>2. \A n \in 1 .. Len(s) : n \in 1 .. Len(Append(s, w)) /\ Append(s, w)[n] = s[n]
  OBVIOUS
<1>3. QED
  BY <1>1, <1>2 DEF Fine, Single, Clear

LEMMA FineNotice ==
  ASSUME NEW s \in Seq(Words), Clear(s)
  PROVE  Fine(0, Append(s, "notice")) /\ ~Clear(Append(s, "notice"))
<1>1. \A n \in 1 .. Len(Append(s, "notice")) : Append(s, "notice")[n] = "notice" => n = Len(s) + 1
  BY DEF Clear, Words
<1>2. Len(s) + 1 \in 1 .. Len(Append(s, "notice")) /\ Append(s, "notice")[Len(s) + 1] = "notice"
  BY DEF Words
<1>3. QED
  BY <1>1, <1>2 DEF Fine, Single, Clear

LEMMA FineTail ==
  ASSUME NEW t \in Nat, NEW s \in Seq(Words), s # <<>>, Fine(t, s)
  PROVE  /\ Fine(IF Head(s) = "notice" THEN t + 1 ELSE t, Tail(s))
         /\ Clear(s) <=> Clear(Tail(s)) /\ Head(s) # "notice"
<1>1. Head(s) = s[1] /\ 1 \in 1 .. Len(s)
  OBVIOUS
<1>2. \A n \in 1 .. Len(Tail(s)) : Tail(s)[n] = s[n + 1] /\ n + 1 \in 1 .. Len(s) /\ n + 1 # 1
  OBVIOUS
<1>3. Clear(s) <=> Clear(Tail(s)) /\ Head(s) # "notice"
  <2>1. \A n \in 1 .. Len(s) : n = 1 \/ (n - 1 \in 1 .. Len(Tail(s)) /\ s[n] = Tail(s)[n - 1])
    OBVIOUS
  <2>2. QED
    BY <1>1, <1>2, <2>1 DEF Clear
<1>4. Single(Tail(s))
  BY <1>2 DEF Fine, Single
<1>5. CASE Head(s) = "notice"
  <2>1. Clear(Tail(s)) /\ ~Clear(s)
    BY <1>1, <1>2, <1>5 DEF Fine, Single, Clear
  <2>2. t = 0
    BY <2>1 DEF Fine
  <2>3. QED
    BY <1>3, <1>4, <1>5, <2>1, <2>2 DEF Fine
<1>6. CASE Head(s) # "notice"
  BY <1>3, <1>4, <1>6 DEF Fine
<1>7. QED
  BY <1>5, <1>6, <1>3

LEMMA FineEmpty ==
  ASSUME NEW t \in Nat, t <= 1
  PROVE  Fine(t, <<>>) /\ Clear(<<>>)
BY DEF Fine, Single, Clear

(* What a step does to a queue and its client.                               *)
Same(c) == outbound'[c] = outbound[c] /\ told'[c] = told[c]
Answered(c) ==
  told'[c] = told[c] /\ \E w \in {"ok", "bye"} : outbound'[c] = Append(outbound[c], w)
Sent(c) ==
  /\ outbound[c] # <<>> /\ outbound'[c] = Tail(outbound[c])
  /\ told'[c] = IF Head(outbound[c]) = "notice" THEN told[c] + 1 ELSE told[c]
Dropped(c) == outbound'[c] = <<>> /\ told'[c] = told[c]
Quietly(c) == Same(c) \/ Answered(c) \/ Sent(c) \/ Dropped(c)

LEMMA QuietSound ==
  ASSUME ShutdownInv, NEW c \in Conns, Quietly(c)
  PROVE  /\ Fine(told'[c], outbound'[c])
         /\ Clear(outbound[c]) => Clear(outbound'[c]) /\ told'[c] = told[c]
<1>1. told[c] \in Nat /\ outbound[c] \in Seq(Words) /\ Fine(told[c], outbound[c]) /\ told[c] <= 1
  BY TypeParts DEF ShutdownInv, SocketsTyped, QueuesTyped, NoticesSound, Fine
<1>2. CASE Same(c)
  BY <1>1, <1>2 DEF Same
<1>3. CASE Answered(c)
  <2>1. PICK w \in {"ok", "bye"} : outbound'[c] = Append(outbound[c], w)
    BY <1>3 DEF Answered
  <2>2. w \in Words /\ w # "notice"
    BY DEF Words
  <2>3. QED
    BY <1>1, <1>3, <2>1, <2>2, FineAppend DEF Answered
<1>4. CASE Sent(c)
  BY <1>1, <1>4, FineTail DEF Sent
<1>5. CASE Dropped(c)
  BY <1>1, <1>5, FineEmpty DEF Dropped
<1>6. QED
  BY <1>2, <1>3, <1>4, <1>5 DEF Quietly

LEMMA InitiatingForms ==
  ASSUME Initiating
  PROVE  /\ UNCHANGED <<told, monitor, toTell, stateThread>>
         /\ (Running /\ InitiateShutdown) \/ UNCHANGED <<flag, outbound>>
<1>1. CASE Signal
  BY <1>1 DEF Signal
<1>2. CASE RecvTimesOut
  BY <1>2 DEF RecvTimesOut
<1>3. CASE \E c \in Conns : AskShutdown(c)
  BY <1>3 DEF AskShutdown
<1>4. QED
  BY <1>1, <1>2, <1>3 DEF Initiating

(* Who has been told, or will be, stays so unless its writer ends.            *)
LEMMA InformedStays ==
  ASSUME ShutdownInv, NEW c \in Conns, Same(c) \/ Answered(c) \/ Sent(c), Informed(c)
  PROVE  told'[c] = 1 \/ ~Clear(outbound'[c])
<1>1. told[c] \in Nat /\ outbound[c] \in Seq(Words) /\ Fine(told[c], outbound[c])
      /\ (told[c] = 1 => Clear(outbound[c])) /\ told[c] <= 1
  BY TypeParts DEF ShutdownInv, SocketsTyped, QueuesTyped, NoticesSound, Fine
<1>2. CASE Same(c)
  BY <1>2 DEF Same, Informed
<1>3. CASE Answered(c)
  <2>1. PICK w \in {"ok", "bye"} : outbound'[c] = Append(outbound[c], w)
    BY <1>3 DEF Answered
  <2>2. w \in Words /\ w # "notice"
    BY DEF Words
  <2>3. QED
    BY <1>1, <1>3, <2>1, <2>2, FineAppend DEF Answered, Informed
<1>4. CASE Sent(c)
  <2>1. CASE Head(outbound[c]) = "notice"
    <3>1. ~Clear(outbound[c])
      BY <1>1, <1>4, <2>1, FineTail DEF Sent
    <3>2. QED
      BY <1>1, <1>4, <2>1, <3>1 DEF Sent
  <2>2. CASE Head(outbound[c]) # "notice"
    BY <1>1, <1>4, <2>2, FineTail DEF Sent, Informed
  <2>3. QED
    BY <2>1, <2>2
<1>5. QED
  BY <1>2, <1>3, <1>4

(* Only the step that raises the flag, and the monitor, notify.              *)
LEMMA QuietSteps ==
  ASSUME ShutdownInv, Next, flag \/ ~Running \/ ~Initiating,
         ~(\E c \in Conns : MonitorWrites(c))
  PROVE  \A c \in Conns : Quietly(c)
<1> USE DEF history, Quietly, Same
<1>0. SocketsTyped /\ QueuesTyped /\ Answering
  BY TypeParts DEF ShutdownInv
<1>1. CASE \E c \in Conns : Requesting(c)
  BY <1>1 DEF Requesting, Register, RegisterMismatch, Unregister, Request, Refuse, HandlerPanics
<1>2. CASE \E c \in Conns : Queueing(c)
  <2>1. PICK c \in Conns : Queueing(c)
    BY <1>2
  <2>2. CASE PushReply(c)
    BY <1>0, <2>2 DEF PushReply, Answered, Answering, QueuesTyped
  <2>3. CASE WriterSends(c)
    BY <1>0, <2>3 DEF WriterSends, Sent, QueuesTyped, SocketsTyped
  <2>4. CASE WriterFails(c)
    BY <1>0, <2>4 DEF WriterFails, Dropped, QueuesTyped
  <2>5. CASE WriterEnds(c)
    BY <2>5 DEF WriterEnds
  <2>6. QED
    BY <2>1, <2>2, <2>3, <2>4, <2>5 DEF Queueing
<1>3. CASE \E c \in Conns : Moving(c)
  BY <1>3 DEF Moving, ReaderBreaks, Leave, Connect, ClientGoes
<1>4. CASE Initiating
  BY <1>4, InitiatingForms, InitiateEffect
<1>5. CASE Housekeeping
  BY <1>5 DEF Housekeeping, SignalCloses, Tick, StatePanics, StateReturns, Exit, CloserWakes,
              Bind, AcceptWake, MonitorJoins, MonitorLocks, MonitorUnlocks, MonitorWakes
<1>6. CASE Closing
  BY <1>6 DEF Closing, CloserCloses, MonitorCloses
<1>7. CASE Handing
  BY <1>7 DEF Handing, RegisterStream, Accept
<1>8. QED
  BY NextSteps, <1>1, <1>2, <1>3, <1>4, <1>5, <1>6, <1>7

(* The flag, and the monitor.                                               *)
LEMMA MonitorMoves ==
  ASSUME ShutdownInv, Next
  PROVE  /\ flag => flag'
         /\ monitor' \in {"locking", "writing", "closing", "waking"} => flag'
         /\ monitor' = "locking" => ~flag \/ monitor = "locking"
         /\ monitor' = "writing" =>
              monitor = "locking" \/ (monitor = "writing" /\ toTell' \subseteq toTell)
<1> USE DEF coordinator, mainThreads
<1>0. ThreadsTyped /\ (monitor \in {"locking", "writing", "closing", "waking"} => flag)
  BY TypeParts DEF ShutdownInv, NoticesSound
<1> USE <1>0
<1>1. CASE \E c \in Conns : Requesting(c) \/ Queueing(c) \/ Moving(c)
  <2>1. UNCHANGED <<flag, monitor, toTell>>
    BY <1>1 DEF Requesting, Register, RegisterMismatch, Unregister, Request, Refuse, HandlerPanics,
                Queueing, PushReply, WriterSends, WriterFails, WriterEnds, Moving, ReaderBreaks,
                Leave, Connect, ClientGoes
  <2>2. QED
    BY <2>1
<1>2. CASE \E c \in Conns : MonitorWrites(c)
  BY <1>2 DEF MonitorWrites
<1>3. CASE Initiating
  BY <1>3, InitiatingForms, InitiateEffect
<1>4. CASE Housekeeping
  <2>1. CASE SignalCloses \/ Tick \/ StatePanics \/ StateReturns \/ Exit \/ CloserWakes
             \/ Bind \/ AcceptWake
    <3>1. UNCHANGED <<flag, monitor, toTell>>
      BY <2>1 DEF SignalCloses, Tick, StatePanics, StateReturns, Exit, CloserWakes, Bind, AcceptWake
    <3>2. QED
      BY <3>1
  <2>2. CASE MonitorJoins
    BY <2>2 DEF MonitorJoins, Running, ThreadsTyped
  <2>3. CASE MonitorLocks
    <3>1. monitor = "locking" /\ monitor' = "writing" /\ UNCHANGED flag
      BY <2>3 DEF MonitorLocks
    <3>2. QED
      BY <3>1
  <2>4. CASE MonitorUnlocks \/ MonitorWakes
    <3>1. monitor \in {"writing", "waking"} /\ monitor' \in {"closing", "done"} /\ UNCHANGED flag
      BY <2>4 DEF MonitorUnlocks, MonitorWakes
    <3>2. QED
      BY <3>1
  <2>5. QED
    BY <1>4, <2>1, <2>2, <2>3, <2>4 DEF Housekeeping
<1>5. CASE Closing \/ Handing
  BY <1>5 DEF Closing, CloserCloses, MonitorCloses, Handing, RegisterStream, Accept
<1>6. QED
  BY NextSteps, <1>1, <1>2, <1>3, <1>4, <1>5

LEMMA NoticesKeep ==
  ASSUME ShutdownInv, Next
  PROVE  NoticesSound'
<1>0. NoticesSound /\ SocketsTyped /\ QueuesTyped /\ Answering
  BY TypeParts DEF ShutdownInv
<1>1. CASE \A c \in Conns : Quietly(c)
  BY <1>0, <1>1, QuietSound, MonitorMoves DEF NoticesSound, Unnotified
<1>2. CASE \E c \in Conns : MonitorWrites(c)
  <2>1. PICK c \in Conns : MonitorWrites(c)
    BY <1>2
  <2>2. /\ monitor = "writing" /\ c \in toTell /\ toTell' = toTell \ {c}
        /\ told' = told \/ told' = [told EXCEPT ![c] = @ + 1]
        /\ UNCHANGED <<outbound, monitor, flag>>
    BY <2>1 DEF MonitorWrites, coordinator
  <2>3. told[c] = 0 /\ Clear(outbound[c])
    BY <1>0, <2>2 DEF NoticesSound
  <2>4. \A d \in Conns : Fine(told'[d], outbound'[d])
    BY <1>0, <2>2, <2>3 DEF NoticesSound, SocketsTyped, Fine
  <2>5. flag
    BY <1>0, <2>2 DEF ShutdownInv, NoticesSound
  <2>6. QED
    BY <1>0, <2>2, <2>4, <2>5 DEF NoticesSound, SocketsTyped
<1>3. CASE Initiating /\ Running /\ ~flag
  <2>1. monitor = "waiting" /\ UNCHANGED <<told, monitor>>
    BY <1>0, <1>3, InitiatingForms DEF Answering
  <2>2. CASE InitiateShutdown
    <3>1. flag' = TRUE
      BY <2>2, InitiateEffect
    <3>2. \A c \in Conns : Fine(told'[c], outbound'[c])
      <4> SUFFICES ASSUME NEW c \in Conns
                   PROVE  Fine(told'[c], outbound'[c])
        OBVIOUS
      <4>1. told'[c] = 0 /\ Clear(outbound[c]) /\ outbound[c] \in Seq(Words)
        BY <1>0, <1>3, <2>1 DEF NoticesSound, Unnotified, QueuesTyped
      <4>2. outbound'[c] = outbound[c] \/ outbound'[c] = Append(outbound[c], "notice")
        BY <2>2, InitiateEffect
      <4>3. Fine(told[c], outbound[c])
        BY <1>0 DEF NoticesSound
      <4>4. QED
        BY <2>1, <4>1, <4>2, <4>3, FineNotice
    <3>3. QED
      BY <2>1, <3>1, <3>2 DEF NoticesSound
  <2>3. CASE UNCHANGED <<flag, outbound>>
    BY <1>0, <2>1, <2>3 DEF NoticesSound, Unnotified
  <2>4. QED
    BY <1>3, <2>2, <2>3, InitiatingForms
<1>4. QED
  BY <1>1, <1>2, <1>3, QuietSteps

-----------------------------------------------------------------------------
(* Who comes into the roster has arrived. *)

LEMMA TurnKeepsArrived ==
  ASSUME ShutdownInv, NEW c \in Conns, Serving(c), roster' \subseteq roster \cup {c},
         UNCHANGED <<cut, streams, listener>>,
         conn'[c].pc \in {"reading", "replying", "last_reply", "leaving", "done"},
         \A d \in Conns \ {c} : conn'[d] = conn[d]
  PROVE  Arrived'
<1>1. Arrived /\ Reached /\ ThreadsTyped /\ RosterTyped
  BY TypeParts DEF ShutdownInv
<1>2. QED
  BY <1>1 DEF Arrived, Reached, Serving, ThreadsTyped, RosterTyped

LEMMA ArrivedKeeps ==
  ASSUME ShutdownInv, Next
  PROVE  Arrived'
<1> USE DEF coordinator, mainThreads, sockets, clock, Serving, Arrived
<1>0. Arrived /\ Reached /\ ConnsTyped /\ ThreadsTyped /\ RosterTyped /\ SocketsTyped
  BY TypeParts DEF ShutdownInv
<1>1. CASE \E c \in Conns : Requesting(c)
  <2>1. PICK c \in Conns : Requesting(c)
    BY <1>1
  <2>2. Reading(c) /\ UNCHANGED <<cut, streams, listener>> /\ roster' \subseteq roster \cup {c}
    BY <2>1 DEF Requesting, Register, RegisterMismatch, Unregister, DropProcess, Request, Refuse,
                HandlerPanics
  <2>3. /\ conn'[c].pc \in {"replying", "last_reply"}
        /\ \A d \in Conns \ {c} : conn'[d] = conn[d]
    BY <1>0, <2>1 DEF Requesting, Register, RegisterMismatch, Unregister, Request, Refuse, Answer,
                      HandlerPanics, ConnsTyped
  <2>4. QED
    BY <2>2, <2>3, TurnKeepsArrived DEF Reading
<1>2. CASE \E c \in Conns : Queueing(c)
  <2>1. PICK c \in Conns : Queueing(c)
    BY <1>2
  <2>2. CASE PushReply(c)
    <3>1. /\ Serving(c) /\ roster' \subseteq roster \cup {c} /\ UNCHANGED <<cut, streams, listener>>
          /\ conn'[c].pc \in {"reading", "replying", "last_reply", "leaving", "done"}
          /\ \A d \in Conns \ {c} : conn'[d] = conn[d]
      BY <1>0, <2>2 DEF PushReply, ConnsTyped
    <3>2. QED
      BY Zenon, <3>1, TurnKeepsArrived
  <2>3. CASE WriterSends(c) \/ WriterFails(c) \/ WriterEnds(c)
    BY <1>0, <2>3 DEF WriterSends, WriterFails, WriterEnds
  <2>4. QED
    BY <2>1, <2>2, <2>3 DEF Queueing
<1>3. CASE \E c \in Conns : Moving(c)
  <2>1. PICK c \in Conns : Moving(c)
    BY <1>3
  <2>2. CASE ReaderBreaks(c)
    BY <1>0, <2>2, TurnKeepsArrived DEF ReaderBreaks, Reading, ConnsTyped
  <2>3. CASE Leave(c)
    BY <1>0, <2>3, TurnKeepsArrived DEF Leave, DropProcess, ConnsTyped
  <2>4. CASE Connect(c)
    BY <1>0, <2>4 DEF Connect, ConnsTyped, RosterTyped, ThreadsTyped
  <2>5. CASE ClientGoes(c)
    BY <1>0, <2>5 DEF ClientGoes
  <2>6. QED
    BY <2>1, <2>2, <2>3, <2>4, <2>5 DEF Moving
<1>4. CASE \E c \in Conns : MonitorWrites(c)
  BY <1>0, <1>4 DEF MonitorWrites
<1>5. CASE Initiating
  <2>1. CASE Signal \/ RecvTimesOut
    BY <1>0, <2>1 DEF Signal, RecvTimesOut
  <2>2. CASE \E c \in Conns : AskShutdown(c)
    <3>1. PICK c \in Conns : AskShutdown(c)
      BY <2>2
    <3>2. Reading(c) /\ UNCHANGED <<cut, streams, listener, roster>>
      BY <3>1 DEF AskShutdown
    <3>3. conn'[c].pc = "replying" /\ \A d \in Conns \ {c} : conn'[d] = conn[d]
      BY <1>0, <3>1 DEF AskShutdown, Answer, ConnsTyped
    <3>4. QED
      BY <3>2, <3>3, TurnKeepsArrived DEF Reading
  <2>3. QED
    BY <1>5, <2>1, <2>2 DEF Initiating
<1>6. CASE Housekeeping
  BY <1>0, <1>6 DEF Housekeeping, SignalCloses, Tick, StatePanics, StateReturns, Exit, CloserWakes,
                    Bind, AcceptWake, MonitorJoins, MonitorLocks, MonitorUnlocks, MonitorWakes,
                    ThreadsTyped
<1>7. CASE Closing
  BY <1>0, <1>7 DEF Closing, CloserCloses, MonitorCloses, CloseAllStreams, SocketsTyped, RosterTyped
<1>8. CASE Handing
  BY <1>0, <1>8 DEF Handing, RegisterStream, Accept, ConnsTyped, RosterTyped, ThreadsTyped
<1>9. QED
  BY NextSteps, <1>1, <1>2, <1>3, <1>4, <1>5, <1>6, <1>7, <1>8

-----------------------------------------------------------------------------
(* The duty to tell. *)

LEMMA InitiatingKeepsDuty ==
  ASSUME ShutdownInv, Next, Initiating, Running, ~flag, InitiateShutdown
  PROVE  Duty'
<1>0. Duty /\ Answering /\ NoticesSound /\ QueuesTyped /\ SocketsTyped /\ RosterTyped
  BY TypeParts DEF ShutdownInv
<1>1. monitor' = "waiting" /\ flag' = TRUE /\ UNCHANGED <<roster, late, sinkOpen>>
  BY <1>0, InitiateEffect DEF Initiating, Signal, RecvTimesOut, AskShutdown, Answering
<1>2. \A c \in roster' \ (missed' \cup late') : sinkOpen'[c] => outbound'[c] = Append(outbound[c], "notice")
  BY <1>0, <1>1 DEF InitiateShutdown, RosterTyped
<1>3. \A c \in Conns : ~Clear(Append(outbound[c], "notice"))
  BY <1>0, FineNotice DEF NoticesSound, Unnotified, QueuesTyped
<1>4. QED
  BY <1>0, <1>1, <1>2, <1>3 DEF Duty, Informed, RosterTyped

(* A step that leaves those in the roster, the sockets and the monitor alone. *)
LEMMA QuietKeepsDuty ==
  ASSUME ShutdownInv,
         UNCHANGED <<flag, closer, monitor, toTell, cut>>,
         missed \subseteq missed', roster' \subseteq Conns,
         \A c \in roster' \ (missed' \cup late') :
           sinkOpen'[c] /\ flag =>
             /\ c \in roster \ (missed \cup late) /\ sinkOpen[c]
             /\ Same(c) \/ Answered(c) \/ Sent(c)
  PROVE  Duty'
<1>0. Duty
  BY DEF ShutdownInv
<1>1. QED
  BY <1>0, InformedStays DEF Duty, Informed

LEMMA DutyKeeps ==
  ASSUME ShutdownInv, Next
  PROVE  Duty'
<1> USE DEF coordinator, mainThreads, sockets, clock, history
<1>0. /\ Duty /\ Arrived /\ Reached /\ NoticesSound /\ Answering
      /\ ThreadsTyped /\ RosterTyped /\ ConnsTyped /\ QueuesTyped /\ SocketsTyped
      /\ RosterTyped'
  BY TypeParts, RosterKeeps DEF ShutdownInv
<1>1. CASE \E c \in Conns : Requesting(c)
  <2>1. PICK c \in Conns : Requesting(c)
    BY <1>1
  <2>2. CASE Register(c)
    BY <1>0, <2>2, QuietKeepsDuty DEF Register, Same, RosterTyped
  <2>3. CASE Unregister(c)
    BY <1>0, <2>3, QuietKeepsDuty DEF Unregister, DropProcess, Same, RosterTyped
  <2>4. CASE RegisterMismatch(c) \/ Request(c) \/ Refuse(c) \/ HandlerPanics(c)
    BY <1>0, <2>4, QuietKeepsDuty DEF RegisterMismatch, Request, Refuse, HandlerPanics, Same,
                                      RosterTyped
  <2>5. QED
    BY <2>1, <2>2, <2>3, <2>4 DEF Requesting
<1>2. CASE \E c \in Conns : Queueing(c)
  <2>1. PICK c \in Conns : Queueing(c)
    BY <1>2
  <2>2. CASE PushReply(c)
    <3>1. \A d \in Conns : Same(d) \/ Answered(d)
      BY <1>0, <2>2 DEF PushReply, Same, Answered, Answering, QueuesTyped
    <3>2. QED
      BY <1>0, <2>2, <3>1, QuietKeepsDuty DEF PushReply, RosterTyped
  <2>3. CASE WriterSends(c)
    <3>1. \A d \in Conns : Same(d) \/ Sent(d)
      BY <1>0, <2>3 DEF WriterSends, Same, Sent, QueuesTyped, SocketsTyped
    <3>2. QED
      BY <1>0, <2>3, <3>1, QuietKeepsDuty DEF WriterSends, RosterTyped
  <2>4. CASE WriterFails(c) \/ WriterEnds(c)
    <3>1. ~sinkOpen'[c] /\ \A d \in Conns \ {c} : Same(d) /\ sinkOpen'[d] = sinkOpen[d]
      BY <1>0, <2>4 DEF WriterFails, WriterEnds, Same, QueuesTyped, SocketsTyped
    <3>2. QED
      BY <1>0, <2>4, <3>1, QuietKeepsDuty DEF WriterFails, WriterEnds, RosterTyped
  <2>5. QED
    BY <2>1, <2>2, <2>3, <2>4 DEF Queueing
<1>3. CASE \E c \in Conns : Moving(c)
  BY <1>0, <1>3, QuietKeepsDuty
     DEF Moving, ReaderBreaks, Leave, DropProcess, Connect, ClientGoes, Same, RosterTyped
<1>4. CASE \E c \in Conns : MonitorWrites(c)
  <2>1. PICK c \in Conns : MonitorWrites(c)
    BY <1>4
  <2>2. /\ monitor = "writing" /\ c \in toTell /\ toTell' = toTell \ {c}
        /\ \/ missed' = missed \cup {c} /\ told' = told
           \/ missed' = missed /\ told' = [told EXCEPT ![c] = @ + 1]
        /\ UNCHANGED <<outbound, monitor, flag, closer, cut, roster, late, sinkOpen>>
    BY <2>1 DEF MonitorWrites
  <2>3. told[c] = 0
    BY <1>0, <2>2 DEF NoticesSound
  <2>4. QED
    BY <1>0, <2>2, <2>3 DEF Duty, Informed, SocketsTyped, RosterTyped
<1>5. CASE Initiating
  <2>1. CASE Running /\ InitiateShutdown /\ ~flag
    BY <1>5, <2>1, InitiatingKeepsDuty
  <2>2. CASE ~(Running /\ InitiateShutdown /\ ~flag)
    <3>1. UNCHANGED <<flag, closer, monitor, toTell, cut, outbound, told, missed, late, roster, sinkOpen>>
      BY <1>5, <2>2, InitiateEffect DEF Initiating, Signal, RecvTimesOut, AskShutdown
    <3>2. QED
      BY <1>0, <3>1 DEF Duty, Informed
  <2>3. QED
    BY <2>1, <2>2
<1>6. CASE Housekeeping
  <2>1. UNCHANGED <<cut, outbound, told, missed, late, roster, sinkOpen>>
    BY <1>6 DEF Housekeeping, SignalCloses, Tick, StatePanics, StateReturns, Exit, CloserWakes, Bind,
                AcceptWake, MonitorJoins, MonitorLocks, MonitorUnlocks, MonitorWakes
  <2>2. CASE SignalCloses \/ Tick \/ StatePanics \/ StateReturns \/ Exit \/ Bind \/ AcceptWake
    <3>1. UNCHANGED <<flag, closer, monitor, toTell>>
      BY <2>2 DEF SignalCloses, Tick, StatePanics, StateReturns, Exit, Bind, AcceptWake
    <3>2. QED
      BY <1>0, <2>1, <3>1 DEF Duty, Informed
  <2>3. CASE CloserWakes
    BY <1>0, <2>1, <2>3 DEF CloserWakes, Duty, Informed
  <2>4. CASE MonitorJoins
    BY <1>0, <2>1, <2>4 DEF MonitorJoins, Running, ThreadsTyped, Duty, Informed
  <2>5. CASE MonitorLocks
    BY <1>0, <2>1, <2>5 DEF MonitorLocks, Arrived, RosterTyped, Duty, Informed
  <2>6. CASE MonitorUnlocks
    BY <1>0, <2>1, <2>6 DEF MonitorUnlocks, NoticesSound, Duty, Informed
  <2>7. CASE MonitorWakes
    BY <1>0, <2>1, <2>7 DEF MonitorWakes, NoticesSound, Duty, Informed
  <2>8. QED
    BY <1>6, <2>2, <2>3, <2>4, <2>5, <2>6, <2>7 DEF Housekeeping
<1>7. CASE Closing
  <2>1. UNCHANGED <<outbound, told, missed, late, roster, sinkOpen, flag, toTell>>
    BY <1>7 DEF Closing, CloserCloses, MonitorCloses
  <2>2. CASE CloserCloses
    <3>1. flag /\ monitor \notin {"locking", "writing"} /\ UNCHANGED monitor
      BY <1>0, <2>2 DEF CloserCloses, Reached, Duty
    <3>2. QED
      BY <1>0, <2>1, <3>1 DEF Duty, Informed
  <2>3. CASE MonitorCloses
    <3>1. flag /\ monitor = "closing" /\ monitor' = "waking"
      BY <1>0, <2>3 DEF MonitorCloses, NoticesSound
    <3>2. QED
      BY <1>0, <2>1, <3>1 DEF Duty, Informed
  <2>4. QED
    BY <1>7, <2>2, <2>3 DEF Closing
<1>8. CASE Handing
  <2>1. CASE RegisterStream
    <3>1. listener.holds \in Conns /\ listener.holds \notin roster
      BY <1>0, <2>1 DEF RegisterStream, Arrived, Serving, ThreadsTyped
    <3>2. QED
      BY <1>0, <2>1, <3>1 DEF RegisterStream, SocketsTyped, RosterTyped, Duty, Informed
  <2>2. CASE \E c \in Conns : Accept(c)
    BY <1>0, <2>2 DEF Accept, Duty, Informed
  <2>3. QED
    BY <1>8, <2>1, <2>2 DEF Handing
<1>9. QED
  BY NextSteps, <1>1, <1>2, <1>3, <1>4, <1>5, <1>6, <1>7, <1>8

LEMMA NextSound == ShutdownInv /\ [Next]_vars => ShutdownInv'
<1> SUFFICES ASSUME ShutdownInv, [Next]_vars PROVE ShutdownInv'
  OBVIOUS
<1>1. CASE Next
  BY <1>1, TypeKeeps, AnsweringKeeps, RepresentedKeeps, NoticesKeep, ReachedKeeps, ArrivedKeeps,
     DutyKeeps DEF ShutdownInv
<1>2. CASE UNCHANGED vars
  BY <1>2
     DEF vars, coordinator, mainThreads, clock, sockets, history, ShutdownInv, TypeOK, Answering,
         Represented, EmptiedTracksRoster, RosterEmptyAtReturn, NoticesSound, Unnotified, Reached,
         Arrived, Duty, Informed, Running, Serving
<1>3. QED
  BY <1>1, <1>2

LEMMA ShutdownSound == Spec => []ShutdownInv
<1>1. QED
  BY InitSound, NextSound, PTL DEF Spec

LEMMA NoticesInQueues ==
  ASSUME QueuesTyped, NEW c \in Conns
  PROVE  /\ Queued(c) = {} <=> Clear(outbound[c])
         /\ (\A m, n \in Queued(c) : m = n) <=> Single(outbound[c])
<1>1. outbound[c] \in Seq(Words)
  BY DEF QueuesTyped
<1>2. DOMAIN outbound[c] = 1 .. Len(outbound[c])
  BY <1>1
<1>3. Queued(c) = {n \in 1 .. Len(outbound[c]) : outbound[c][n] = "notice"}
  BY <1>2 DEF Queued
<1>4. QED
  BY <1>3 DEF Clear, Single

-----------------------------------------------------------------------------
(* Theorems. *)

(* The daemon's threads, its clients and their queues keep their shape, and no *)
(* queue exceeds its depth.                                                 *)
THEOREM TypeCorrect == Spec => []TypeOK
<1>1. ShutdownInv => TypeOK
  BY DEF ShutdownInv
<1>2. QED
  BY <1>1, ShutdownSound, PTL

(* Of all that may begin the end (clients, signals, the idle timeout, a panic), *)
(* one tells the clients (mark_shutting_down).                               *)
THEOREM NotifiedOnce == Spec => []OneNotice
<1>1. ShutdownInv => OneNotice
  <2> SUFFICES ASSUME ShutdownInv, NEW c \in Conns
               PROVE  /\ told[c] <= 1
                      /\ told[c] = 1 => Queued(c) = {}
                      /\ \A m, n \in Queued(c) : m = n
    BY DEF OneNotice
  <2>1. Fine(told[c], outbound[c]) /\ QueuesTyped
    BY TypeParts DEF ShutdownInv, NoticesSound
  <2>2. QED
    BY <2>1, NoticesInQueues DEF Fine
<1>2. QED
  BY <1>1, ShutdownSound, PTL

(* Nobody's connection is shut down untold, except who is new, gone or was     *)
(* sent too much (initiate_shutdown, the monitor of serve).                  *)
THEOREM ToldBeforeCut == Spec => []NoticeBeforeCut
<1>1. ShutdownInv => NoticeBeforeCut
  <2> SUFFICES ASSUME ShutdownInv, NEW c \in roster \ (missed \cup late), cut[c], sinkOpen[c]
               PROVE  told[c] = 1 \/ Queued(c) # {}
    BY DEF NoticeBeforeCut
  <2>1. QueuesTyped /\ c \in Conns /\ Duty
    BY TypeParts DEF ShutdownInv, RosterTyped
  <2>2. flag /\ monitor \notin {"locking", "writing"}
    BY <2>1 DEF Duty
  <2>3. Informed(c)
    BY <2>1, <2>2 DEF Duty
  <2>4. QED
    BY <2>1, <2>3, NoticesInQueues DEF Informed
<1>2. QED
  BY <1>1, ShutdownSound, PTL

(* The idle timer runs exactly while nobody is registered (roster_emptied_at). *)
THEOREM TimerTracksRoster == Spec => []EmptiedTracksRoster
<1>1. ShutdownInv => EmptiedTracksRoster
  BY DEF ShutdownInv, Represented
<1>2. QED
  BY <1>1, ShutdownSound, PTL

(* When the state thread returns, everybody has been unregistered: no thread   *)
(* drops its last sender before (run_reader).                                *)
THEOREM AllUnregistered == Spec => []RosterEmptyAtReturn
<1>1. ShutdownInv => RosterEmptyAtReturn
  BY DEF ShutdownInv, Represented
<1>2. QED
  BY <1>1, ShutdownSound, PTL

(* With a prompt listener, no connection is served that the closer has missed *)
(* (initiate_shutdown, run_listener).                                       *)
THEOREM NoStragglers ==
  ASSUME Prompt
  PROVE  Spec => []AllCut
<1>1. ShutdownInv => AllCut
  BY DEF ShutdownInv, Reached, AllCut
<1>2. QED
  BY <1>1, ShutdownSound, PTL

-----------------------------------------------------------------------------
(* The idle timeout.                                                        *)

(* While nobody is registered nobody's command restarts the wait, unless a      *)
(* registration is refused: the daemon has been waiting as long as the roster  *)
(* has been empty.                                                          *)
WaitsSinceEmpty ==
  Running /\ ~flag /\ ~refused /\ emptiedFor # None => emptiedFor = silentFor

LEMMA WaitingKept ==
  ASSUME ShutdownInv, WaitsSinceEmpty, Next
  PROVE  WaitsSinceEmpty'
<1> SUFFICES ASSUME Running', ~flag', ~refused', emptiedFor' # None PROVE emptiedFor' = silentFor'
  BY DEF WaitsSinceEmpty
<1>1. RosterTyped /\ EmptiedTracksRoster
  BY TypeParts DEF ShutdownInv, Represented
<1> USE DEF Running, Commanded, WaitsSinceEmpty, coordinator, mainThreads, sockets, clock, history
<1>2. ASSUME NEW c \in Conns, Requesting(c)
      PROVE  emptiedFor' = silentFor'
  <2>1. CASE Register(c) \/ RegisterMismatch(c)
    BY <2>1 DEF Register, RegisterMismatch
  <2>2. CASE Unregister(c) \/ Request(c)
    BY <1>1, <2>2 DEF Unregister, DropProcess, Request, EmptiedTracksRoster
  <2>3. CASE Refuse(c) \/ HandlerPanics(c)
    BY <2>3 DEF Refuse, HandlerPanics
  <2>4. QED
    BY <1>2, <2>1, <2>2, <2>3 DEF Requesting
<1>3. ASSUME NEW c \in Conns, Queueing(c) \/ MonitorWrites(c)
      PROVE  emptiedFor' = silentFor'
  BY <1>3 DEF Queueing, PushReply, WriterSends, WriterFails, WriterEnds, MonitorWrites
<1>4. ASSUME NEW c \in Conns, Moving(c)
      PROVE  emptiedFor' = silentFor'
  BY <1>1, <1>4 DEF Moving, ReaderBreaks, Leave, Connect, ClientGoes, DropProcess, EmptiedTracksRoster
<1>5. CASE Initiating
  <2>1. ASSUME InitiateShutdown PROVE FALSE
    BY <2>1, InitiateEffect
  <2>2. \A c \in Conns : ~AskShutdown(c)
    BY <2>1 DEF AskShutdown
  <2>3. CASE Signal
    BY <2>1, <2>3 DEF Signal
  <2>4. CASE RecvTimesOut
    BY <1>1, <2>1, <2>4, ConstantsAssumption DEF RecvTimesOut, IdleElapsed, RosterTyped
  <2>5. QED
    BY <1>5, <2>2, <2>3, <2>4 DEF Initiating
<1>6. CASE Housekeeping
  <2>1. CASE Tick
    BY <1>1, <2>1, ConstantsAssumption DEF Tick, RosterTyped
  <2>2. CASE ~Tick
    BY <1>6, <2>2
       DEF Housekeeping, SignalCloses, StatePanics, StateReturns, Exit, CloserWakes, Bind, AcceptWake,
           MonitorJoins, MonitorLocks, MonitorUnlocks, MonitorWakes
  <2>3. QED
    BY <2>1, <2>2
<1>7. CASE Closing \/ Handing
  BY <1>7 DEF Closing, CloserCloses, MonitorCloses, Handing, RegisterStream, Accept
<1>8. QED
  BY <1>2, <1>3, <1>4, <1>5, <1>6, <1>7, NextSteps

(* No request but a registration that is refused keeps a daemon without clients *)
(* beyond its idle timeout (check_idle_timeout).                             *)
THEOREM IdleDaemonEnds == Spec => []IdleInTime
<1>1. Init => WaitsSinceEmpty
  BY DEF Init, WaitsSinceEmpty
<1>2. ShutdownInv /\ WaitsSinceEmpty /\ [Next]_vars => WaitsSinceEmpty'
  <2>1. UNCHANGED vars /\ WaitsSinceEmpty => WaitsSinceEmpty'
    BY DEF vars, coordinator, clock, history, WaitsSinceEmpty, Running
  <2>2. QED
    BY <2>1, WaitingKept
<1>3. ShutdownInv /\ WaitsSinceEmpty => IdleInTime
  BY TypeParts, ConstantsAssumption DEF ShutdownInv, RosterTyped, WaitsSinceEmpty, IdleInTime
<1>4. QED
  BY <1>1, <1>2, <1>3, ShutdownSound, PTL DEF Spec

=============================================================================
