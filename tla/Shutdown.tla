------------------------------ MODULE Shutdown ------------------------------
(***************************************************************************)
(* How the montre daemon ends: a client's daemon.shutdown, a signal, the     *)
(* idle timeout or a panic of the state thread, and then the threads that   *)
(* have to find their way out: listener, connection threads, state thread,  *)
(* its monitor, the signal thread, the detached thread that closes the       *)
(* connections after half a second, and serve, which waits for most of them. *)
(*                                                                         *)
(* A process is identified with its connection: a connection registers once. *)
(* Requests other than those below are one request whose answer takes room   *)
(* in the outbound queue.                                                  *)
(***************************************************************************)
EXTENDS Naturals, Sequences

CONSTANTS
  Conns,      \* clients, each of which connects once
  Stuck,      \* those that may stop reading their sockets for ever
  Requests,   \* the requests clients make beyond registering
  Depth,      \* OUTBOUND_QUEUE_DEPTH
  IdleTicks,  \* the idle timeout in ticks; 0 disables it
  Panics,     \* may the state thread panic
  Prompt,     \* does the listener need less than half a second between
              \* looking at the flag and registering the connection
  None        \* "no value"

RequestNames == {"unregister", "shutdown", "other", "refused", "mismatch", "panicking"}

ASSUME ConstantsAssumption ==
  /\ Requests \subseteq RequestNames
  /\ Stuck \subseteq Conns
  /\ Depth \in Nat \ {0} /\ IdleTicks \in Nat
  /\ Panics \in BOOLEAN /\ Prompt \in BOOLEAN
  /\ None \notin Conns /\ None \notin Nat

VARIABLES
  flag,         \* ShutdownCoordinator::flag
  streams,      \* ShutdownCoordinator::streams: clones of the connections' sockets
  listener,     \* pc of the listener, and the connection it has in hand
  wake,         \* is a wake-up connection waiting to be accepted
  closer,       \* the detached thread of initiate_shutdown
  stateThread,  \* "running", "panicked" or "returned"
  monitor,      \* the thread that joins the state thread
  toTell,       \* the streams the monitor has yet to write to
  signal,       \* the signal thread: "waiting" or "done"
  exited,       \* has serve returned
  roster,       \* registered connections
  emptiedFor,   \* ticks since roster_emptied_at, or None
  silentFor,    \* ticks since the state thread began to wait for a command
  conn,         \* connection -> its reader thread: pc, the answer it holds, ever_registered
  outbound,     \* connection -> queue of its writer thread
  sinkOpen,     \* connection -> does its writer thread still receive
  cut,          \* connection -> has its socket been shut down
  gone,         \* connection -> has the client closed its end
  told,         \* history: shutdown notifications each client has received
  missed,       \* history: connections whose shutdown notification was dropped
  late,         \* history: connections that registered during the shutdown
  refused       \* history: has a registration been refused

coordinator == <<flag, streams>>
mainThreads == <<listener, wake, closer, monitor, toTell, signal, exited>>
sockets == <<cut, gone>>
clock == <<emptiedFor, silentFor>>
history == <<told, missed, late, refused>>
vars == <<coordinator, mainThreads, stateThread, roster, clock, conn, outbound, sinkOpen,
          sockets, history>>

-----------------------------------------------------------------------------
Running == stateThread = "running"
Serving(c) == conn[c].pc \in {"reading", "replying", "last_reply", "leaving"}
Reading(c) == conn[c].pc = "reading"
Answer(c, reply) == conn' = [conn EXCEPT ![c].pc = "replying", ![c].reply = reply]

(* Every command ends the state thread's wait and starts a new one.          *)
Commanded == silentFor' = 0

(* Mutant: a shutdown that is under way is begun again.                      *)
InitiateAgain ==
  LET room == {c \in roster : sinkOpen[c] /\ Len(outbound[c]) < Depth} IN
  /\ flag' = TRUE
  /\ outbound' = [c \in Conns |-> IF c \in room THEN Append(outbound[c], "notice")
                                                ELSE outbound[c]]
  /\ missed' = missed \cup (roster \ room)
  /\ closer' = "sleeping"

(* State::initiate_shutdown: whoever raises the flag notifies everybody in    *)
(* the roster and starts the closer.  A queue that stays full for 200 ms     *)
(* misses the notification; one that makes room in time is one whose writer  *)
(* moved first.                                                             *)
InitiateShutdown ==
  LET room == {c \in roster : sinkOpen[c] /\ Len(outbound[c]) < Depth} IN
  IF flag
    THEN UNCHANGED <<flag, outbound, missed, closer>>
    ELSE /\ flag' = TRUE
         /\ outbound' = [c \in Conns |-> IF c \in room THEN Append(outbound[c], "notice")
                                                       ELSE outbound[c]]
         /\ missed' = missed \cup (roster \ room)
         /\ closer' = "sleeping"

DropProcess(c) ==
  /\ roster' = roster \ {c}
  /\ emptiedFor' = IF roster = {c} THEN 0 ELSE emptiedFor

-----------------------------------------------------------------------------
(* Requests, as long as the state thread is there to handle them. *)

Register(c) ==
  /\ Reading(c) /\ Running
  /\ ~conn[c].ever
  /\ conn' = [conn EXCEPT ![c] = [pc |-> "replying", reply |-> "ok", ever |-> TRUE]]
  /\ roster' = roster \cup {c}
  /\ emptiedFor' = None
  /\ late' = IF flag THEN late \cup {c} ELSE late
  /\ Commanded
  /\ UNCHANGED <<coordinator, mainThreads, stateThread, outbound, sinkOpen, sockets, told, missed,
                 refused>>

(* A client that asks for another version of the protocol: the state thread  *)
(* answers with an error, and the connection goes on.                       *)
RegisterMismatch(c) ==
  /\ Reading(c) /\ Running
  /\ ~conn[c].ever
  /\ Answer(c, "ok")
  /\ refused' = TRUE
  /\ Commanded
  /\ UNCHANGED <<coordinator, mainThreads, stateThread, roster, emptiedFor, outbound, sinkOpen,
                 sockets, told, missed, late>>

Unregister(c) ==
  /\ Reading(c) /\ Running
  /\ c \in roster
  /\ DropProcess(c)
  /\ Answer(c, "ok")
  /\ Commanded
  /\ UNCHANGED <<coordinator, mainThreads, stateThread, outbound, sinkOpen, sockets, history>>

(* daemon.shutdown: the answer is in the handler's hands only when the state *)
(* thread has queued the notifications.                                    *)
AskShutdown(c) ==
  /\ Reading(c) /\ Running
  /\ c \in roster
  /\ InitiateShutdown
  /\ Answer(c, "bye")
  /\ Commanded
  /\ UNCHANGED <<streams, listener, wake, monitor, toTell, signal, exited, stateThread, roster,
                 emptiedFor, sinkOpen, sockets, told, late, refused>>

(* Any other request of a registered client.                                *)
Request(c) ==
  /\ Reading(c) /\ Running
  /\ c \in roster
  /\ Answer(c, "ok")
  /\ Commanded
  /\ UNCHANGED <<coordinator, mainThreads, stateThread, roster, emptiedFor, outbound, sinkOpen,
                 sockets, history>>

(* Requests that are refused before a command is sent, and every request    *)
(* after the state thread has panicked, are answered with an error.         *)
Refuse(c) ==
  /\ Reading(c)
  /\ Answer(c, "ok")
  /\ UNCHANGED <<coordinator, mainThreads, stateThread, roster, clock, outbound, sinkOpen,
                 sockets, history>>

HandlerPanics(c) ==
  /\ Reading(c)
  /\ conn' = [conn EXCEPT ![c].pc = "last_reply", ![c].reply = "ok"]
  /\ UNCHANGED <<coordinator, mainThreads, stateThread, roster, clock, outbound, sinkOpen,
                 sockets, history>>

-----------------------------------------------------------------------------
(* Connection threads. *)

(* The answer waits for room in the queue; nobody waits for a writer that has *)
(* ended.                                                                   *)
PushReply(c) ==
  /\ conn[c].pc \in {"replying", "last_reply"}
  /\ \/ /\ sinkOpen[c]
        /\ Len(outbound[c]) < Depth
        /\ outbound' = [outbound EXCEPT ![c] = Append(@, conn[c].reply)]
     \/ ~sinkOpen[c] /\ UNCHANGED outbound
  /\ conn' = [conn EXCEPT
       ![c].pc = IF @ = "replying" THEN "reading" ELSE "leaving", ![c].reply = None]
  /\ UNCHANGED <<coordinator, mainThreads, stateThread, roster, clock, sinkOpen, sockets, history>>

(* A frame that cannot be read, or the end of the stream.                    *)
ReaderBreaks(c) ==
  /\ Reading(c)
  /\ conn' = [conn EXCEPT ![c].pc = "leaving"]
  /\ UNCHANGED <<coordinator, mainThreads, stateThread, roster, clock, outbound, sinkOpen,
                 sockets, history>>

ReadEOF(c) == (gone[c] \/ cut[c]) /\ ReaderBreaks(c)

(* Mutant: the reader ends without unregistering.                            *)
LeaveQuietly(c) ==
  /\ conn[c].pc = "leaving"
  /\ conn' = [conn EXCEPT ![c].pc = "done"]
  /\ UNCHANGED <<coordinator, mainThreads, stateThread, roster, clock, outbound, sinkOpen,
                 sockets, history>>

Leave(c) ==
  /\ conn[c].pc = "leaving"
  /\ conn' = [conn EXCEPT ![c].pc = "done"]
  /\ IF Running /\ c \in roster
       THEN DropProcess(c) /\ Commanded
       ELSE UNCHANGED <<roster, clock>>
  /\ UNCHANGED <<coordinator, mainThreads, stateThread, outbound, sinkOpen, sockets, history>>

(* write_frame, to a client that reads.                                     *)
WriterSends(c) ==
  /\ sinkOpen[c] /\ outbound[c] # <<>> /\ ~gone[c] /\ ~cut[c]
  /\ told' = IF Head(outbound[c]) = "notice" THEN [told EXCEPT ![c] = @ + 1] ELSE told
  /\ outbound' = [outbound EXCEPT ![c] = Tail(@)]
  /\ UNCHANGED <<coordinator, mainThreads, stateThread, roster, clock, conn, sinkOpen, sockets,
                 missed, late, refused>>

(* A write fails; what is left in the queue is dropped with it.              *)
WriterFails(c) ==
  /\ sinkOpen[c] /\ outbound[c] # <<>> /\ (gone[c] \/ cut[c])
  /\ sinkOpen' = [sinkOpen EXCEPT ![c] = FALSE]
  /\ outbound' = [outbound EXCEPT ![c] = <<>>]
  /\ UNCHANGED <<coordinator, mainThreads, stateThread, roster, clock, conn, sockets, history>>

(* Nobody is left who could queue anything.                                 *)
WriterEnds(c) ==
  /\ sinkOpen[c] /\ outbound[c] = <<>>
  /\ conn[c].pc = "done"
  /\ ~(Running /\ c \in roster)
  /\ sinkOpen' = [sinkOpen EXCEPT ![c] = FALSE]
  /\ UNCHANGED <<coordinator, mainThreads, stateThread, roster, clock, conn, outbound, sockets,
                 history>>

-----------------------------------------------------------------------------
(* Clients. *)

Connect(c) ==
  /\ conn[c].pc = "none"
  /\ listener.pc \in {"accepting", "checked"}
  /\ conn' = [conn EXCEPT ![c].pc = "backlog"]
  /\ UNCHANGED <<coordinator, mainThreads, stateThread, roster, clock, outbound, sinkOpen,
                 sockets, history>>

ClientGoes(c) ==
  /\ ~gone[c] /\ conn[c].pc # "none"
  /\ gone' = [gone EXCEPT ![c] = TRUE]
  /\ UNCHANGED <<coordinator, mainThreads, stateThread, roster, clock, conn, outbound, sinkOpen,
                 cut, history>>

-----------------------------------------------------------------------------
(* The listener. *)

Bind ==
  /\ listener.pc = "binding"
  /\ \E pc \in {"accepting", "done"} : listener' = [listener EXCEPT !.pc = pc]
  /\ UNCHANGED <<coordinator, wake, closer, monitor, toTell, signal, exited, stateThread, roster,
                 clock, conn, outbound, sinkOpen, sockets, history>>

(* Mutant: only the wake-up ends the listener.                               *)
AcceptAnyway(c) ==
  /\ listener.pc = "accepting"
  /\ conn[c].pc = "backlog"
  /\ listener' = [pc |-> "checked", holds |-> c]
  /\ conn' = [conn EXCEPT ![c].pc = "accepted"]
  /\ UNCHANGED <<coordinator, wake, closer, monitor, toTell, signal, exited, stateThread, roster,
                 clock, outbound, sinkOpen, sockets, history>>

(* A connection accepted when the flag is up is dropped, and ends the        *)
(* listener like the wake-up does.                                         *)
Accept(c) ==
  /\ listener.pc = "accepting"
  /\ conn[c].pc = "backlog"
  /\ listener' = IF flag THEN [pc |-> "done", holds |-> None]
                         ELSE [pc |-> "checked", holds |-> c]
  /\ conn' = [conn EXCEPT ![c].pc = IF flag THEN "done" ELSE "accepted"]
  /\ UNCHANGED <<coordinator, wake, closer, monitor, toTell, signal, exited, stateThread, roster,
                 clock, outbound, sinkOpen, sockets, history>>

AcceptWake ==
  /\ listener.pc = "accepting"
  /\ wake
  /\ wake' = FALSE
  /\ listener' = IF flag THEN [pc |-> "done", holds |-> None] ELSE listener
  /\ UNCHANGED <<coordinator, closer, monitor, toTell, signal, exited, stateThread, roster,
                 clock, conn, outbound, sinkOpen, sockets, history>>

(* The lock on the streams is taken; the monitor holds it while it writes.   *)
StreamsFree == monitor # "writing"

RegisterStream ==
  LET c == listener.holds IN
  /\ listener.pc = "checked"
  /\ StreamsFree
  /\ streams' = streams \cup {c}
  /\ conn' = [conn EXCEPT ![c].pc = "reading"]
  /\ sinkOpen' = [sinkOpen EXCEPT ![c] = TRUE]
  /\ listener' = [pc |-> "accepting", holds |-> None]
  /\ UNCHANGED <<flag, wake, closer, monitor, toTell, signal, exited, stateThread, roster,
                 clock, outbound, sockets, history>>

-----------------------------------------------------------------------------
(* What begins a shutdown besides a client. *)

(* The signal thread handles one signal; serve closes it when the listener    *)
(* has ended.                                                              *)
Signal ==
  /\ signal = "waiting"
  /\ signal' = "done"
  /\ IF Running
       THEN InitiateShutdown /\ Commanded
       ELSE UNCHANGED <<flag, outbound, missed, closer, silentFor>>
  /\ UNCHANGED <<streams, listener, wake, monitor, toTell, exited, stateThread, roster, emptiedFor,
                 conn, sinkOpen, sockets, told, late, refused>>

SignalCloses ==
  /\ signal = "waiting" /\ listener.pc = "done"
  /\ signal' = "done"
  /\ UNCHANGED <<coordinator, listener, wake, closer, monitor, toTell, exited, stateThread, roster,
                 clock, conn, outbound, sinkOpen, sockets, history>>

(* One tick of the clock; a wait that has reached the timeout ends before the *)
(* next.  Only waits before a shutdown matter.                             *)
Tick ==
  /\ IdleTicks > 0 /\ Running /\ ~flag
  /\ silentFor < IdleTicks
  /\ silentFor' = silentFor + 1
  /\ emptiedFor' = IF emptiedFor = None \/ emptiedFor > IdleTicks THEN emptiedFor
                                                                ELSE emptiedFor + 1
  /\ UNCHANGED <<coordinator, mainThreads, stateThread, roster, conn, outbound, sinkOpen,
                 sockets, history>>

(* Mutant: the timeout must be exceeded.                                     *)
OverdueOnly == emptiedFor # None /\ emptiedFor > IdleTicks

IdleElapsed == emptiedFor # None /\ emptiedFor >= IdleTicks

(* recv_timeout gives up; State::check_idle_timeout.                         *)
RecvTimesOut ==
  /\ IdleTicks > 0 /\ Running /\ ~flag
  /\ silentFor = IdleTicks
  /\ silentFor' = 0
  /\ IF IdleElapsed THEN InitiateShutdown ELSE UNCHANGED <<flag, outbound, missed, closer>>
  /\ UNCHANGED <<streams, listener, wake, monitor, toTell, signal, exited, stateThread, roster,
                 emptiedFor, conn, sinkOpen, sockets, told, late, refused>>

StatePanics ==
  /\ Panics /\ Running
  /\ stateThread' = "panicked"
  /\ UNCHANGED <<coordinator, mainThreads, roster, clock, conn, outbound, sinkOpen, sockets,
                 history>>

-----------------------------------------------------------------------------
(* The way out. *)

CloseAllStreams ==
  /\ StreamsFree
  /\ cut' = [c \in Conns |-> cut[c] \/ c \in streams]
  /\ streams' = {}

(* Mutant: nobody wakes the listener.                                        *)
NoWake == wake' = FALSE

(* A wake-up that finds no listener is logged and forgotten.                 *)
WakeListener == wake' = (listener.pc # "done")

CloserCloses ==
  /\ closer = "sleeping"
  /\ Prompt => listener.pc # "checked"
  /\ CloseAllStreams
  /\ closer' = "waking"
  /\ UNCHANGED <<flag, listener, wake, monitor, toTell, signal, exited, stateThread, roster, clock,
                 conn, outbound, sinkOpen, gone, history>>

CloserWakes ==
  /\ closer = "waking"
  /\ WakeListener
  /\ closer' = "done"
  /\ UNCHANGED <<coordinator, listener, monitor, toTell, signal, exited, stateThread, roster,
                 clock, conn, outbound, sinkOpen, sockets, history>>

(* The state thread returns when every sender of commands is gone: those of   *)
(* the listener, of the signal thread and of the connection threads.        *)
StateReturns ==
  /\ Running
  /\ listener.pc = "done" /\ signal = "done"
  /\ \A c \in Conns : ~Serving(c)
  /\ stateThread' = "returned"
  /\ UNCHANGED <<coordinator, mainThreads, roster, clock, conn, outbound, sinkOpen, sockets,
                 history>>

MonitorJoins ==
  /\ monitor = "waiting" /\ ~Running
  /\ monitor' = IF stateThread = "returned" THEN "done" ELSE IF flag THEN "closing" ELSE "locking"
  /\ flag' = (flag \/ stateThread = "panicked")
  /\ UNCHANGED <<streams, listener, wake, closer, toTell, signal, exited, stateThread, roster,
                 clock, conn, outbound, sinkOpen, sockets, history>>

(* Mutant: a fatal end tells nobody.                                         *)
MonitorSkips ==
  /\ monitor = "locking"
  /\ monitor' = "closing"
  /\ UNCHANGED <<coordinator, listener, wake, closer, toTell, signal, exited, stateThread, roster,
                 clock, conn, outbound, sinkOpen, sockets, history>>

MonitorLocks ==
  /\ monitor = "locking"
  /\ monitor' = "writing" /\ toTell' = streams
  /\ UNCHANGED <<coordinator, listener, wake, closer, signal, exited, stateThread, roster,
                 clock, conn, outbound, sinkOpen, sockets, history>>

(* broadcast_frame writes to the socket itself, past the writer thread, and   *)
(* waits while the socket takes no more.                                    *)
MonitorWrites(c) ==
  /\ monitor = "writing" /\ c \in toTell
  /\ toTell' = toTell \ {c}
  /\ IF gone[c] \/ cut[c]
       THEN missed' = missed \cup {c} /\ UNCHANGED told
       ELSE told' = [told EXCEPT ![c] = @ + 1] /\ UNCHANGED missed
  /\ UNCHANGED <<coordinator, listener, wake, closer, monitor, signal, exited, stateThread, roster,
                 clock, conn, outbound, sinkOpen, sockets, late, refused>>

MonitorUnlocks ==
  /\ monitor = "writing" /\ toTell = {}
  /\ monitor' = "closing"
  /\ UNCHANGED <<coordinator, listener, wake, closer, toTell, signal, exited, stateThread, roster,
                 clock, conn, outbound, sinkOpen, sockets, history>>

MonitorCloses ==
  /\ monitor = "closing"
  /\ CloseAllStreams
  /\ monitor' = "waking"
  /\ UNCHANGED <<flag, listener, wake, closer, toTell, signal, exited, stateThread, roster, clock,
                 conn, outbound, sinkOpen, gone, history>>

MonitorWakes ==
  /\ monitor = "waking"
  /\ WakeListener
  /\ monitor' = "done"
  /\ UNCHANGED <<coordinator, listener, closer, toTell, signal, exited, stateThread, roster,
                 clock, conn, outbound, sinkOpen, sockets, history>>

(* serve has joined the signal thread and the monitor, and returns.          *)
Exit ==
  /\ listener.pc = "done" /\ signal = "done" /\ monitor = "done"
  /\ exited' = TRUE
  /\ UNCHANGED <<coordinator, listener, wake, closer, monitor, toTell, signal, stateThread, roster,
                 clock, conn, outbound, sinkOpen, sockets, history>>

-----------------------------------------------------------------------------
Init ==
  /\ flag = FALSE /\ streams = {}
  /\ listener = [pc |-> "binding", holds |-> None]
  /\ wake = FALSE /\ closer = "none"
  /\ stateThread = "running" /\ monitor = "waiting" /\ toTell = {}
  /\ signal = "waiting" /\ exited = FALSE
  /\ roster = {} /\ emptiedFor = 0 /\ silentFor = 0
  /\ conn = [c \in Conns |-> [pc |-> "none", reply |-> None, ever |-> FALSE]]
  /\ outbound = [c \in Conns |-> <<>>]
  /\ sinkOpen = [c \in Conns |-> FALSE]
  /\ cut = [c \in Conns |-> FALSE]
  /\ gone = [c \in Conns |-> FALSE]
  /\ told = [c \in Conns |-> 0]
  /\ missed = {} /\ late = {} /\ refused = FALSE

Connection(c) ==
  \/ Register(c)
  \/ "unregister" \in Requests /\ Unregister(c)
  \/ "shutdown" \in Requests /\ AskShutdown(c)
  \/ "other" \in Requests /\ Request(c)
  \/ "refused" \in Requests /\ Refuse(c)
  \/ "mismatch" \in Requests /\ RegisterMismatch(c)
  \/ "panicking" \in Requests /\ HandlerPanics(c)
  \/ PushReply(c) \/ ReaderBreaks(c) \/ Leave(c)
  \/ WriterSends(c) \/ WriterFails(c) \/ WriterEnds(c)

Listener == Bind \/ AcceptWake \/ RegisterStream \/ \E c \in Conns : Accept(c)
Closer == CloserCloses \/ CloserWakes
Monitor ==
  \/ MonitorJoins \/ MonitorLocks \/ MonitorUnlocks \/ MonitorCloses \/ MonitorWakes
  \/ \E c \in Conns : MonitorWrites(c)

Next ==
  /\ ~exited
  /\ \/ \E c \in Conns : Connection(c) \/ Connect(c) \/ ClientGoes(c)
     \/ Listener \/ Signal \/ SignalCloses \/ Tick \/ RecvTimesOut \/ StatePanics
     \/ Closer \/ StateReturns \/ Monitor \/ Exit

(* Every thread of the daemon keeps running.  What may wait for ever is a    *)
(* write to a client that does not read.  A socket holds finitely many        *)
(* frames, so a reader gets to the end of a stream that has one.            *)
Fairness ==
  /\ WF_vars(Listener) /\ WF_vars(Closer) /\ WF_vars(SignalCloses)
  /\ WF_vars(StateReturns) /\ WF_vars(Exit)
  /\ WF_vars(MonitorJoins \/ MonitorLocks \/ MonitorUnlocks \/ MonitorCloses \/ MonitorWakes)
  /\ \A c \in Conns :
       /\ WF_vars(PushReply(c)) /\ WF_vars(Leave(c)) /\ WF_vars(WriterFails(c))
       /\ SF_vars(ReadEOF(c))
       /\ WF_vars(MonitorWrites(c) /\ (c \in Stuck => gone[c] \/ cut[c]))

Spec == Init /\ [][Next]_vars
FairSpec == Spec /\ Fairness

-----------------------------------------------------------------------------
(* Properties. *)

Words == {"ok", "bye", "notice"}

TypeOK ==
  /\ flag \in BOOLEAN /\ streams \subseteq Conns
  /\ listener \in [pc : {"binding", "accepting", "checked", "done"}, holds : Conns \cup {None}]
  /\ listener.pc = "checked" => listener.holds \in Conns
  /\ wake \in BOOLEAN
  /\ closer \in {"none", "sleeping", "waking", "done"}
  /\ stateThread \in {"running", "panicked", "returned"}
  /\ monitor \in {"waiting", "locking", "writing", "closing", "waking", "done"}
  /\ toTell \subseteq Conns
  /\ signal \in {"waiting", "done"} /\ exited \in BOOLEAN
  /\ roster \subseteq Conns
  /\ emptiedFor \in 0 .. IdleTicks + 1 \cup {None}
  /\ silentFor \in 0 .. IdleTicks
  /\ conn \in [Conns -> [pc : {"none", "backlog", "accepted", "reading", "replying", "last_reply",
                              "leaving", "done"},
                         reply : {"ok", "bye", None}, ever : BOOLEAN]]
  /\ outbound \in [Conns -> Seq(Words)]
  /\ \A c \in Conns : Len(outbound[c]) <= Depth
  /\ sinkOpen \in [Conns -> BOOLEAN]
  /\ cut \in [Conns -> BOOLEAN] /\ gone \in [Conns -> BOOLEAN]
  /\ told \in [Conns -> Nat]
  /\ missed \subseteq Conns /\ late \subseteq Conns /\ refused \in BOOLEAN

Queued(c) == {n \in DOMAIN outbound[c] : outbound[c][n] = "notice"}

(* Clients see one notification (docs/daemon-clients.md:38): however many      *)
(* clients, signals, timeouts and panics ask for the end, only one of them   *)
(* tells the clients (mark_shutting_down).                                  *)
OneNotice ==
  \A c \in Conns :
    /\ told[c] <= 1
    /\ told[c] = 1 => Queued(c) = {}
    /\ \A m, n \in Queued(c) : m = n

(* Whoever was registered when the shutdown began has the notification, in    *)
(* hand or in its queue, when its connection is shut down, unless the queue   *)
(* was full or the client gone.  The state thread and the monitor of its      *)
(* panic share the duty.                                                    *)
NoticeBeforeCut ==
  \A c \in roster \ (missed \cup late) :
    cut[c] /\ sinkOpen[c] => told[c] = 1 \/ Queued(c) # {}

(* roster_emptied_at is set exactly when the roster is empty, so the daemon   *)
(* never shuts down for idleness under a registered client.                 *)
EmptiedTracksRoster == Running => (emptiedFor # None <=> roster = {})

(* The state thread returns only when everybody has been unregistered.       *)
RosterEmptyAtReturn == stateThread = "returned" => roster = {}

(* After the closer has been through, no connection is being served that it   *)
(* has not shut down ("3. Closes all active connections.",                   *)
(* docs/daemon-protocol.md:926).                                            *)
AllCut == closer \in {"waking", "done"} => \A c \in Conns : Serving(c) => cut[c]

(* The roster is never empty for longer than the timeout without a shutdown   *)
(* ("If no client registers before the timer expires, the daemon exits",     *)
(* docs/daemon-protocol.md:162): no request of a client whose last           *)
(* registration has ended puts it off.  What does is a registration that is  *)
(* refused, since the wait for a command starts anew.                       *)
IdleInTime ==
  Running /\ ~flag /\ ~refused /\ IdleTicks > 0 /\ emptiedFor # None => emptiedFor <= IdleTicks

(* The monitor writes to a client that does not read.                        *)
MonitorHeldUp ==
  monitor = "writing" /\ \E c \in toTell \cap Stuck : ~gone[c] /\ ~cut[c]

(* Once the flag is up, serve returns, whatever the clients do; only the      *)
(* monitor of a state thread that panicked may wait for one for ever.        *)
ShutdownEnds == flag ~> exited \/ MonitorHeldUp

(* What the documentation says and the code does not do.                     *)

(* When the state thread panics, "a monitor broadcasts this notification      *)
(* best-effort to every open connection, then closes them all and the daemon *)
(* exits with an error" (docs/daemon-protocol.md:1081).                     *)
FatalEnds == stateThread = "panicked" ~> exited

=============================================================================
