-------------------------------- MODULE Spawn --------------------------------
(***************************************************************************)
(* How clients of one corpus come by a daemon: connect_or_spawn in the      *)
(* client library, serve in the daemon, and the four files they meet at: the *)
(* spawn lock, the daemon lock, the socket and the epoch.                    *)
(*                                                                         *)
(* Locks are flocks: they go with the process that holds them.  A socket     *)
(* file stays when its daemon dies; connecting to it is refused then.        *)
(***************************************************************************)
EXTENDS Naturals, FiniteSets

CONSTANTS
  Clients,   \* processes that call connect_or_spawn, once each
  Daemons,   \* daemon processes that may be started
  Past,      \* the daemon, long dead, that left a socket file behind
  None       \* "no value"

ASSUME ConstantsAssumption ==
  /\ None # Past /\ {None, Past} \cap (Clients \cup Daemons) = {}
  /\ Clients \cap Daemons = {}

VARIABLES
  client,      \* client -> how far it is in connect_or_spawn
  child,       \* client -> the daemon it has spawned, or None
  server,      \* client -> the daemon it is connected to, or None
  daemon,      \* daemon -> how far it is in serve
  spawnLock,   \* who holds spawn.lock
  daemonLock,  \* who holds daemon.lock
  socket,      \* the daemon that has bound the socket file, or None: no file
  epochFile,   \* the number in the epoch file, less the one found at first
  epochRead,   \* daemon -> the number it has read there
  epoch,       \* daemon -> its daemon_epoch, or 0
  orderly,     \* history: no client has died or run out of patience with a daemon
               \* that is starting, and nobody but clients has started one
  blockers,    \* history: who held the lock when a daemon was refused it
  clobbered    \* history: daemons whose socket a client removed as they listened

files == <<spawnLock, daemonLock, socket, epochFile>>
daemonVars == <<daemon, epochRead, epoch>>
clientVars == <<client, child, server>>
history == <<orderly, blockers, clobbered>>
vars == <<client, child, server, daemon, spawnLock, daemonLock, socket, epochFile,
          epochRead, epoch, orderly, blockers, clobbered>>

-----------------------------------------------------------------------------
Starting == {"opening", "locked", "probed", "read", "bumped", "unlinked"}
InCharge == {"locked", "probed", "read", "bumped", "unlinked", "listening", "closing", "removed"}
Alive == Starting \cup InCharge

Listening(d) == daemon[d] = "listening"
Reachable == socket \in Daemons /\ Listening(socket)

Released(lock, who) == IF lock = who THEN None ELSE lock

-----------------------------------------------------------------------------
(* Daemons. *)

Become(d, pc) == daemon' = [daemon EXCEPT ![d] = pc]

(* Mutant: the answer of try_lock_exclusive is not looked at.                *)
TryLockIgnored(d) ==
  /\ daemon[d] = "opening"
  /\ Become(d, "locked")
  /\ daemonLock' = IF daemonLock = None THEN d ELSE daemonLock
  /\ UNCHANGED <<clientVars, spawnLock, socket, epochFile, epochRead, epoch, history>>

(* acquire_daemon_lock, once the corpus is open.                             *)
TryLock(d) ==
  /\ daemon[d] = "opening"
  /\ IF daemonLock = None
       THEN Become(d, "locked") /\ daemonLock' = d /\ UNCHANGED blockers
       ELSE /\ Become(d, "refused")
            /\ blockers' = blockers \cup {daemonLock}
            /\ UNCHANGED daemonLock
  /\ UNCHANGED <<clientVars, spawnLock, socket, epochFile, epochRead, epoch, orderly,
                 clobbered>>

ProbeSocket(d) ==
  /\ daemon[d] = "locked"
  /\ Become(d, IF Reachable THEN "refused" ELSE "probed")
  /\ daemonLock' = IF Reachable THEN None ELSE d
  /\ UNCHANGED <<clientVars, spawnLock, socket, epochFile, epochRead, epoch, history>>

ReadEpoch(d) ==
  /\ daemon[d] = "probed"
  /\ epochRead' = [epochRead EXCEPT ![d] = epochFile]
  /\ Become(d, "read")
  /\ UNCHANGED <<clientVars, files, epoch, history>>

(* Mutant: the number is handed out before it is written.                    *)
BumpAfterwards(d) ==
  /\ daemon[d] = "read"
  /\ epochFile' = epochRead[d] + 1
  /\ epoch' = [epoch EXCEPT ![d] = epochRead[d]]
  /\ Become(d, "bumped")
  /\ UNCHANGED <<clientVars, spawnLock, daemonLock, socket, epochRead, history>>

(* The rename of the new epoch file.                                        *)
WriteEpoch(d) ==
  /\ daemon[d] = "read"
  /\ epochFile' = epochRead[d] + 1
  /\ epoch' = [epoch EXCEPT ![d] = epochRead[d] + 1]
  /\ Become(d, "bumped")
  /\ UNCHANGED <<clientVars, spawnLock, daemonLock, socket, epochRead, history>>

(* run_listener removes what is at the path, and binds.                      *)
UnlinkStale(d) ==
  /\ daemon[d] = "bumped"
  /\ socket' = None
  /\ Become(d, "unlinked")
  /\ UNCHANGED <<clientVars, spawnLock, daemonLock, epochFile, epochRead, epoch, history>>

Bind(d) ==
  /\ daemon[d] = "unlinked"
  /\ IF socket = None
       THEN socket' = d /\ Become(d, "listening")
       ELSE Become(d, "closing") /\ UNCHANGED socket
  /\ UNCHANGED <<clientVars, spawnLock, daemonLock, epochFile, epochRead, epoch, history>>

(* The listener is dropped; the threads end as in Shutdown.                  *)
StopListening(d) ==
  /\ Listening(d)
  /\ Become(d, "closing")
  /\ UNCHANGED <<clientVars, files, epochRead, epoch, history>>

RemoveSocket(d) ==
  /\ daemon[d] = "closing"
  /\ socket' = None
  /\ Become(d, "removed")
  /\ UNCHANGED <<clientVars, spawnLock, daemonLock, epochFile, epochRead, epoch, history>>

Return(d) ==
  /\ daemon[d] = "removed"
  /\ daemonLock' = Released(daemonLock, d)
  /\ Become(d, "ended")
  /\ UNCHANGED <<clientVars, spawnLock, socket, epochFile, epochRead, epoch, history>>

(* The process dies, or serve gives up on an error.                          *)
Dies(d) ==
  /\ daemon[d] \in Alive
  /\ daemonLock' = Released(daemonLock, d)
  /\ Become(d, "ended")
  /\ UNCHANGED <<clientVars, spawnLock, socket, epochFile, epochRead, epoch, history>>

(* montre serve.                                                            *)
ServeDirectly(d) ==
  /\ daemon[d] = "unborn"
  /\ Become(d, "opening")
  /\ orderly' = FALSE
  /\ UNCHANGED <<clientVars, files, epochRead, epoch, blockers, clobbered>>

-----------------------------------------------------------------------------
(* Clients: connect_or_spawn. *)

Goes(c, pc) == client' = [client EXCEPT ![c] = pc]

(* It returns, with a connection to whoever listens at the path, or without;  *)
(* the spawn lock goes with the guard.                                      *)
Connects(c) ==
  /\ Reachable
  /\ Goes(c, "connected")
  /\ server' = [server EXCEPT ![c] = socket]
  /\ spawnLock' = Released(spawnLock, c)
  /\ UNCHANGED <<child, daemonVars, daemonLock, socket, epochFile, history>>

Fails(c) ==
  /\ Goes(c, "failed")
  /\ spawnLock' = Released(spawnLock, c)

FirstTry(c) ==
  /\ client[c] = "first"
  /\ \/ Connects(c)
     \/ /\ ~Reachable
        /\ Goes(c, "wanting")
        /\ UNCHANGED <<child, server, daemonVars, files, history>>

(* Mutant: there is no spawn lock.                                           *)
SpawnLockIgnored(c) ==
  /\ client[c] = "wanting"
  /\ Goes(c, "second")
  /\ UNCHANGED <<child, server, daemonVars, files, history>>

(* lock_exclusive waits as long as it takes.                                *)
AcquireSpawnLock(c) ==
  /\ client[c] = "wanting"
  /\ spawnLock = None
  /\ spawnLock' = c
  /\ Goes(c, "second")
  /\ UNCHANGED <<child, server, daemonVars, daemonLock, socket, epochFile, history>>

SecondTry(c) ==
  /\ client[c] = "second"
  /\ \/ Connects(c)
     \/ /\ ~Reachable
        /\ Goes(c, IF socket = None THEN "spawning" ELSE "refused")
        /\ UNCHANGED <<child, server, daemonVars, files, history>>

(* daemon_lock_held tries to take the lock, and lets go of it again.         *)
ProbeLock(c) ==
  /\ client[c] = "refused"
  /\ IF daemonLock = None
       THEN Goes(c, "probing") /\ daemonLock' = c /\ UNCHANGED spawnLock
       ELSE Fails(c) /\ UNCHANGED daemonLock
  /\ UNCHANGED <<child, server, daemonVars, socket, epochFile, history>>

LetGo(c) ==
  /\ client[c] = "probing"
  /\ daemonLock' = None
  /\ Goes(c, "unlinking")
  /\ UNCHANGED <<child, server, daemonVars, spawnLock, socket, epochFile, history>>

(* Whatever is at the path by now is removed.                               *)
UnlinkSocket(c) ==
  /\ client[c] = "unlinking"
  /\ socket' = None
  /\ clobbered' = IF Reachable THEN clobbered \cup {socket} ELSE clobbered
  /\ Goes(c, "spawning")
  /\ UNCHANGED <<child, server, daemonVars, spawnLock, daemonLock, epochFile, orderly, blockers>>

SpawnDaemon(c) ==
  /\ client[c] = "spawning"
  /\ \/ \E d \in Daemons :
          /\ daemon[d] = "unborn"
          /\ Become(d, "opening")
          /\ child' = [child EXCEPT ![c] = d]
          /\ Goes(c, "polling")
          /\ UNCHANGED spawnLock
     \/ Fails(c) /\ UNCHANGED <<child, daemon>>
  /\ UNCHANGED <<server, epochRead, epoch, daemonLock, socket, epochFile, history>>

Poll(c) == client[c] = "polling" /\ Connects(c)

(* Mutant: the guard of the spawn lock is not dropped.                       *)
GiveUpHolding(c) ==
  /\ client[c] = "polling"
  /\ ~Reachable
  /\ Goes(c, "failed")
  /\ orderly' = (orderly /\ daemon[child[c]] \notin Starting)
  /\ UNCHANGED <<child, server, daemonVars, files, blockers, clobbered>>

(* The deadline of the poll has passed.                                     *)
GiveUp(c) ==
  /\ client[c] = "polling"
  /\ ~Reachable
  /\ Fails(c)
  /\ orderly' = (orderly /\ daemon[child[c]] \notin Starting)
  /\ UNCHANGED <<child, server, daemonVars, daemonLock, socket, epochFile, blockers, clobbered>>

ClientDies(c) ==
  /\ client[c] \notin {"connected", "failed"}
  /\ Fails(c)
  /\ daemonLock' = Released(daemonLock, c)
  /\ orderly' = FALSE
  /\ UNCHANGED <<child, server, daemonVars, socket, epochFile, blockers, clobbered>>

-----------------------------------------------------------------------------
Init ==
  /\ client = [c \in Clients |-> "first"]
  /\ child = [c \in Clients |-> None]
  /\ server = [c \in Clients |-> None]
  /\ daemon = [d \in Daemons |-> "unborn"]
  /\ spawnLock = None /\ daemonLock = None
  /\ socket \in {None, Past}
  /\ epochFile = 0
  /\ epochRead = [d \in Daemons |-> 0]
  /\ epoch = [d \in Daemons |-> 0]
  /\ orderly = TRUE /\ blockers = {} /\ clobbered = {}

Serve(d) ==
  \/ TryLock(d) \/ ProbeSocket(d) \/ ReadEpoch(d) \/ WriteEpoch(d) \/ UnlinkStale(d)
  \/ Bind(d) \/ RemoveSocket(d) \/ Return(d)

ConnectOrSpawn(c) ==
  \/ FirstTry(c) \/ AcquireSpawnLock(c) \/ SecondTry(c) \/ ProbeLock(c) \/ LetGo(c)
  \/ UnlinkSocket(c) \/ SpawnDaemon(c) \/ Poll(c) \/ GiveUp(c)

Next ==
  \/ \E d \in Daemons : Serve(d) \/ StopListening(d) \/ Dies(d) \/ ServeDirectly(d)
  \/ \E c \in Clients : ConnectOrSpawn(c) \/ ClientDies(c)

(* Processes that are alive go on.  Daemons need not stop listening, and     *)
(* nobody need start one.                                                  *)
Fairness ==
  /\ \A d \in Daemons : WF_vars(Serve(d))
  /\ \A c \in Clients : WF_vars(ConnectOrSpawn(c))

Spec == Init /\ [][Next]_vars
FairSpec == Spec /\ Fairness

-----------------------------------------------------------------------------
(* Properties. *)

Opt(S) == S \cup {None}

TypeOK ==
  /\ client \in [Clients -> {"first", "wanting", "second", "refused", "probing", "unlinking",
                             "spawning", "polling", "connected", "failed"}]
  /\ child \in [Clients -> Opt(Daemons)]
  /\ \A c \in Clients : client[c] = "polling" => child[c] \in Daemons
  /\ server \in [Clients -> Opt(Daemons)]
  /\ daemon \in [Daemons -> Alive \cup {"unborn", "refused", "ended"}]
  /\ spawnLock \in Opt(Clients)
  /\ daemonLock \in Opt(Daemons \cup Clients)
  /\ socket \in Opt(Daemons) \cup {Past}
  /\ epochFile \in Nat
  /\ epochRead \in [Daemons -> Nat]
  /\ epoch \in [Daemons -> Nat]
  /\ orderly \in BOOLEAN
  /\ blockers \subseteq Daemons \cup Clients
  /\ clobbered \subseteq Daemons

(* At most one daemon per corpus (crates/montre-daemon/README.md:43): clients  *)
(* whose daemons are up are connected to the same one, whatever was started   *)
(* by whom, killed, refused or removed in between.                          *)
NoSplitBrain ==
  \A c, e \in Clients :
    server[c] # None /\ server[e] # None /\ Listening(server[c]) /\ Listening(server[e]) =>
      server[c] = server[e]

(* Somebody who has met a daemon and finds another one can tell: "if it        *)
(* changed, all prior cached IDs are invalid" (README.md:49).  Two daemons    *)
(* never have the same epoch, and whoever is told one was told it first.     *)
EpochTells ==
  /\ \A d, e \in Daemons : epoch[d] = epoch[e] /\ epoch[d] # 0 => d = e
  /\ \A c \in Clients : server[c] # None => epoch[server[c]] # 0

Book ==
  INSTANCE OneDaemon WITH
    inCharge <- IF daemonLock \in Daemons THEN daemonLock ELSE None,
    last <- epochFile,
    given <- epoch

(* The lock and the epoch file implement OneDaemon.                          *)
OneInCharge == Book!Spec

(* A daemon that listens can be reached at the path, as long as whoever       *)
(* spawned it waits for it: the spawn lock keeps a second client from          *)
(* removing the socket between the probe of the daemon lock and the bind.    *)
ListeningIsReachable == orderly => \A d \in Daemons : Listening(d) => socket = d

(* connect_or_spawn returns, whoever dies on the way (acquire_spawn_lock      *)
(* waits without a limit).                                                  *)
EveryoneReturns == \A c \in Clients : <>(client[c] \in {"connected", "failed"})

(* A daemon is refused the lock because another daemon is there, not because  *)
(* a client is just looking whether one is: daemon_lock_held has to take the   *)
(* lock to see whether it is free, and the spawn lock keeps it away from the  *)
(* daemons that clients start.                                              *)
RefusedByDaemons == orderly => blockers \subseteq Daemons

(* What the documentation says and the code does not do.                     *)

(* "a saturated-but-alive daemon's socket is never clobbered by an            *)
(* over-eager client retry" (crates/montre-daemon/README.md:43).            *)
NeverClobbered == clobbered = {}

=============================================================================
