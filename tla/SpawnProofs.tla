----------------------------- MODULE SpawnProofs -----------------------------
(* Theorems about Spawn, for any number of clients and daemons: one daemon at *)
(* a time is in charge, no two daemons have the same epoch, and no two clients *)
(* are served by different daemons.                                          *)
EXTENDS Spawn, TLAPS

-----------------------------------------------------------------------------
(* The invariant.                                                           *)

(* Who is in charge holds the daemon lock, and nobody else does but a client  *)
(* that is looking whether it is free.                                      *)
LockSound ==
  /\ \A d \in Daemons : daemon[d] \in InCharge <=> daemonLock = d
  /\ \A c \in Clients : client[c] = "probing" <=> daemonLock = c

Before == {"unborn", "opening", "refused", "locked", "probed", "read"}
Numbered == {"bumped", "unlinked", "listening", "closing", "removed"}

(* A daemon that has read the epoch file is the only one that will write it;  *)
(* the file is never behind any epoch given out.                            *)
EpochsSound ==
  /\ \A d \in Daemons : daemon[d] = "read" => epochRead[d] = epochFile
  /\ \A d \in Daemons : daemon[d] \in Before => epoch[d] = 0
  /\ \A d \in Daemons : daemon[d] \in Numbered => epoch[d] # 0
  /\ \A d \in Daemons : epoch[d] <= epochFile

SpawnInv == TypeOK /\ LockSound /\ EpochsSound /\ EpochTells

LEMMA InitSound == Init => SpawnInv
<1> SUFFICES ASSUME Init PROVE SpawnInv
  OBVIOUS
<1>1. TypeOK
  BY DEF Init, TypeOK, Opt, Alive, Starting
<1>2. LockSound
  BY ConstantsAssumption DEF Init, LockSound, InCharge
<1>3. EpochsSound /\ EpochTells
  BY DEF Init, EpochsSound, EpochTells, Before, Numbered
<1>4. QED
  BY <1>1, <1>2, <1>3 DEF SpawnInv

(* A step of a daemon that hands out no epoch.                               *)
Quietly(d) ==
  TryLock(d) \/ ProbeSocket(d) \/ ReadEpoch(d) \/ UnlinkStale(d) \/ Bind(d) \/ StopListening(d)
  \/ RemoveSocket(d) \/ Return(d) \/ Dies(d) \/ ServeDirectly(d)

(* A daemon takes the lock only if it is free, and lets go of its own only.   *)
LEMMA QuietKeeps ==
  ASSUME SpawnInv, NEW d \in Daemons, Quietly(d)
  PROVE  SpawnInv'
<1>1. TypeOK'
  <2> USE DEF SpawnInv, TypeOK, Opt, Alive, Starting, InCharge, Released, Become, clientVars, files,
              history, daemonVars
  <2>1. CASE TryLock(d) \/ ProbeSocket(d) \/ ReadEpoch(d)
    BY <2>1 DEF TryLock, ProbeSocket, ReadEpoch, Listening
  <2>2. CASE UnlinkStale(d) \/ Bind(d) \/ ServeDirectly(d)
    BY <2>2 DEF UnlinkStale, Bind, ServeDirectly, Listening
  <2>3. CASE StopListening(d) \/ RemoveSocket(d)
    BY <2>3 DEF StopListening, RemoveSocket
  <2>4. CASE Return(d) \/ Dies(d)
    BY <2>4 DEF Return, Dies
  <2>5. QED
    BY <2>1, <2>2, <2>3, <2>4 DEF Quietly
<1>2. LockSound'
  BY ConstantsAssumption
     DEF Quietly, SpawnInv, TypeOK, LockSound, Opt, Alive, Starting, InCharge, Released, Become,
         Listening, TryLock, ProbeSocket, ReadEpoch, UnlinkStale, Bind, StopListening, RemoveSocket,
         Return, Dies, ServeDirectly, clientVars, files, history, daemonVars
<1>3. EpochsSound'
  BY DEF Quietly, SpawnInv, TypeOK, EpochsSound, Before, Numbered, Alive, Starting, InCharge, Become,
         Listening, TryLock, ProbeSocket, ReadEpoch, UnlinkStale, Bind, StopListening, RemoveSocket,
         Return, Dies, ServeDirectly, clientVars, files, history, daemonVars
<1>4. EpochTells'
  BY DEF Quietly, SpawnInv, EpochTells, TryLock, ProbeSocket, ReadEpoch, UnlinkStale, Bind,
         StopListening, RemoveSocket, Return, Dies, ServeDirectly, clientVars, files, history
<1>5. QED
  BY <1>1, <1>2, <1>3, <1>4 DEF SpawnInv

(* The epoch that is handed out is larger than any before.                   *)
LEMMA WriteKeeps ==
  ASSUME SpawnInv, NEW d \in Daemons, WriteEpoch(d)
  PROVE  SpawnInv'
<1>1. /\ daemon[d] = "read" /\ epochRead[d] = epochFile /\ epochFile \in Nat
      /\ epochFile' = epochFile + 1
      /\ epoch' = [epoch EXCEPT ![d] = epochFile + 1]
      /\ daemon' = [daemon EXCEPT ![d] = "bumped"]
      /\ UNCHANGED <<client, child, server, spawnLock, daemonLock, socket, epochRead, orderly,
                     blockers, clobbered>>
  BY DEF WriteEpoch, SpawnInv, TypeOK, EpochsSound, Become, clientVars, history
<1>2. TypeOK'
  BY <1>1 DEF SpawnInv, TypeOK, Alive, Starting
<1>3. LockSound'
  BY <1>1 DEF SpawnInv, TypeOK, LockSound, InCharge
<1>4. EpochsSound'
  <2>1. \A e \in Daemons : daemon[e] = "read" => e = d
    BY <1>1 DEF SpawnInv, LockSound, InCharge
  <2>2. QED
    BY <1>1, <2>1 DEF SpawnInv, TypeOK, EpochsSound, Before, Numbered
<1>5. EpochTells'
  BY <1>1 DEF SpawnInv, TypeOK, EpochsSound, EpochTells, Opt
<1>6. QED
  BY <1>2, <1>3, <1>4, <1>5 DEF SpawnInv

(* A client that connects finds a daemon that has its epoch; one that looks   *)
(* at the daemon lock takes it only if it is free.                           *)
LEMMA ClientKeeps ==
  ASSUME SpawnInv, NEW c \in Clients, ConnectOrSpawn(c) \/ ClientDies(c)
  PROVE  SpawnInv'
<1> USE DEF ConnectOrSpawn, FirstTry, AcquireSpawnLock, SecondTry, ProbeLock, LetGo, UnlinkSocket,
            SpawnDaemon, Poll, GiveUp, ClientDies, Connects, Fails, Goes, Reachable, Listening,
            Released, Become, daemonVars, files, history
<1>1. TypeOK'
  <2> USE DEF SpawnInv, TypeOK, Opt
  <2>1. CASE SpawnDaemon(c)
    BY <2>1 DEF Alive, Starting
  <2>2. CASE FirstTry(c) \/ AcquireSpawnLock(c) \/ SecondTry(c)
    BY <2>2
  <2>3. CASE ProbeLock(c) \/ LetGo(c) \/ UnlinkSocket(c)
    BY <2>3
  <2>4. CASE Poll(c) \/ GiveUp(c) \/ ClientDies(c)
    BY <2>4
  <2>5. QED
    BY <2>1, <2>2, <2>3, <2>4
<1>2. LockSound'
  BY ConstantsAssumption DEF SpawnInv, TypeOK, LockSound, InCharge, Opt
<1>3. EpochsSound'
  BY DEF SpawnInv, TypeOK, EpochsSound, Before, Numbered
<1>4. EpochTells'
  BY DEF SpawnInv, TypeOK, EpochsSound, EpochTells, Numbered
<1>5. QED
  BY <1>1, <1>2, <1>3, <1>4 DEF SpawnInv

LEMMA NextSound == SpawnInv /\ [Next]_vars => SpawnInv'
<1> SUFFICES ASSUME SpawnInv, [Next]_vars PROVE SpawnInv'
  OBVIOUS
<1>1. CASE \E d \in Daemons : Serve(d) \/ StopListening(d) \/ Dies(d) \/ ServeDirectly(d)
  BY <1>1, QuietKeeps, WriteKeeps DEF Serve, Quietly
<1>2. CASE \E c \in Clients : ConnectOrSpawn(c) \/ ClientDies(c)
  BY <1>2, ClientKeeps
<1>3. CASE UNCHANGED vars
  BY <1>3 DEF vars, SpawnInv, TypeOK, LockSound, EpochsSound, EpochTells
<1>4. QED
  BY <1>1, <1>2, <1>3 DEF Next

LEMMA SpawnSound == Spec => []SpawnInv
<1>1. QED
  BY InitSound, NextSound, PTL DEF Spec

-----------------------------------------------------------------------------
(* Theorems. *)

(* Locks, files, processes and history keep their shape.                     *)
THEOREM TypeCorrect == Spec => []TypeOK
<1>1. SpawnInv => TypeOK
  BY DEF SpawnInv
<1>2. QED
  BY <1>1, SpawnSound, PTL

(* No two daemons have the same epoch, and who serves a client has one.       *)
THEOREM EpochsTell == Spec => []EpochTells
<1>1. SpawnInv => EpochTells
  BY DEF SpawnInv
<1>2. QED
  BY <1>1, SpawnSound, PTL

(* No two clients are served by different daemons: a daemon that listens       *)
(* holds the lock.                                                          *)
THEOREM SplitBrainExcluded == Spec => []NoSplitBrain
<1>1. SpawnInv => NoSplitBrain
  BY DEF SpawnInv, TypeOK, LockSound, NoSplitBrain, Listening, InCharge, Opt
<1>2. QED
  BY <1>1, SpawnSound, PTL

(* Every step of the daemons is a step of OneDaemon or leaves it alone.       *)
LEMMA DaemonRefines ==
  ASSUME SpawnInv, NEW d \in Daemons, Quietly(d) \/ WriteEpoch(d)
  PROVE  [Book!Next]_(Book!vars)
<1> USE ConstantsAssumption
<1>1. CASE TryLock(d)
  BY <1>1 DEF TryLock, Book!Next, Book!TakeOver, Book!vars
<1>2. CASE ProbeSocket(d)
  <2>1. daemonLock = d
    BY <1>2 DEF ProbeSocket, SpawnInv, LockSound, InCharge
  <2>2. QED
    BY <1>2, <2>1 DEF ProbeSocket, Book!Next, Book!StepDown, Book!vars
<1>3. CASE WriteEpoch(d)
  <2>1. /\ daemonLock = d /\ epoch[d] = 0
        /\ epochFile' = epochFile + 1
        /\ epoch' = [epoch EXCEPT ![d] = epochFile']
        /\ daemonLock' = daemonLock
    BY <1>3 DEF WriteEpoch, SpawnInv, LockSound, EpochsSound, InCharge, Before
  <2>2. Book!GiveEpoch(d)
    BY <2>1 DEF Book!GiveEpoch
  <2>3. QED
    BY <2>2 DEF Book!Next
<1>4. CASE Return(d) \/ Dies(d)
  <2>1. daemonLock' = Released(daemonLock, d) /\ UNCHANGED <<epochFile, epoch>>
    BY <1>4 DEF Return, Dies
  <2>2. QED
    BY <2>1 DEF Released, Book!Next, Book!StepDown, Book!vars
<1>5. CASE \/ ReadEpoch(d) \/ UnlinkStale(d) \/ Bind(d) \/ StopListening(d) \/ RemoveSocket(d)
           \/ ServeDirectly(d)
  BY <1>5 DEF ReadEpoch, UnlinkStale, Bind, StopListening, RemoveSocket, ServeDirectly, files,
              Book!vars
<1>6. QED
  BY <1>1, <1>2, <1>3, <1>4, <1>5 DEF Quietly

(* A client that takes or leaves the daemon lock puts nobody in charge.       *)
LEMMA ClientRefines ==
  ASSUME SpawnInv, NEW c \in Clients, ConnectOrSpawn(c) \/ ClientDies(c)
  PROVE  UNCHANGED Book!vars
<1>1. UNCHANGED <<epochFile, epoch>>
  BY DEF ConnectOrSpawn, FirstTry, AcquireSpawnLock, SecondTry, ProbeLock, LetGo, UnlinkSocket,
         SpawnDaemon, Poll, GiveUp, ClientDies, Connects, daemonVars, files
<1>2. daemonLock' = daemonLock \/ {daemonLock, daemonLock'} \subseteq Clients \cup {None}
  BY DEF ConnectOrSpawn, FirstTry, AcquireSpawnLock, SecondTry, ProbeLock, LetGo, UnlinkSocket,
         SpawnDaemon, Poll, GiveUp, ClientDies, Connects, Released, files, SpawnInv, LockSound
<1>3. QED
  BY <1>1, <1>2, ConstantsAssumption DEF Book!vars

(* The lock and the epoch file implement OneDaemon: one daemon at a time is    *)
(* in charge, and every epoch is larger than those before.                   *)
THEOREM ImplementsOneDaemon == Spec => OneInCharge
<1>1. Init => Book!Init
  BY ConstantsAssumption DEF Init, Book!Init
<1>2. SpawnInv /\ [Next]_vars => [Book!Next]_(Book!vars)
  <2> SUFFICES ASSUME SpawnInv, [Next]_vars PROVE [Book!Next]_(Book!vars)
    OBVIOUS
  <2>1. CASE \E d \in Daemons : Serve(d) \/ StopListening(d) \/ Dies(d) \/ ServeDirectly(d)
    BY <2>1, DaemonRefines DEF Serve, Quietly
  <2>2. CASE \E c \in Clients : ConnectOrSpawn(c) \/ ClientDies(c)
    BY <2>2, ClientRefines
  <2>3. CASE UNCHANGED vars
    BY <2>3 DEF vars, Book!vars
  <2>4. QED
    BY <2>1, <2>2, <2>3 DEF Next
<1>3. QED
  BY <1>1, <1>2, SpawnSound, PTL DEF Spec, OneInCharge, Book!Spec

-----------------------------------------------------------------------------
(* Who holds the spawn lock, and what the others may rely on meanwhile.       *)

Holding == {"second", "refused", "probing", "unlinking", "spawning", "polling"}

SpawnLockSound == \A c \in Clients : client[c] \in Holding <=> spawnLock = c

(* As long as things are orderly: a daemon that is starting is waited for by   *)
(* the client that holds the spawn lock; a client that has found nobody to     *)
(* listen is right until its own child listens.                             *)
Expected ==
  \A d \in Daemons :
    daemon[d] \in Starting => \E c \in Clients : client[c] = "polling" /\ child[c] = d
NobodyElse ==
  \A c \in Clients, d \in Daemons :
    client[c] \in Holding \ {"second"} /\ Listening(d) => client[c] = "polling" /\ child[c] = d
AtThePath == \A d \in Daemons : Listening(d) => socket = d

OrderSound == orderly => Expected /\ NobodyElse /\ AtThePath /\ blockers \subseteq Daemons
OrderInv == SpawnInv /\ SpawnLockSound /\ OrderSound

LEMMA InitOrder == Init => SpawnLockSound /\ OrderSound
BY ConstantsAssumption
   DEF Init, SpawnLockSound, OrderSound, Expected, NobodyElse, AtThePath, Holding, Starting, Listening

(* A client takes the spawn lock when it is free, and keeps it until it        *)
(* returns or dies.                                                         *)
LEMMA SpawnLockKept ==
  ASSUME SpawnInv, SpawnLockSound, Next
  PROVE  SpawnLockSound'
<1>1. CASE \E d \in Daemons : Serve(d) \/ StopListening(d) \/ Dies(d) \/ ServeDirectly(d)
  <2>1. UNCHANGED <<client, spawnLock>>
    BY <1>1 DEF Serve, TryLock, ProbeSocket, ReadEpoch, WriteEpoch, UnlinkStale, Bind, RemoveSocket,
                Return, StopListening, Dies, ServeDirectly, clientVars, files
  <2>2. QED
    BY <2>1 DEF SpawnLockSound
<1>2. ASSUME NEW c \in Clients, ConnectOrSpawn(c) \/ ClientDies(c)
      PROVE  SpawnLockSound'
  <2> USE ConstantsAssumption DEF SpawnInv, TypeOK, SpawnLockSound, Holding, Goes, Released, Opt, files
  <2>1. CASE FirstTry(c) \/ AcquireSpawnLock(c)
    BY <2>1 DEF FirstTry, AcquireSpawnLock, Connects
  <2>2. CASE SecondTry(c) \/ Poll(c)
    BY <2>2 DEF SecondTry, Poll, Connects
  <2>3. CASE ProbeLock(c) \/ LetGo(c) \/ UnlinkSocket(c)
    BY <2>3 DEF ProbeLock, LetGo, UnlinkSocket, Fails
  <2>4. CASE SpawnDaemon(c) \/ GiveUp(c) \/ ClientDies(c)
    BY <2>4 DEF SpawnDaemon, GiveUp, ClientDies, Fails
  <2>5. QED
    BY <1>2, <2>1, <2>2, <2>3, <2>4 DEF ConnectOrSpawn
<1>3. QED
  BY <1>1, <1>2 DEF Next

(* A daemon that begins to listen is the child of the client that waits; who   *)
(* touches the socket holds the daemon lock, so that nobody else listens.     *)
LEMMA DaemonOrder ==
  ASSUME OrderInv, NEW d \in Daemons, Serve(d) \/ StopListening(d) \/ Dies(d) \/ ServeDirectly(d)
  PROVE  OrderSound'
<1> SUFFICES ASSUME orderly' PROVE (Expected /\ NobodyElse /\ AtThePath /\ blockers \subseteq Daemons)'
  BY DEF OrderSound
<1> USE DEF Serve, TryLock, ProbeSocket, ReadEpoch, WriteEpoch, UnlinkStale, Bind, RemoveSocket,
            Return, StopListening, Dies, ServeDirectly, clientVars, files, history, Become
<1>1. SpawnInv /\ SpawnLockSound /\ Expected /\ NobodyElse /\ AtThePath /\ blockers \subseteq Daemons
      /\ UNCHANGED <<client, child, orderly>>
  BY DEF OrderInv, OrderSound
<1>2. PICK pc : /\ daemon' = [daemon EXCEPT ![d] = pc]
                /\ pc \in Starting => daemon[d] \in Starting
                /\ pc = "listening" => daemon[d] = "unlinked" /\ socket' = d
                /\ socket' # socket => daemon[d] \in InCharge \ {"listening"}
  BY DEF Starting, InCharge, Listening
<1>3. daemon \in [Daemons -> Alive \cup {"unborn", "refused", "ended"}]
  BY <1>1 DEF SpawnInv, TypeOK
<1>4. Expected'
  BY <1>1, <1>2, <1>3 DEF Expected
<1>5. NobodyElse'
  <2>1. ASSUME NEW c \in Clients, client[c] \in Holding \ {"second"}, pc = "listening"
        PROVE  client[c] = "polling" /\ child[c] = d
    <3>1. PICK e \in Clients : client[e] = "polling" /\ child[e] = d
      BY <1>1, <1>2, <2>1 DEF Expected, Starting
    <3>2. e = c
      BY <1>1, <2>1, <3>1 DEF SpawnLockSound, Holding
    <3>3. QED
      BY <3>1, <3>2
  <2>2. QED
    BY <1>1, <1>2, <1>3, <2>1 DEF NobodyElse, Listening
<1>6. AtThePath'
  <2>1. ASSUME NEW e \in Daemons, e # d, Listening(e)
        PROVE  socket' = e
    <3>1. daemon[d] \notin InCharge
      BY <1>1, <2>1 DEF SpawnInv, LockSound, InCharge, Listening
    <3>2. QED
      BY <1>1, <1>2, <2>1, <3>1 DEF AtThePath
  <2>2. QED
    BY <1>1, <1>2, <1>3, <2>1 DEF AtThePath, Listening, InCharge
<1>7. (blockers \subseteq Daemons)'
  <2>1. CASE TryLock(d)
    <3>1. PICK c \in Clients : client[c] = "polling"
      BY <1>1, <2>1 DEF Expected, Starting
    <3>2. daemonLock \notin Clients
      BY <1>1, <3>1 DEF SpawnInv, LockSound, SpawnLockSound, Holding
    <3>3. QED
      BY <1>1, <2>1, <3>2 DEF SpawnInv, TypeOK, Opt
  <2>2. CASE ~TryLock(d)
    BY <1>1, <2>2
  <2>3. QED
    BY <2>1, <2>2
<1>8. QED
  BY <1>4, <1>5, <1>6, <1>7

(* A client that looks, removes or spawns holds the spawn lock, and nobody      *)
(* listens or is about to.                                                  *)
LEMMA ClientOrder ==
  ASSUME OrderInv, NEW c \in Clients, ConnectOrSpawn(c) \/ ClientDies(c)
  PROVE  OrderSound'
<1> SUFFICES ASSUME orderly' PROVE (Expected /\ NobodyElse /\ AtThePath /\ blockers \subseteq Daemons)'
  BY DEF OrderSound
<1>1. orderly /\ blockers' = blockers /\ ~ClientDies(c)
  BY DEF ConnectOrSpawn, FirstTry, AcquireSpawnLock, SecondTry, ProbeLock, LetGo, UnlinkSocket,
         SpawnDaemon, Poll, GiveUp, ClientDies, Connects, history
<1>2. SpawnInv /\ SpawnLockSound /\ Expected /\ NobodyElse /\ AtThePath /\ blockers \subseteq Daemons
  BY <1>1 DEF OrderInv, OrderSound
<1>3. TypeOK
  BY <1>2 DEF SpawnInv
<1>4. ASSUME client[c] \in Holding \ {"polling"}, NEW d \in Daemons
      PROVE  daemon[d] \notin Starting
  <2>1. \A e \in Clients : client[e] # "polling"
    BY <1>2, <1>4 DEF SpawnLockSound, Holding
  <2>2. QED
    BY <1>2, <2>1 DEF Expected
<1> USE DEF Goes, Fails, Connects, daemonVars, files
<1>5. CASE FirstTry(c) \/ AcquireSpawnLock(c)
  <2>1. PICK pc \in {"connected", "wanting", "second"} :
          /\ client' = [client EXCEPT ![c] = pc]
          /\ UNCHANGED <<child, daemon, socket>> /\ client[c] \in {"first", "wanting"}
    BY <1>5 DEF FirstTry, AcquireSpawnLock
  <2>2. QED
    BY <1>1, <1>2, <1>3, <2>1 DEF TypeOK, Expected, NobodyElse, AtThePath, Holding, Listening
<1>6. CASE SecondTry(c)
  <2>1. PICK pc \in {"connected", "refused", "spawning"} :
          /\ client' = [client EXCEPT ![c] = pc]
          /\ UNCHANGED <<child, daemon, socket>> /\ client[c] = "second"
          /\ pc # "connected" => ~Reachable
    BY <1>6 DEF SecondTry
  <2>2. pc # "connected" => \A d \in Daemons : ~Listening(d)
    BY <1>2, <2>1 DEF AtThePath, Reachable
  <2>3. QED
    BY <1>1, <1>2, <1>3, <2>1, <2>2 DEF TypeOK, Expected, NobodyElse, AtThePath, Holding, Listening
<1>7. CASE ProbeLock(c) \/ LetGo(c) \/ UnlinkSocket(c)
  <2>1. PICK pc \in {"probing", "failed", "unlinking", "spawning"} :
          /\ client' = [client EXCEPT ![c] = pc]
          /\ UNCHANGED <<child, daemon>> /\ client[c] \in Holding \ {"second", "polling"}
    BY <1>7 DEF ProbeLock, LetGo, UnlinkSocket, Holding
  <2>2. \A d \in Daemons : ~Listening(d)
    BY <1>2, <2>1 DEF NobodyElse
  <2>3. QED
    BY <1>1, <1>2, <1>3, <2>1, <2>2 DEF TypeOK, Expected, NobodyElse, AtThePath, Holding, Listening
<1>8. CASE SpawnDaemon(c)
  <2>1. client[c] = "spawning" /\ socket' = socket
    BY <1>8 DEF SpawnDaemon
  <2>2. \A d \in Daemons : ~Listening(d) /\ daemon[d] \notin Starting
    BY <1>2, <1>4, <2>1 DEF NobodyElse, Holding
  <2>3. CASE UNCHANGED <<child, daemon>> /\ client' = [client EXCEPT ![c] = "failed"]
    BY <1>1, <1>2, <1>3, <2>1, <2>2, <2>3 DEF TypeOK, Expected, NobodyElse, AtThePath, Listening
  <2>4. ASSUME NEW d \in Daemons, daemon' = [daemon EXCEPT ![d] = "opening"],
               child' = [child EXCEPT ![c] = d], client' = [client EXCEPT ![c] = "polling"]
        PROVE  (Expected /\ NobodyElse /\ AtThePath)'
    BY <1>3, <2>2, <2>4 DEF TypeOK, Expected, NobodyElse, AtThePath, Listening
  <2>5. QED
    BY <1>1, <1>2, <1>8, <2>3, <2>4 DEF SpawnDaemon, Become
<1>9. CASE Poll(c)
  <2>1. /\ client[c] = "polling" /\ Reachable
        /\ client' = [client EXCEPT ![c] = "connected"] /\ UNCHANGED <<child, daemon, socket>>
    BY <1>9 DEF Poll
  <2>2. ASSUME NEW d \in Daemons, daemon[d] \in Starting
        PROVE  FALSE
    <3>1. PICK e \in Clients : client[e] = "polling" /\ child[e] = d
      BY <1>2, <2>2 DEF Expected
    <3>2. e = c
      BY <1>2, <2>1, <3>1 DEF SpawnLockSound, Holding
    <3>3. child[c] = socket
      BY <1>2, <2>1 DEF NobodyElse, Holding, Reachable
    <3>4. QED
      BY <2>1, <2>2, <3>1, <3>2, <3>3 DEF Reachable, Listening, Starting
  <2>3. QED
    BY <1>1, <1>2, <1>3, <2>1, <2>2 DEF TypeOK, Expected, NobodyElse, AtThePath, Holding, Listening
<1>10. CASE GiveUp(c)
  <2>1. /\ client[c] = "polling" /\ daemon[child[c]] \notin Starting
        /\ client' = [client EXCEPT ![c] = "failed"] /\ UNCHANGED <<child, daemon, socket>>
    BY <1>10 DEF GiveUp
  <2>2. QED
    BY <1>1, <1>2, <1>3, <2>1 DEF TypeOK, Expected, NobodyElse, AtThePath, Holding, Listening
<1>11. QED
  BY <1>1, <1>5, <1>6, <1>7, <1>8, <1>9, <1>10 DEF ConnectOrSpawn

LEMMA OrderKept == OrderInv /\ [Next]_vars => OrderInv'
<1> SUFFICES ASSUME OrderInv, [Next]_vars PROVE OrderInv'
  OBVIOUS
<1>1. SpawnInv'
  BY NextSound DEF OrderInv
<1>2. CASE Next
  <2>1. SpawnLockSound'
    BY <1>2, SpawnLockKept DEF OrderInv
  <2>2. OrderSound'
    BY <1>2, DaemonOrder, ClientOrder DEF Next
  <2>3. QED
    BY <1>1, <2>1, <2>2 DEF OrderInv
<1>3. CASE UNCHANGED vars
  BY <1>1, <1>3 DEF vars, OrderInv, SpawnLockSound, OrderSound, Expected, NobodyElse, AtThePath, Listening
<1>4. QED
  BY <1>2, <1>3

LEMMA OrderAlways == Spec => []OrderInv
<1>1. Init => OrderInv
  BY InitSound, InitOrder DEF OrderInv
<1>2. QED
  BY <1>1, OrderKept, PTL DEF Spec

(* Whatever clients and daemons there are, the spawn lock keeps a second        *)
(* client from removing the socket of a daemon somebody waits for.            *)
THEOREM SocketKept == Spec => []ListeningIsReachable
<1>1. OrderInv => ListeningIsReachable
  BY DEF OrderInv, OrderSound, AtThePath, ListeningIsReachable
<1>2. QED
  BY <1>1, OrderAlways, PTL

(* No client that only looks at the daemon lock makes a daemon give up that    *)
(* another client has started.                                              *)
THEOREM LookingIsHarmless == Spec => []RefusedByDaemons
<1>1. OrderInv => RefusedByDaemons
  BY DEF OrderInv, OrderSound, RefusedByDaemons
<1>2. QED
  BY <1>1, OrderAlways, PTL

=============================================================================
