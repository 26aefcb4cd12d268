------------------------- MODULE NamedResultsProofs -------------------------
(* What holds of the result table, the names and their file for any number   *)
(* of clients, names, queries, handles and restarts, and that the file       *)
(* implements DurableNames.                                                *)
EXTENDS NamedResults, TLAPS

(* A daemon that is down holds nothing in memory.                            *)
DownEmpty ==
  ~up => /\ results = Empty(Handles)
         /\ names = Empty(Names)
         /\ thread = [c \in Clients |-> Idle]

(* The inductive invariant.  The two facts about the whole of the memory are  *)
(* what the others need at a restart and at a load: a record read from the   *)
(* names is the record in the file.                                         *)
TablesInv ==
  /\ TypeOK
  /\ DownEmpty
  /\ MemoryMatchesDisk
  /\ HandleKeepsQuery
  /\ NamedNotDiscardable
  /\ AnnouncedNames
  /\ AnswersHold

(* The daemon starts down, with no file.                                     *)
LEMMA InitTables == Init => TablesInv
<1> SUFFICES ASSUME Init PROVE TablesInv
  OBVIOUS
<1>1. TypeOK
  <2>1. /\ thread \in [Clients -> [pc : {"idle", "replaying", "gone"}, load : Load \cup {None}]]
        /\ \A c \in Clients : thread[c].pc = "replaying" => thread[c].load \in Load
    BY DEF Init, Idle
  <2>2. starts \in 0 .. MaxStarts
    BY BoundsAssumption DEF Init
  <2>3. QED
    BY <2>1, <2>2 DEF Init, TypeOK, Empty
<1>2. DownEmpty /\ MemoryMatchesDisk /\ AnnouncedNames
  BY DEF Init, DownEmpty, MemoryMatchesDisk, AnnouncedNames
<1>3. HandleKeepsQuery /\ NamedNotDiscardable
  BY DEF Init, HandleKeepsQuery, NamedNotDiscardable, Empty, Idle
<1>4. AnswersHold
  BY DEF Init, AnswersHold, Durable!Promise
<1>5. QED
  BY <1>1, <1>2, <1>3, <1>4 DEF TablesInv

(* A record made from an entry of the table is one for the query its handle   *)
(* was issued for.                                                         *)
LEMMA RecordOfEntry ==
  ASSUME TablesInv, NEW c \in Clients, NEW h \in Handles, NEW n \in Names, MaySave(c, h, n)
  PROVE  /\ WithRecord(n, h) \in [Names -> Record \cup {None}]
         /\ WithRecord(n, h)[n] \in Record
         /\ WithRecord(n, h)[n].handle = h
         /\ WithRecord(n, h)[n].cql = issued[h]
         /\ issued[h] # None
         /\ \A m \in Names \ {n} : WithRecord(n, h)[m] = disk[m]
         /\ WithRecord(n, h) = [disk EXCEPT ![n] = WithRecord(n, h)[n]]
         /\ disk[n] = None
<1>1. results[h] \in Entry /\ results[h] # None
  BY DEF MaySave, TablesInv, TypeOK
<1>2. issued[h] # None /\ results[h].cql = issued[h]
  BY <1>1 DEF TablesInv, HandleKeepsQuery
<1>3. [handle |-> h, cql |-> results[h].cql] \in Record
  BY <1>1 DEF Entry, Record
<1>4. names = disk /\ names \in [Names -> Record \cup {None}] /\ names[n] = None
  BY DEF MaySave, Ready, TablesInv, MemoryMatchesDisk, TypeOK
<1>5. QED
  BY <1>2, <1>3, <1>4 DEF WithRecord

(* A daemon that goes down keeps the invariant, given that the file is sound  *)
(* and nobody was told a lie about it.                                      *)
LEMMA DownKeeps ==
  ASSUME TablesInv, Down,
         disk' \in [Names -> Record \cup {None}],
         told' \in [Names -> Record \cup {None}],
         doubt' \in SUBSET Names,
         \A n \in Names : disk'[n] # None =>
           issued[disk'[n].handle] # None /\ disk'[n].cql = issued[disk'[n].handle],
         AnswersHold'
  PROVE  TablesInv'
<1>1. /\ up' = FALSE
      /\ results' = Empty(Handles)
      /\ names' = Empty(Names)
      /\ thread' = [c \in Clients |-> Idle]
      /\ announced' = {}
      /\ UNCHANGED <<broken, issued, starts>>
  BY DEF Down
<1>2. TypeOK'
  BY <1>1 DEF TablesInv, TypeOK, Empty, Idle
<1>3. DownEmpty' /\ MemoryMatchesDisk' /\ AnnouncedNames'
  BY <1>1 DEF DownEmpty, MemoryMatchesDisk, AnnouncedNames, Empty
<1>4. HandleKeepsQuery'
  BY <1>1 DEF HandleKeepsQuery, Empty, Idle
<1>5. NamedNotDiscardable'
  BY <1>1 DEF NamedNotDiscardable, Empty
<1>6. QED
  BY <1>2, <1>3, <1>4, <1>5 DEF TablesInv

(* query.execute keeps the invariant: its handle is new to everybody.         *)
LEMMA InsertKeeps ==
  ASSUME TablesInv, NEW c \in Clients, NEW q \in Queries, InsertResult(c, q)
  PROVE  TablesInv'
<1> DEFINE entry == [cql |-> q, name |-> None, form |-> "session"]
<1>1. PICK h \in Handles :
        /\ issued[h] = None
        /\ results' = [results EXCEPT ![h] = entry]
        /\ issued' = [issued EXCEPT ![h] = q]
        /\ UNCHANGED <<up, names, disk, broken, thread, promises, announced, starts>>
  BY DEF InsertResult
<1>2. up /\ names = disk
  BY DEF InsertResult, Ready, TablesInv, MemoryMatchesDisk
<1>3. /\ entry \in Entry /\ entry # None /\ entry.form = "session"
      /\ q # None /\ entry.cql = q
  <2>1. entry \in Entry
    BY DEF Entry
  <2>2. QED
    BY <2>1, NoneAssumption
<1>4. results[h] = None
  BY <1>1 DEF TablesInv, HandleKeepsQuery
<1> HIDE DEF entry
<1>5. TypeOK'
  BY <1>1, <1>3 DEF TablesInv, TypeOK, promises
<1>6. DownEmpty' /\ MemoryMatchesDisk' /\ AnnouncedNames' /\ AnswersHold'
  BY <1>1, <1>2 DEF TablesInv, DownEmpty, MemoryMatchesDisk, AnnouncedNames, AnswersHold,
       Durable!Promise, promises
<1>7. HandleKeepsQuery'
  BY <1>1, <1>3 DEF TablesInv, TypeOK, HandleKeepsQuery, Record, Load
<1>8. NamedNotDiscardable'
  BY <1>1, <1>2, <1>3 DEF TablesInv, TypeOK, HandleKeepsQuery, NamedNotDiscardable, Record
<1>9. QED
  BY <1>5, <1>6, <1>7, <1>8 DEF TablesInv

(* query.save keeps the invariant: the record it writes is for the query of   *)
(* the handle, and the entry it promotes is no longer an unnamed one.        *)
LEMMA SaveKeeps ==
  ASSUME TablesInv, NEW c \in Clients, NEW h \in Handles, NEW n \in Names,
         SaveResult(c, h, n)
  PROVE  TablesInv'
<1> DEFINE file == WithRecord(n, h)
           entry == [results[h] EXCEPT !.name = n, !.form = "query_backed"]
<1>1. /\ MaySave(c, h, n)
      /\ disk' = file /\ names' = file
      /\ results' = [results EXCEPT ![h] = entry]
      /\ told' = [told EXCEPT ![n] = file[n]] /\ doubt' = doubt \ {n}
      /\ announced' = announced \cup {n}
      /\ UNCHANGED <<up, broken, thread, issued, starts>>
  BY DEF SaveResult, Persist, Answered
<1>2. /\ file \in [Names -> Record \cup {None}]
      /\ file[n] \in Record /\ file[n] # None
      /\ file[n].handle = h /\ file[n].cql = issued[h] /\ issued[h] # None
      /\ \A m \in Names \ {n} : file[m] = disk[m]
  BY <1>1, RecordOfEntry, NoneAssumption
<1>3. up /\ names = disk
  BY <1>1 DEF MaySave, Ready, TablesInv, MemoryMatchesDisk
<1>4. entry \in Entry /\ entry # None /\ entry.cql = results[h].cql /\ entry.form = "query_backed"
  <2>1. results[h] \in Entry
    BY <1>1 DEF MaySave, TablesInv, TypeOK
  <2>2. entry \in Entry /\ entry.cql = results[h].cql /\ entry.form = "query_backed"
    BY <2>1 DEF Entry
  <2>3. QED
    BY <2>2, NoneAssumption
<1>5. results[h] # None
  BY <1>1 DEF MaySave
<1> HIDE DEF file, entry
<1>6. TypeOK'
  BY <1>1, <1>2, <1>4 DEF TablesInv, TypeOK
<1>7. DownEmpty' /\ MemoryMatchesDisk'
  BY <1>1, <1>3 DEF DownEmpty, MemoryMatchesDisk
<1>8. AnnouncedNames'
  <2>1. announced = {m \in Names : names[m] # None}
    BY <1>3 DEF TablesInv, AnnouncedNames
  <2>2. QED
    BY <1>1, <1>2, <1>3, <2>1 DEF AnnouncedNames
<1>9. AnswersHold'
  BY <1>1, <1>2, <1>3 DEF TablesInv, TypeOK, AnswersHold, Durable!Promise
<1>10. HandleKeepsQuery'
  BY <1>1, <1>2, <1>4, <1>5 DEF TablesInv, TypeOK, HandleKeepsQuery
<1>11. NamedNotDiscardable'
  BY <1>1, <1>2, <1>3, <1>4 DEF TablesInv, TypeOK, NamedNotDiscardable, Record
<1>12. QED
  BY <1>6, <1>7, <1>8, <1>9, <1>10, <1>11 DEF TablesInv

(* So does a save cut short by a crash: nobody was told anything.             *)
LEMMA SaveDiesKeeps ==
  ASSUME TablesInv, NEW c \in Clients, NEW h \in Handles, NEW n \in Names,
         SaveDies(c, h, n)
  PROVE  TablesInv'
<1>1. /\ MaySave(c, h, n) /\ Down
      /\ disk' = WithRecord(n, h)
      /\ told' = told /\ doubt' = doubt \cup {n}
  BY DEF SaveDies, Persist, Unanswered
<1>2. /\ WithRecord(n, h) \in [Names -> Record \cup {None}]
      /\ WithRecord(n, h)[n] \in Record
      /\ WithRecord(n, h)[n].handle = h
      /\ WithRecord(n, h)[n].cql = issued[h] /\ issued[h] # None
      /\ \A m \in Names \ {n} : WithRecord(n, h)[m] = disk[m]
  BY <1>1, RecordOfEntry
<1>3. AnswersHold'
  BY <1>1, <1>2 DEF TablesInv, AnswersHold, Durable!Promise
<1>4. /\ told' \in [Names -> Record \cup {None}]
      /\ doubt' \in SUBSET Names
  BY <1>1 DEF TablesInv, TypeOK
<1>5. \A m \in Names : disk'[m] # None =>
        issued[disk'[m].handle] # None /\ disk'[m].cql = issued[disk'[m].handle]
  BY <1>1, <1>2 DEF TablesInv, HandleKeepsQuery
<1>6. QED
  BY <1>1, <1>2, <1>3, <1>4, <1>5, DownKeeps

(* query.delete_named takes a name out of the file and of the memory.         *)
LEMMA DeleteKeeps ==
  ASSUME TablesInv, NEW c \in Clients, NEW n \in Names, DeleteNamed(c, n)
  PROVE  TablesInv'
<1> DEFINE h == names[n].handle
<1>1. /\ Ready(c) /\ names[n] # None
      /\ disk' = [names EXCEPT ![n] = None] /\ names' = [names EXCEPT ![n] = None]
      /\ results' = [results EXCEPT ![h] = None]
      /\ told' = [told EXCEPT ![n] = None] /\ doubt' = doubt \ {n}
      /\ announced' = announced \ {n}
      /\ UNCHANGED <<up, broken, thread, issued, starts>>
  BY DEF DeleteNamed, Persist, Answered, WithoutRecord
<1>2. up /\ names = disk /\ announced = {m \in Names : names[m] # None}
  BY <1>1 DEF Ready, TablesInv, MemoryMatchesDisk, AnnouncedNames
<1>3. h \in Handles
  BY <1>1 DEF TablesInv, TypeOK, Record
<1> HIDE DEF h
<1>4. TypeOK'
  BY <1>1, <1>3 DEF TablesInv, TypeOK
<1>5. DownEmpty' /\ MemoryMatchesDisk'
  BY <1>1, <1>2 DEF DownEmpty, MemoryMatchesDisk
<1>6. AnnouncedNames'
  BY <1>1, <1>2 DEF TablesInv, TypeOK, AnnouncedNames
<1>7. AnswersHold'
  BY <1>1, <1>2 DEF TablesInv, TypeOK, AnswersHold, Durable!Promise
<1>8. HandleKeepsQuery'
  BY <1>1, <1>2, <1>3 DEF TablesInv, TypeOK, HandleKeepsQuery
<1>9. NamedNotDiscardable'
  BY <1>1, <1>3 DEF TablesInv, TypeOK, NamedNotDiscardable, Record
<1>10. QED
  BY <1>4, <1>5, <1>6, <1>7, <1>8, <1>9 DEF TablesInv

(* So does a delete cut short by a crash.                                    *)
LEMMA DeleteDiesKeeps ==
  ASSUME TablesInv, NEW c \in Clients, NEW n \in Names, DeleteDies(c, n)
  PROVE  TablesInv'
<1>1. /\ Down
      /\ disk' = [disk EXCEPT ![n] = None]
      /\ told' = told /\ doubt' = doubt \cup {n}
  BY DEF DeleteDies, Persist, Unanswered, WithoutRecord, Ready, TablesInv, MemoryMatchesDisk
<1>2. /\ disk' \in [Names -> Record \cup {None}]
      /\ \A m \in Names \ {n} : disk'[m] = disk[m]
      /\ disk'[n] = None
  BY <1>1 DEF TablesInv, TypeOK
<1>3. AnswersHold'
  BY <1>1, <1>2 DEF TablesInv, AnswersHold, Durable!Promise
<1>4. /\ told' \in [Names -> Record \cup {None}]
      /\ doubt' \in SUBSET Names
  BY <1>1 DEF TablesInv, TypeOK
<1>5. \A m \in Names : disk'[m] # None =>
        issued[disk'[m].handle] # None /\ disk'[m].cql = issued[disk'[m].handle]
  BY <1>2 DEF TablesInv, HandleKeepsQuery
<1>6. QED
  BY <1>1, <1>2, <1>3, <1>4, <1>5, DownKeeps

(* What a change of one entry of the table has to respect.                   *)
LEMMA EntryKeeps ==
  ASSUME TablesInv, up, NEW h \in Handles, NEW e \in Entry \cup {None},
         results' = [results EXCEPT ![h] = e],
         UNCHANGED <<up, names, disk, issued, told, doubt>>,
         e # None => issued[h] # None /\ e.cql = issued[h],
         e # None => e.form # "session",
         NEW d \in Clients, thread' = thread \/ thread' = [thread EXCEPT ![d] = Idle]
  PROVE  HandleKeepsQuery' /\ NamedNotDiscardable' /\ DownEmpty' /\ MemoryMatchesDisk'
         /\ AnswersHold'
<1>1. HandleKeepsQuery'
  BY DEF TablesInv, TypeOK, HandleKeepsQuery, Idle
<1>2. NamedNotDiscardable'
  BY DEF TablesInv, TypeOK, NamedNotDiscardable, Record
<1>3. DownEmpty' /\ MemoryMatchesDisk'
  BY DEF TablesInv, DownEmpty, MemoryMatchesDisk
<1>4. AnswersHold'
  BY DEF TablesInv, AnswersHold, Durable!Promise
<1>5. QED
  BY <1>1, <1>2, <1>3, <1>4

(* query.materialize changes the form of an entry that is there.             *)
LEMMA MaterializeKeeps ==
  ASSUME TablesInv, NEW c \in Clients, NEW n \in Names, MaterializeResult(c, n)
  PROVE  TablesInv'
<1> DEFINE h == names[n].handle
           e == [results[h] EXCEPT !.form = "materialized"]
<1>1. /\ Ready(c) /\ names[n] # None /\ results[h] # None
      /\ results' = [results EXCEPT ![h] = e]
      /\ announced' = announced \cup {n}
      /\ UNCHANGED <<up, names, disk, broken, thread, issued, promises, starts>>
  BY DEF MaterializeResult
<1>2. up /\ h \in Handles
  BY <1>1 DEF Ready, TablesInv, TypeOK, Record
<1>3. e \in Entry /\ e.cql = results[h].cql /\ e.form = "materialized"
  <2>1. results[h] \in Entry
    BY <1>1, <1>2 DEF TablesInv, TypeOK
  <2>2. QED
    BY <2>1 DEF Entry
<1>4. issued[h] # None /\ e.cql = issued[h]
  BY <1>1, <1>2, <1>3 DEF TablesInv, HandleKeepsQuery
<1> HIDE DEF h, e
<1>5. TypeOK'
  BY <1>1, <1>2, <1>3 DEF TablesInv, TypeOK, promises
<1>6. HandleKeepsQuery' /\ NamedNotDiscardable' /\ DownEmpty' /\ MemoryMatchesDisk' /\ AnswersHold'
  BY <1>1, <1>2, <1>3, <1>4, EntryKeeps DEF promises
<1>7. AnnouncedNames'
  BY <1>1, <1>2 DEF TablesInv, TypeOK, AnnouncedNames
<1>8. QED
  BY <1>5, <1>6, <1>7 DEF TablesInv

(* A replay brings back the query the handle was issued for.                 *)
LEMMA InstallKeeps ==
  ASSUME TablesInv, NEW c \in Clients, InstallReplayedResult(c)
  PROVE  TablesInv'
<1> DEFINE load == thread[c].load
           h == load.handle
           e == [cql |-> load.cql, name |-> load.name, form |-> "query_backed"]
<1>1. /\ thread[c].pc = "replaying"
      /\ results' = [results EXCEPT ![h] = e]
      /\ thread' = [thread EXCEPT ![c] = Idle]
      /\ UNCHANGED <<up, names, disk, broken, issued, promises, announced, starts>>
  BY DEF InstallReplayedResult
<1>2. load \in Load
  BY <1>1 DEF TablesInv, TypeOK
<1>3. h \in Handles /\ e \in Entry /\ e.form = "query_backed" /\ e.cql = load.cql
  BY <1>2 DEF Load, Entry
<1>4. issued[h] # None /\ load.cql = issued[h]
  BY <1>1 DEF TablesInv, HandleKeepsQuery
<1>5. up
  BY <1>1 DEF TablesInv, DownEmpty, Idle
<1>6. Idle \in [pc : {"idle", "replaying", "gone"}, load : Load \cup {None}]
      /\ Idle.pc # "replaying"
  BY DEF Idle
<1> HIDE DEF load, h, e
<1>7. TypeOK'
  BY <1>1, <1>3, <1>6 DEF TablesInv, TypeOK, promises
<1>8. HandleKeepsQuery' /\ NamedNotDiscardable' /\ DownEmpty' /\ MemoryMatchesDisk' /\ AnswersHold'
  BY <1>1, <1>3, <1>4, <1>5, EntryKeeps DEF promises
<1>9. AnnouncedNames'
  BY <1>1 DEF TablesInv, AnnouncedNames
<1>10. QED
  BY <1>7, <1>8, <1>9 DEF TablesInv

(* query.discard takes one entry out of the table.                           *)
LEMMA DiscardKeeps ==
  ASSUME TablesInv, NEW c \in Clients, NEW h \in Handles, DiscardHandle(c, h)
  PROVE  TablesInv'
<1>1. /\ up
      /\ results' = [results EXCEPT ![h] = None]
      /\ UNCHANGED <<up, names, disk, broken, thread, issued, promises, announced, starts>>
  BY DEF DiscardHandle, Ready
<1>2. TypeOK'
  BY <1>1 DEF TablesInv, TypeOK, promises
<1>3. HandleKeepsQuery' /\ NamedNotDiscardable' /\ DownEmpty' /\ MemoryMatchesDisk' /\ AnswersHold'
  BY <1>1, EntryKeeps DEF promises
<1>4. AnnouncedNames'
  BY <1>1 DEF TablesInv, AnnouncedNames
<1>5. QED
  BY <1>2, <1>3, <1>4 DEF TablesInv

(* Loads that go off or fail, and connections that end, touch the threads     *)
(* only; a load that goes off takes with it what the name's record says.    *)
LEMMA ThreadKeeps ==
  ASSUME TablesInv, NEW c \in Clients,
         ReplayFails(c) \/ Leave(c) \/ \E n \in Names : LoadNamed(c, n)
  PROVE  TablesInv'
<1>0. UNCHANGED <<up, results, names, disk, broken, issued, told, doubt, announced, starts>>
  BY DEF ReplayFails, Leave, LoadNamed, promises
<1>1. PICK t \in [pc : {"idle", "replaying", "gone"}, load : Load \cup {None}] :
        /\ thread' = [thread EXCEPT ![c] = t]
        /\ t.pc = "replaying" =>
             /\ t.load \in Load
             /\ issued[t.load.handle] # None
             /\ t.load.cql = issued[t.load.handle]
  <2>1. CASE ReplayFails(c)
    <3>1. Idle \in [pc : {"idle", "replaying", "gone"}, load : Load \cup {None}]
          /\ Idle.pc # "replaying"
      BY DEF Idle
    <3>2. QED
      BY <2>1, <3>1 DEF ReplayFails
  <2>2. CASE Leave(c)
    <3> DEFINE t == [thread[c] EXCEPT !.pc = "gone"]
    <3>1. thread[c] \in [pc : {"idle", "replaying", "gone"}, load : Load \cup {None}]
      BY DEF TablesInv, TypeOK
    <3>2. t \in [pc : {"idle", "replaying", "gone"}, load : Load \cup {None}] /\ t.pc = "gone"
      BY <3>1
    <3>3. thread' = [thread EXCEPT ![c] = t]
      BY <2>2 DEF Leave
    <3>4. QED
      BY <3>2, <3>3
  <2>3. ASSUME NEW n \in Names, LoadNamed(c, n)
        PROVE  \E t \in [pc : {"idle", "replaying", "gone"}, load : Load \cup {None}] :
                 /\ thread' = [thread EXCEPT ![c] = t]
                 /\ t.pc = "replaying" =>
                      /\ t.load \in Load
                      /\ issued[t.load.handle] # None
                      /\ t.load.cql = issued[t.load.handle]
    <3> DEFINE l == [name |-> n, handle |-> names[n].handle, cql |-> names[n].cql]
               t == [pc |-> "replaying", load |-> l]
    <3>1. names[n] # None /\ names = disk /\ names[n] \in Record
      BY <2>3 DEF LoadNamed, Ready, TablesInv, MemoryMatchesDisk, TypeOK
    <3>2. l \in Load
      BY <3>1 DEF Load, Record
    <3>3. issued[names[n].handle] # None /\ names[n].cql = issued[names[n].handle]
      BY <3>1 DEF TablesInv, HandleKeepsQuery
    <3>4. thread' = [thread EXCEPT ![c] = t]
      BY <2>3 DEF LoadNamed
    <3>5. l.handle = names[n].handle /\ l.cql = names[n].cql
      OBVIOUS
    <3> HIDE DEF l
    <3>6. t \in [pc : {"idle", "replaying", "gone"}, load : Load \cup {None}] /\ t.load = l
      BY <3>2
    <3> HIDE DEF t
    <3>7. QED
      BY <3>2, <3>3, <3>4, <3>5, <3>6
  <2>4. QED
    BY <2>1, <2>2, <2>3
<1>2. up
  BY DEF ReplayFails, Leave, LoadNamed, Ready, TablesInv, DownEmpty, Idle
<1>3. TypeOK'
  BY <1>0, <1>1 DEF TablesInv, TypeOK
<1>4. HandleKeepsQuery'
  BY <1>0, <1>1 DEF TablesInv, TypeOK, HandleKeepsQuery
<1>5. DownEmpty' /\ MemoryMatchesDisk' /\ AnnouncedNames' /\ NamedNotDiscardable'
  BY <1>0, <1>2 DEF TablesInv, DownEmpty, MemoryMatchesDisk, AnnouncedNames, NamedNotDiscardable
<1>6. AnswersHold'
  BY <1>0 DEF TablesInv, AnswersHold, Durable!Promise
<1>7. QED
  BY <1>3, <1>4, <1>5, <1>6 DEF TablesInv

(* A crash leaves the file alone.                                            *)
LEMMA CrashKeeps == TablesInv /\ Crash => TablesInv'
<1> SUFFICES ASSUME TablesInv, Crash PROVE TablesInv'
  OBVIOUS
<1>1. Down /\ disk' = disk /\ told' = told /\ doubt' = doubt
  BY DEF Crash, promises
<1>2. issued' = issued
  BY <1>1 DEF Down
<1>3. AnswersHold'
  BY <1>1 DEF TablesInv, AnswersHold, Durable!Promise
<1>4. QED
  BY <1>1, <1>3, DownKeeps DEF TablesInv, TypeOK, HandleKeepsQuery

(* A start takes the names from the file.                                    *)
LEMMA StartKeeps == TablesInv /\ Start => TablesInv'
<1> SUFFICES ASSUME TablesInv, Start PROVE TablesInv'
  OBVIOUS
<1>1. /\ up' = TRUE /\ names' = disk /\ disk' = disk
      /\ announced' = {n \in Names : disk[n] # None}
      /\ UNCHANGED <<results, thread, issued, told, doubt>>
  BY DEF Start, promises
<1>2. results = Empty(Handles)
  BY DEF Start, TablesInv, DownEmpty
<1>3. TypeOK'
  BY <1>1, BoundsAssumption DEF Start, TablesInv, TypeOK
<1>4. DownEmpty' /\ MemoryMatchesDisk' /\ AnnouncedNames'
  BY <1>1 DEF DownEmpty, MemoryMatchesDisk, AnnouncedNames
<1>5. HandleKeepsQuery'
  BY <1>1 DEF TablesInv, HandleKeepsQuery
<1>6. NamedNotDiscardable'
  BY <1>1, <1>2 DEF TablesInv, TypeOK, NamedNotDiscardable, Empty, Record
<1>7. AnswersHold'
  BY <1>1 DEF TablesInv, AnswersHold, Durable!Promise
<1>8. QED
  BY <1>3, <1>4, <1>5, <1>6, <1>7 DEF TablesInv

(* Every step keeps the invariant.                                           *)
LEMMA NextTables == TablesInv /\ [Next]_vars => TablesInv'
<1> SUFFICES ASSUME TablesInv, [Next]_vars PROVE TablesInv'
  OBVIOUS
<1>1. CASE UNCHANGED vars
  BY <1>1 DEF vars, TablesInv, TypeOK, DownEmpty, MemoryMatchesDisk, HandleKeepsQuery,
       NamedNotDiscardable, AnnouncedNames, AnswersHold, Durable!Promise
<1>0. ASSUME NEW c \in Clients,
             (\E h \in Handles, n \in Names : SaveFails(c, h, n)) \/ \E n \in Names : DeleteFails(c, n)
      PROVE  TablesInv'
  BY <1>0, <1>1 DEF SaveFails, DeleteFails
<1>2. ASSUME NEW c \in Clients, Request(c)
      PROVE  TablesInv'
  BY <1>0, <1>2, InsertKeeps, SaveKeeps, SaveDiesKeeps, MaterializeKeeps, ThreadKeeps, DeleteKeeps,
     DeleteDiesKeeps, DiscardKeeps DEF Request
<1>3. ASSUME NEW c \in Clients, ReplayFails(c) \/ InstallReplayedResult(c) \/ Leave(c)
      PROVE  TablesInv'
  BY <1>3, ThreadKeeps, InstallKeeps
<1>4. CASE Crash \/ Start
  BY <1>4, CrashKeeps, StartKeeps
<1>5. QED
  BY <1>1, <1>2, <1>3, <1>4 DEF Next

(* The invariant holds in every reachable state.                             *)
LEMMA TablesCorrect == Spec => []TablesInv
BY InitTables, NextTables, PTL DEF Spec

(* The tables, the file and the threads keep their shape.                    *)
THEOREM TypeCorrect == Spec => []TypeOK
<1>1. TablesInv => TypeOK
  BY DEF TablesInv
<1>2. QED
  BY <1>1, TablesCorrect, PTL

(* What the daemon believes saved is what a restart would find.              *)
THEOREM DiskCurrent == Spec => []MemoryMatchesDisk
<1>1. TablesInv => MemoryMatchesDisk
  BY DEF TablesInv
<1>2. QED
  BY <1>1, TablesCorrect, PTL

(* A handle stands for one query, in memory, in the file, in every replay     *)
(* under way, and across any number of restarts.                            *)
THEOREM HandlesStable == Spec => []HandleKeepsQuery
<1>1. TablesInv => HandleKeepsQuery
  BY DEF TablesInv
<1>2. QED
  BY <1>1, TablesCorrect, PTL

(* query.discard cannot take away a saved result.                            *)
THEOREM NamedKept == Spec => []NamedNotDiscardable
<1>1. TablesInv => NamedNotDiscardable
  BY DEF TablesInv
<1>2. QED
  BY <1>1, TablesCorrect, PTL

(* Answers about names are true, whatever crashes.                           *)
THEOREM AnswersTrue == Spec => []AnswersHold
<1>1. TablesInv => AnswersHold
  BY DEF TablesInv
<1>2. QED
  BY <1>1, TablesCorrect, PTL

(* A subscriber that hears every notification.named_results_changed knows      *)
(* which names are in use.                                                  *)
THEOREM AnnouncementsTrue == Spec => []AnnouncedNames
<1>1. TablesInv => AnnouncedNames
  BY DEF TablesInv
<1>2. QED
  BY <1>1, TablesCorrect, PTL

-----------------------------------------------------------------------------
(* Refinement: the file is the book.                                         *)

(* A step that leaves the file and the answers alone is a stutter.            *)
BookKept == UNCHANGED <<disk, told, doubt>>

(* Every step saves one name, deletes one, or is a stutter.                   *)
LEMMA NextRefines ==
  ASSUME TablesInv, [Next]_vars
  PROVE  [Durable!Next]_(Durable!vars)
<1>1. BookKept => UNCHANGED Durable!vars
  BY DEF BookKept, Durable!vars
<1>2. ASSUME NEW c \in Clients, NEW h \in Handles, NEW n \in Names,
             SaveResult(c, h, n) \/ SaveDies(c, h, n)
      PROVE  Durable!Next
  <2> DEFINE r == WithRecord(n, h)[n]
  <2>1. MaySave(c, h, n) /\ disk' = WithRecord(n, h)
        /\ (Answered(n, r) \/ Unanswered(n))
    BY <1>2 DEF SaveResult, SaveDies, Persist
  <2>2. r \in Record /\ disk[n] = None /\ disk' = [disk EXCEPT ![n] = r]
    BY <2>1, RecordOfEntry
  <2> HIDE DEF r
  <2>3. Durable!Save(n, r)
    BY <2>1, <2>2 DEF Answered, Unanswered, Durable!Save, Durable!Write
  <2>4. QED
    BY <2>2, <2>3 DEF Durable!Next
<1>3. ASSUME NEW c \in Clients, NEW n \in Names, DeleteNamed(c, n) \/ DeleteDies(c, n)
      PROVE  Durable!Next
  <2>1. /\ Ready(c) /\ names[n] # None
        /\ disk' = [names EXCEPT ![n] = None]
        /\ (Answered(n, None) \/ Unanswered(n))
    BY <1>3 DEF DeleteNamed, DeleteDies, Persist, WithoutRecord
  <2>2. names = disk
    BY <2>1 DEF Ready, TablesInv, MemoryMatchesDisk
  <2>3. Durable!Delete(n)
    BY <2>1, <2>2 DEF Answered, Unanswered, Durable!Delete, Durable!Write
  <2>4. QED
    BY <2>3 DEF Durable!Next
<1>4. ASSUME NEW c \in Clients, Request(c)
      PROVE  Durable!Next \/ BookKept
  <2>1. ASSUME NEW h \in Handles, NEW n \in Names, SaveFails(c, h, n)
        PROVE  BookKept
    BY <2>1 DEF SaveFails, vars, promises, BookKept
  <2>2. ASSUME NEW n \in Names, DeleteFails(c, n)
        PROVE  BookKept
    BY <2>2 DEF DeleteFails, vars, promises, BookKept
  <2>3. QED
    BY <1>2, <1>3, <1>4, <2>1, <2>2
       DEF Request, InsertResult, MaterializeResult, LoadNamed, DiscardHandle, promises, BookKept
<1>5. ASSUME NEW c \in Clients, ReplayFails(c) \/ InstallReplayedResult(c) \/ Leave(c)
      PROVE  BookKept
  BY <1>5 DEF ReplayFails, InstallReplayedResult, Leave, promises, BookKept
<1>6. CASE Crash \/ Start \/ UNCHANGED vars
  BY <1>1, <1>6 DEF Crash, Start, vars, promises, BookKept
<1>7. QED
  BY <1>1, <1>4, <1>5, <1>6 DEF Next

(* The daemon's names implement the durable book of DurableNames.             *)
THEOREM ImplementsDurableNames == Spec => NamesAreDurable
<1>1. Init => Durable!Init
  BY DEF Init, Empty, Durable!Init
<1>2. TablesInv /\ [Next]_vars => [Durable!Next]_(Durable!vars)
  BY NextRefines
<1>3. QED
  BY <1>1, <1>2, TablesCorrect, PTL DEF Spec, NamesAreDurable, Durable!Spec

=============================================================================
