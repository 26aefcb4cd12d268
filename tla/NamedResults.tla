---------------------------- MODULE NamedResults ----------------------------
(***************************************************************************)
(* Query results in the montre daemon: the table of result handles, the     *)
(* names they are saved under, the file the names are kept in, and the      *)
(* daemon's crashes and restarts.                                          *)
(*                                                                         *)
(* Only the state thread changes the table and the names, one command at a   *)
(* time.  Queries run on the connection threads: a load of a name whose     *)
(* result is not in the table reads the record on the state thread, runs    *)
(* the query on the connection thread, and comes back with the result in a  *)
(* second command, with any number of other commands in between.            *)
(*                                                                         *)
(* Requests that are refused (unknown handle or name, name in use, result   *)
(* already materialized, bad query) change nothing and are no steps here.   *)
(***************************************************************************)
EXTENDS Naturals, FiniteSets

CONSTANTS
  Clients,     \* client connections, one connection thread each
  Names,       \* names results are saved under
  Queries,     \* queries clients run
  MaxHandles,  \* bound: results inserted in a behaviour
  MaxStarts,   \* bound: daemon starts in a behaviour
  None         \* "no value" (Option::None)

Handles == 1 .. MaxHandles

(* What is stored under a name (struct NamedResultRecord; the hit count and  *)
(* the creation time are data nothing depends on).                         *)
Record == [handle : Handles, cql : Queries]

(* A result in memory (struct ResultEntry).  Its hits are those of its query *)
(* on the corpus the daemon opened, which never changes while it runs, so   *)
(* the query stands for them.                                              *)
Entry == [cql : Queries, name : Names \cup {None},
          form : {"session", "query_backed", "materialized"}]

(* A load that is running its query again.                                  *)
Load == [name : Names, handle : Handles, cql : Queries]

ASSUME BoundsAssumption == MaxHandles \in Nat /\ MaxStarts \in Nat
ASSUME NoneAssumption ==
  /\ None \notin Names \cup Handles \cup Queries
  /\ None \notin Record
  /\ None \notin Entry
  /\ None \notin Load

VARIABLES
  up,        \* is the daemon running
  results,   \* handle -> its Entry in the table, or None
  names,     \* name -> its Record, or None (State::named_results)
  disk,      \* name -> its Record in named_results.jsonl, or None
  broken,    \* queries that cannot be run against the corpus that is open
  thread,    \* client -> its connection thread: pc, and the load it replays
  issued,    \* history: handle -> the query it was issued for, or None
  told,      \* history: name -> what the last answered save or delete said
  doubt,     \* history: names whose last save or delete went unanswered
  announced, \* history: what a subscriber to the notifications makes of them
  starts     \* history: daemon starts so far

promises == <<told, doubt>>
vars == <<up, results, names, disk, broken, thread, issued, told, doubt, announced, starts>>

-----------------------------------------------------------------------------
Empty(S) == [x \in S |-> None]
Idle == [pc |-> "idle", load |-> None]

Ready(c) == up /\ thread[c].pc = "idle"

(* The write of the file is complete once it has been renamed into place.   *)
Persist(file) == disk' = file

(* A daemon that stops, in an orderly way or not, writes nothing down; what   *)
(* it had in memory is gone.                                               *)
Down ==
  /\ up' = FALSE
  /\ results' = Empty(Handles)
  /\ names' = Empty(Names)
  /\ thread' = [c \in Clients |-> Idle]
  /\ announced' = {}
  /\ UNCHANGED <<broken, issued, starts>>

Answered(n, r) == told' = [told EXCEPT ![n] = r] /\ doubt' = doubt \ {n}
Unanswered(n) == doubt' = doubt \cup {n} /\ UNCHANGED told

-----------------------------------------------------------------------------
(* Commands. *)

(* query.execute: the query has run, its hits go into the table under a      *)
(* handle never used before (a UUID).                                      *)
InsertResult(c, q) ==
  \E h \in Handles :
    /\ Ready(c)
    /\ q \notin broken
    /\ issued[h] = None /\ \A g \in 1 .. h - 1 : issued[g] # None
    /\ results' = [results EXCEPT ![h] =
         [cql |-> q, name |-> None, form |-> "session"]]
    /\ issued' = [issued EXCEPT ![h] = q]
    /\ UNCHANGED <<up, names, disk, broken, thread, promises, announced, starts>>

WithRecord(n, h) == [names EXCEPT ![n] = [handle |-> h, cql |-> results[h].cql]]

MaySave(c, h, n) == Ready(c) /\ names[n] = None /\ results[h] # None

(* query.save: the file is written first, then the entry promoted, then the   *)
(* name added.  Saving the same handle under a second name is not refused.  *)
SaveResult(c, h, n) ==
  /\ MaySave(c, h, n)
  /\ Persist(WithRecord(n, h))
  /\ results' = [results EXCEPT ![h].name = n, ![h].form = "query_backed"]
  /\ names' = WithRecord(n, h)
  /\ Answered(n, WithRecord(n, h)[n])
  /\ announced' = announced \cup {n}
  /\ UNCHANGED <<up, broken, thread, issued, starts>>

(* Mutant: the answer is sent before the file is written.                    *)
SaveAnsweredEarly(c, h, n) ==
  /\ MaySave(c, h, n)
  /\ Answered(n, WithRecord(n, h)[n])
  /\ Down
  /\ UNCHANGED disk

(* The daemon dies after the file is in place and before the answer.         *)
SaveDies(c, h, n) ==
  /\ MaySave(c, h, n)
  /\ Persist(WithRecord(n, h))
  /\ Unanswered(n)
  /\ Down

(* Mutant: the entry and the name are there before the file is written.      *)
SaveFailsLate(c, h, n) ==
  /\ MaySave(c, h, n)
  /\ results' = [results EXCEPT ![h].name = n, ![h].form = "query_backed"]
  /\ names' = WithRecord(n, h)
  /\ UNCHANGED <<up, disk, broken, thread, issued, promises, announced, starts>>

(* The file cannot be written, or not be renamed into place: the save is      *)
(* refused and nothing has changed, but for a temporary file nobody reads.   *)
SaveFails(c, h, n) == MaySave(c, h, n) /\ UNCHANGED vars

MaterializeResult(c, n) ==
  /\ Ready(c) /\ names[n] # None
  /\ LET h == names[n].handle IN
     /\ results[h] # None
     /\ results[h].form # "materialized"
     /\ results' = [results EXCEPT ![h].form = "materialized"]
  /\ announced' = announced \cup {n}
  /\ UNCHANGED <<up, names, disk, broken, thread, issued, promises, starts>>

(* query.load of a name that is in the table answers from there and changes  *)
(* nothing; otherwise the connection thread goes off to run the query.       *)
LoadNamed(c, n) ==
  /\ Ready(c) /\ names[n] # None
  /\ results[names[n].handle] = None
  /\ thread' = [thread EXCEPT ![c] =
       [pc |-> "replaying",
        load |-> [name |-> n, handle |-> names[n].handle, cql |-> names[n].cql]]]
  /\ UNCHANGED <<up, results, names, disk, broken, issued, promises, announced, starts>>

(* The stored query no longer fits the corpus: the load is refused.          *)
ReplayFails(c) ==
  /\ thread[c].pc = "replaying"
  /\ thread[c].load.cql \in broken
  /\ thread' = [thread EXCEPT ![c] = Idle]
  /\ UNCHANGED <<up, results, names, disk, broken, issued, promises, announced, starts>>

(* The connection thread comes back with what it found, whatever became of    *)
(* the name and of the handle in the meantime.                              *)
InstallReplayedResult(c) ==
  LET load == thread[c].load IN
  /\ thread[c].pc = "replaying"
  /\ load.cql \notin broken
  /\ results' = [results EXCEPT ![load.handle] =
       [cql |-> load.cql, name |-> load.name, form |-> "query_backed"]]
  /\ thread' = [thread EXCEPT ![c] = Idle]
  /\ UNCHANGED <<up, names, disk, broken, issued, promises, announced, starts>>

WithoutRecord(n) == [names EXCEPT ![n] = None]

(* Mutant: nobody is notified.                                              *)
DeleteQuietly(c, n) ==
  /\ Ready(c) /\ names[n] # None
  /\ Persist(WithoutRecord(n))
  /\ names' = WithoutRecord(n)
  /\ results' = [results EXCEPT ![names[n].handle] = None]
  /\ Answered(n, None)
  /\ UNCHANGED <<up, broken, thread, issued, announced, starts>>

(* query.delete_named: the file is written without the name first; then the   *)
(* name and the entry go, whoever else refers to the entry.                 *)
DeleteNamed(c, n) ==
  /\ Ready(c) /\ names[n] # None
  /\ Persist(WithoutRecord(n))
  /\ names' = WithoutRecord(n)
  /\ results' = [results EXCEPT ![names[n].handle] = None]
  /\ Answered(n, None)
  /\ announced' = announced \ {n}
  /\ UNCHANGED <<up, broken, thread, issued, starts>>

DeleteDies(c, n) ==
  /\ Ready(c) /\ names[n] # None
  /\ Persist(WithoutRecord(n))
  /\ Unanswered(n)
  /\ Down

(* The file cannot be written without the name: it stays, there and in memory. *)
DeleteFails(c, n) == Ready(c) /\ names[n] # None /\ UNCHANGED vars

(* query.discard: only an unnamed result is let go.                          *)
DiscardHandle(c, h) ==
  /\ Ready(c)
  /\ results[h] # None
  /\ results[h].form = "session"
  /\ results' = [results EXCEPT ![h] = None]
  /\ UNCHANGED <<up, names, disk, broken, thread, issued, promises, announced, starts>>

(* The connection ends; State::unregister does not look at the table.        *)
Leave(c) ==
  /\ Ready(c)
  /\ thread' = [thread EXCEPT ![c].pc = "gone"]
  /\ UNCHANGED <<up, results, names, disk, broken, issued, promises, announced, starts>>

Crash == up /\ Down /\ UNCHANGED <<disk, promises>>

(* Mutant: the names are not read back.                                      *)
StartEmpty ==
  /\ ~up
  /\ starts < MaxStarts
  /\ up' = TRUE
  /\ names' = Empty(Names)
  /\ announced' = {}
  /\ starts' = starts + 1
  /\ broken' \in SUBSET Queries
  /\ UNCHANGED <<results, disk, thread, issued, promises>>

(* serve: the names are read back; the table starts empty.  The corpus may    *)
(* have been rebuilt since, and some queries no longer fit it.              *)
Start ==
  /\ ~up
  /\ starts < MaxStarts
  /\ up' = TRUE
  /\ names' = disk
  /\ announced' = {n \in Names : disk[n] # None}
  /\ starts' = starts + 1
  /\ broken' \in SUBSET Queries
  /\ UNCHANGED <<results, disk, thread, issued, promises>>

-----------------------------------------------------------------------------
Init ==
  /\ up = FALSE
  /\ results = Empty(Handles)
  /\ names = Empty(Names)
  /\ disk = Empty(Names)
  /\ broken = {}
  /\ thread = [c \in Clients |-> Idle]
  /\ issued = Empty(Handles)
  /\ told = Empty(Names)
  /\ doubt = {}
  /\ announced = {}
  /\ starts = 0

Request(c) ==
  \/ \E q \in Queries : InsertResult(c, q)
  \/ \E h \in Handles, n \in Names : SaveResult(c, h, n) \/ SaveDies(c, h, n) \/ SaveFails(c, h, n)
  \/ \E n \in Names :
       \/ MaterializeResult(c, n) \/ LoadNamed(c, n)
       \/ DeleteNamed(c, n) \/ DeleteDies(c, n) \/ DeleteFails(c, n)
  \/ \E h \in Handles : DiscardHandle(c, h)

Next ==
  \/ \E c \in Clients : Request(c) \/ ReplayFails(c) \/ InstallReplayedResult(c) \/ Leave(c)
  \/ Crash
  \/ Start

Spec == Init /\ [][Next]_vars

-----------------------------------------------------------------------------
(* Properties. *)

TypeOK ==
  /\ up \in BOOLEAN
  /\ results \in [Handles -> Entry \cup {None}]
  /\ names \in [Names -> Record \cup {None}]
  /\ disk \in [Names -> Record \cup {None}]
  /\ broken \in SUBSET Queries
  /\ thread \in [Clients -> [pc : {"idle", "replaying", "gone"}, load : Load \cup {None}]]
  /\ \A c \in Clients : thread[c].pc = "replaying" => thread[c].load \in Load
  /\ issued \in [Handles -> Queries \cup {None}]
  /\ told \in [Names -> Record \cup {None}]
  /\ doubt \in SUBSET Names
  /\ announced \in SUBSET Names
  /\ starts \in 0 .. MaxStarts

(* What the daemon believes saved is what a restart would find, after every   *)
(* command, answered, refused by a failing write or cut short (save_result,   *)
(* delete_named, replay).                                                   *)
MemoryMatchesDisk == up => names = disk

(* A handle stands for one query for ever: the entry in the table, every      *)
(* record that names it, in memory and in the file, and every replay under  *)
(* way for it agree with the query it was issued for, across restarts too.   *)
(* A client that pages through query.hits never meets another result.       *)
HandleKeepsQuery ==
  /\ \A h \in Handles : results[h] # None => issued[h] # None /\ results[h].cql = issued[h]
  /\ \A n \in Names : disk[n] # None =>
       issued[disk[n].handle] # None /\ disk[n].cql = issued[disk[n].handle]
  /\ \A c \in Clients : thread[c].pc = "replaying" =>
       LET load == thread[c].load IN
       issued[load.handle] # None /\ load.cql = issued[load.handle]

(* A result that is saved under some name is never held as an unnamed one, so *)
(* that query.discard cannot take it away (daemon-protocol.md, query.discard).*)
NamedNotDiscardable ==
  \A n \in Names : names[n] # None /\ results[names[n].handle] # None =>
    results[names[n].handle].form # "session"

(* A subscriber that hears every notification.named_results_changed knows     *)
(* which names are in use (notify_named_results).                           *)
AnnouncedNames == up => announced = {n \in Names : names[n] # None}

Durable == INSTANCE DurableNames WITH book <- disk, Records <- Record

(* A client that was answered about a name was told the truth, whatever       *)
(* crashed since: what it saved is in the file, what it deleted is not, until *)
(* somebody saves or deletes that name again.                               *)
AnswersHold == Durable!Promise

(* The file is the book of DurableNames: no command, crash or restart changes *)
(* more of it than the one name that is saved or deleted.                   *)
NamesAreDurable == Durable!Spec

(* What the documentation says and the code does not do.                    *)

(* "Any handle previously issued for this named result silently invalidates"  *)
(* (docs/daemon-protocol.md:626): an entry that was named is there only as  *)
(* long as a name refers to it.                                             *)
DeletedHandlesInvalid ==
  \A h \in Handles : results[h] # None /\ results[h].form # "session" =>
    \E n \in Names : names[n] # None /\ names[n].handle = h

=============================================================================
