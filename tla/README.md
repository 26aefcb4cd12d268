# Montre: specifications, model checking and proofs

Montre (`src/`) is a corpus query engine: a Rust workspace with an index, a
builder, a query language, and a per-corpus daemon through which editor plugins,
viewers and other front ends share one open corpus and follow each other's focus.
Two kinds of behaviour are hard in it. In the daemon: many threads, bounded queues,
clients that vanish, several processes racing over a handful of files, handles that
outlive the process that issued them. In the engine: a query that goes through a parser, a
planner and two ways of evaluating sequences, over indexes that were merged from many
files, and has to give what the text says.

Paths below are relative to `src/`; daemon files without a directory are in
`crates/montre-daemon/src/`.

## 1. Inventory

| component | state | operations | interacts with |
|---|---|---|---|
| coordination (`state.rs`, `dispatch.rs`, `handlers/{session,coupler,subscription}.rs`) | `State`: `connections` (the roster), `couplers`, `subscriptions`, two id counters; per connection an `RpcContext`, an outbound `sync_channel` of 256, a reader and a writer thread | register, unregister, update_label, roster, publish_interest, coupler create / remove / list, subscribe, unsubscribe | connection threads send `Command`s to the single state thread and wait for the answer; the state thread pushes notifications straight into outbound queues with `try_send` |
| named results (`state.rs`, `handlers/query.rs`, `storage.rs`) | `results` (handle -> hits), `named_results` (name -> record), the file `named_results.jsonl` | execute, save, materialize, load, list_named, delete_named, discard, restart | a load runs its query on the connection thread between two commands |
| idle timeout, shutdown and exit (`state.rs`, `shutdown.rs`, `signals.rs`, `lib.rs`, `dispatch.rs`) | shutdown flag, listener, list of open streams, `roster_emptied_at`, detached closer thread | daemon.shutdown, SIGINT/SIGTERM, idle timeout, panic of the state thread | every thread of the daemon |
| exclusion, epochs, sockets, spawn (`storage.rs`, `lib.rs`, `client.rs`) | daemon lock, spawn lock, socket file, epoch file | serve, connect_or_spawn | several client processes and daemons race over four files |
| client library (`client.rs`) and framing (`dispatch.rs`) | pending map, one reply channel per call, notification queue, `reader_closed`, `closed` | request, publish_interest, notifications, close; frames of a length and a payload | a reader thread answers what the application's thread waits for; at the other end are the connection's reader and writer threads, and the monitor, which writes to the same socket |
| corpus, text and alignment handlers (`handlers/`) | none | reads of an immutable corpus, with clamps and errors | index |
| query language (`crates/montre-query`) | none; within one execution the active set of partial matches, a hash map | parse, plan, execute, count, populate_context | index |
| index (`crates/montre-index`) | forward, inverted and span indexes, lexicon, sentence ids, multiword tokens, spacing, empty nodes, alignments: each in memory while it is built, and a file that does not change | build, merge, write, open, look up | builder, query, handlers |
| builder (`crates/montre-build`) | one sink per file, component and corpus, a streaming writer of the forward index, the directory being written | read CoNLL-U, merge, write, align | replaces a directory that a daemon may be opening |
| command line (`montre-cli`), bindings (`montre-ffi`, `-py`), `montre-bench`, `tools/` | none of their own | wrappers | all of the above |

Hard behaviours, and what makes each component correct:

* **Coordination.** Commands of different connections interleave; the state thread
  queues notifications ahead of an answer that the connection thread has not queued
  yet; queues fill up; clients vanish or stop reading; a connection may end by end of
  file, an unreadable frame, an explicit `session.unregister` or a panicking handler.
  Correct means: couplers never outlive their ends, never close a cycle and stay
  compatible; roster and threads agree on owners; a follower is up to date unless it
  was told too much to hold; the answer to `coupler.remove` is final; a subscriber can
  follow the roster; nothing waits for a slow client.
* **Named results.** Replays land late, the daemon crashes between the file and the
  answer, handles survive restarts. Correct means: what a client was told is in the
  file, a subscriber knows the names in use, and a handle stands for one query for ever.
* **Shutdown.** Four causes race to begin it, and six kinds of threads have to end, most
  of which wait for another. Correct means: clients are told once and before their
  connection is closed, no served connection is left open, the roster is empty when the
  state thread returns, an idle daemon ends in time and a client that is there keeps it
  alive, and the process exits whatever its clients do.
* **Spawn.** Clients and daemons die between any two steps; every probe is stale when
  it is used. Correct means: one daemon in charge at a time, no epoch given out twice,
  a daemon that listens can be reached, and `connect_or_spawn` returns.
* **Client library.** An answer races the timeout and the end of the connection, the table
  is cleared while a call enters it, notifications pile up in front of answers. Correct
  means: each call is answered once or told that the connection has closed, and returns;
  nothing is left in the table; notifications arrive in order; close returns.
* **Query engine.** A hand-written parser; labels, quantifiers and restrictions nested in
  any way; two evaluations of a sequence, one of them over hash maps; counts that skip
  enumeration; work split by document. Correct means: the tree is the one that was
  written, and the hits are the matches the plain definition gives, found or counted, with
  labels or without.
* **Builder, index and readers.** Every position, sentence number and document number is
  moved when sinks are merged; a rebuild replaces a directory file by file. Correct means:
  what opens is one build, and whatever is asked of it is what the files of its source
  say.

## 2. Modules

| module | what it is |
|---|---|
| `Coordination` | roster, couplers, subscriptions, connection threads, outbound queues |
| `DurableNames` | abstract specification: a durable book of names |
| `NamedResults` | result table, names, file, crashes, replays |
| `Shutdown` | how the daemon ends, and the threads that have to find their way out |
| `OneDaemon` | abstract specification: one daemon in charge, each epoch given once |
| `Spawn` | connect_or_spawn against serve, over two locks, the socket and the epoch file |
| `ClientRpc` | a client, its reader thread, the connection's threads in the daemon, frames |
| `Parser`, `Planner`, `Executor` | the three stages of a query, each extending the one before |
| `QuerySemantics` | the reference: how a tree is written, and which spans it matches |
| `Queries` | a query on its way through the stages, as a state machine |
| `Conllu`, `Indexes`, `Builder` | what a build reads, the indexes, the sinks and their merges |
| `CorpusCalls` | the accessors of a corpus and the calls of the daemon that read it |
| `CorpusText` | the reference: what the files of a source say, without any index |
| `Library` | a directory that is built, built over, opened and asked |
| `MCCoordination`, `MCNamedResults`, `MCShutdown`, `MCSpawn`, `MCClientRpc`, `MCQueries`, `MCLibrary` | instances for TLC |
| `CoordinationProofs`, `QueueProofs` (what the queues bring), `NamedResultsProofs`, `ShutdownProofs`, `SpawnProofs`, `ClientRpcProofs`, `LibraryProofs`, `IndexProofs` (lookups, the forward index written and read back, and what the sinks of a build hold) | theorems |

`Coordination`, `NamedResults`, `Shutdown`, `Spawn` and `ClientRpc` are five views of the
daemon that each keep what the others abstract: `Shutdown` takes from `Coordination` that
roster and threads agree on owners, `Spawn` from `Shutdown` that a daemon which listens may
end, `ClientRpc` from `Coordination` that a notification is queued or dropped. `Library` and
`Queries` meet in the corpus record: what `IndexesTokens` and `IndexesSentences` of
`CorpusText` say of an opened corpus is what `Executor` takes a corpus to be.

In every module an operator whose comment begins with "Mutant:" is a plausible slip in
the code, next to the definition it would replace; no specification uses it.

### Coordination

`roster`, `couplers`, `subscriptions`, `nextProcessId`, `nextCouplerId` are the fields
of `struct State`. `session[c]` is a connection thread: where it is in its loop
(`reading`, `replying`: it holds an answer it has yet to queue, `last_reply`: the same
after a panic, `leaving`, `done`), and its `RpcContext` (`pid` is
`registered_process_id`, `ever` is `ever_registered`). `outbound[c]` is the
`sync_channel`, and `sinkOpen[c]` tells whether its receiver, the writer thread, still
exists. `gone[c]` is the client's side of the socket.

An action per command takes the request off the socket, has the state thread handle it
and leaves the answer with the connection thread: `state_roundtrip` blocks the
connection until the state thread has answered, and the state thread does nothing else
meanwhile, so no other thread can see an intermediate state. (Two requests of two
connections may be sent in one order and handled in the other; the order that matters
is the order of handling, and every order is a behaviour.) Getting the answer into the
queue is a step of its own (`PushReply`), since the state thread can put notifications
in front of it. `coupler.list` and similar reads change nothing and are not actions;
`Refuse` stands for every request that is answered with an error and changes nothing.

Abstractions: an interest is a record with a kind and a value; what
`transform_interest` computes from the corpus is not modelled, but whether it yields a
notification at all is a choice wherever the corpus could decide (`MayDerive`,
`AlwaysDerives`). The order in which a hash map yields couplers is a choice
(`Batches`). Labels and metadata are left out.

### NamedResults

`results`, `names` and `disk` are the table, `State::named_results` and the file.
`thread[c]` is a connection thread, which is either idle or in the middle of a load,
holding what `LoadOutcome::Replay` gave it. `broken` is the set of queries that cannot
be run against the corpus the daemon opened: it is chosen afresh at every start, as the
corpus may have been rebuilt. `issued` (the query each handle was given out for),
`told`, `doubt` and `announced` are history variables that exist for the properties.

`Persist` is one step: `persist_named_results` writes a temporary file, syncs and
renames it, and only the rename can be seen. `SaveFails` and `DeleteFails` are a write that
fails: the request is refused, and file, names and table are what they were.
`SaveDies` and `DeleteDies` are the crash between the rename and the answer. Loss of power before the directory entry reaches the disk (the directory is
not synced) and files changed by hand are not modelled.

### Shutdown

`flag` and `streams` are the `ShutdownCoordinator`; `listener`, `closer`, `stateThread`,
`monitor`, `signal` and `exited` are the threads of `serve`; `conn[c]`, `outbound[c]` and
`sinkOpen[c]` are reader, queue and writer of a connection as in `Coordination`, reduced
to what decides who waits for whom. `roster` keeps processes only as the connections
that own them, which the invariant `OwnersAgree` of `Coordination` allows.
`emptiedFor` and `silentFor` are `roster_emptied_at` and the wait of `recv_timeout`, in
ticks.

`InitiateShutdown` is `State::initiate_shutdown`, which a client, the signal thread and
the idle timeout share; the monitor of a state thread that panicked raises the flag
(`MonitorJoins`) and tells the clients itself, one blocking write at a time, holding the
lock on the streams that `RegisterStream` and the closer need. The state thread returns
when every sender of commands is gone (`StateReturns`), which is why each reader has to
end and unregister first.

Three abstractions deserve their names. `Prompt` says that the listener takes less than
the half second the closer sleeps between looking at the flag and registering the
connection it holds; `AllCut` is claimed under it only. A frame is written in one step.
`send_timeout` of 200 ms is immediate: a queue that makes room in time is one whose writer
moved first. Time exists only as the two tick counters. `Requests` selects what clients
ask for beyond registering.

### Spawn

`client[c]` and `daemon[d]` are program counters in `connect_or_spawn` and `serve`; each
step is one system call on one of the four files, and every process may die between any
two of them, taking its flocks with it. `socket` is the daemon that bound the file at the
path, or `Past`: a file left by a daemon that is long dead. The epoch is counted from
the number found at the beginning. `ServeDirectly` is `montre serve` on the command
line, which does not take the spawn lock. `GiveUp` may happen at any moment of the poll,
since the time a corpus takes to open is unbounded.

`orderly` remembers that no client has died or run out of patience while its daemon was
starting, and that nobody but clients started one. Two properties are claimed under it,
`ListeningIsReachable` and `RefusedByDaemons`; `NeverClobbered`, in section 5, is what
fails otherwise.

### ClientRpc

`app` and `call` are the thread that uses a `DaemonClient`, step by step through
`request_inner` and `close_inner`; `pending`, `slot`, `inbox`, `readerClosed` are the map of
pending calls, the reply channel of the call in progress, the notification queue and the
flag of `ReaderGuard`. `reader` is the reader thread. `server`, `writer` and `outbound` are
the connection's threads and queue in the daemon, `toDaemon` and `toClient` the socket.
Towards the client a frame is its two writes, `LengthOf` and `Payload`, so that an end in
the middle of a frame, or a notification the monitor writes between the two
(`FatalBroadcast`), is a state the reader meets: it then takes text for a length
(`LoseTrack`). `cut` is a socket one side has shut down.

What a handler makes of a call is one of `Outcomes`: a result, an error, a panic, or an
answer above 16 MiB. A hung daemon takes no more steps. A full outbound queue makes
`QueueNotice` no step: the notification is dropped, as in `Coordination`. A write to a full
socket blocks, in the code and in the model (`Blocked`).

### Parser, Planner, Executor, QuerySemantics, Queries

The parser's input is a sequence of lexemes; each parsing function of `parser.rs` is an
operator on the input and a position, with the code's own spaces, lookaheads and errors. The
planner and the executor are translated node by node. A set of positions stands for a
bitmap. The order in which a hash map yields the ends of partial matches decides which of
two ways to capture the same span is kept, and is a parameter (`order`) that every state
may choose. It is one order for all steps and documents of an execution, where the code has a
map with a random state of its own for each (`executor.rs:831`); orders that differ from step to
step are not run. No property is about the context of a hit, which `PopulateContext` gives.
Errors of a step of a sequence are swallowed as in the code (`RunIndices`).

`QuerySemantics` shares nothing with them but the shape of trees and corpora: `QueryText`
writes a tree by the grammar, in several styles, and `Matches` gives its matches by
structural induction. `Queries` takes a text through `ParseText`, `PlanQuery`, `Execute`
and `Count`.

`IsFlat` says where `HitsAreMatches` and `Complete` are claimed: sequences of token
patterns. A step that is itself a sequence, an alternation of sequences or a restriction
stands for the positions its hits start at, one token wide, in the code and the model
(`executor.rs:1074`), which is not what `Matches` says; the model has it and `RoundTrip`,
`CountAgrees` and (where it is claimed) `MatchesAreHits` are checked around it.

### Conllu, Indexes, Builder, CorpusCalls, CorpusText, Library

A file is a sequence of lines, told apart by shape. `TryParseSentence` and `AddSentence`
are the readers and sinks of the builder; `BuildFromDirectory` builds the files of a
directory and merges them in the order of their paths, and the streaming writer gets the
forward index of each. An index is what it keeps (a set of postings, a sequence of spans,
the encodings of a forward layer); the lookups are the code's binary searches, on that.
`FeatPairs` is what a feature string is split into, pairs in order, of which a key may come more than
once: `AddToken` lists the position under each of its values, and the forward index keeps the last.

`Library` is the machine around them. A build computes all indexes (`BuildComponent`,
`BuildAlignment`), then removes the old directory file by file and writes the new one file
by file, and may die at each; an opening reads file by file, whatever is there. Each file
remembers which build wrote it, and whether it is there whole. A corpus whose files are
whole and of one build answers every call of `CorpusCalls`, and the answer is compared with
`CorpusText`, which reads the lines of the source directly.

`OneBuild` speaks of every opening that no build disturbed, whether or not the builds got to
their end; `FinishedOpens` of those of a directory whose last build did: they are not
refused, and read whole files of that build.

`OpenedIsBuilt` and what follows it are claimed of openings that no build disturbed, of the
last build that touched the directory.

## 3. Runs

| run | expects | what it shows |
|---|---|---|
| `Coordination_graph` | pass | three processes with different declarations come and go while one client couples and uncouples any two of them |
| `Coordination_stream` | pass | one client couples and uncouples itself with another, subscribes and asks for the roster, while the other comes and goes and publishes; queues of two |
| `Coordination_live` | pass | a client vanishes; another, subscribed to both topics, may stop reading for ever |
| `NamedResults_safe` | pass | two clients, names and queries, three handles, three starts; the names and their file implement `DurableNames` |
| `Shutdown_safe` | pass | two clients make every kind of request, an idle timeout of two ticks runs, a signal arrives, the state thread may panic |
| `Shutdown_live` | pass | a client that may stop reading, a state thread that may panic: the daemon exits, or the monitor is held up by that client |
| `Spawn_safe` | pass | two clients, three daemons, deaths at every step, an old socket file; the lock and the epoch file implement `OneDaemon`, and every client's call returns |
| `ClientRpc_live` | pass | two calls and a close, two notifications, every outcome of a handler, full queues, a panic of the state thread, a daemon that hangs |
| `ClientRpc_dropped` | violation | finding 1: handlers that panic and answers above the maximum |
| `Queries_engine` | pass | questions of every form in every style, texts that are no questions, over every corpus of three tokens of three kinds, in one document and in two |
| `Queries_optional` | violation | finding 2 |
| `Library_built` | pass | sources of one and of two components are built, built over after deaths, opened, and asked every call |

**Bounds.** `MaxRegistrations` and `MaxCouplers` bound the registrations and coupler
creations in a behaviour, not what is alive at once; `Depth` stands for the queue of
256, `IdModulus` for 2^32. Three processes are the fewest on which a cycle is not a
pair, hence the three registrations and couplers of the graph run. A queue of one or
two is full after one or two messages, so that every behaviour in which something is
dropped or a thread waits for room is reached. The runs stop before an id is used again;
what happens then is covered by the theorems, which hold for any number of
registrations (those that speak of an id's present owner are claimed until the ids
run out, `registrations < IdModulus`, and `creations < IdModulus` for couplers). Two clients and two names suffice for every race of
`NamedResults`, which are all between one load and one other command; three starts allow a
restart after a restart. In `Shutdown` two clients are one that is registered and one that
is still on its way in, and a queue of one is full with one answer; a timeout of two ticks
is the smallest that a command can interrupt halfway. In `Spawn` three daemons are one per
client and one more, started by hand or left over from before.

In `ClientRpc` a client has one call in progress at a time, so two calls (`MaxCalls`) and
the one that closes are a call, its successor, whose answers must not be confused, and the
only call with a deadline. Two notifications (`MaxNotices`) and queues of one (`ClientDepth`,
`ServerDepth`, for 256 each) fill both queues; `Room` is what the socket holds towards the
daemon.

In `Queries` three tokens are the fewest on which a gap, a run that ends before the corpus
does and two documents of which one has two sentences occur; a repetition may not be wider
than `MaxQuantifier`, 2 for 100, so that the cap is met inside a corpus; `U32Max`, 8, is the
largest numeral that fits an `u32`, so that 9 does not. Questions are single patterns with
every quantifier, pairs and triples of quantified patterns, labels on any of them, every
restriction and pairs of restrictions, global constraints with every comparison, and a
few of every nesting; `MCScribbles` are all texts of up to four pieces, most of which
are no queries.

In `Library` a document is of one to five words, with multiword tokens at its start, across
its end and around a gap, a feature key that comes again, empty nodes, malformed and wordless
sentences; a corpus is of up
to four files in one component or two. `MCRebuilds` lets one directory be built over, by a
build that ends and by one that fails, with a death at any file. The constraint `Followed`
keeps the runs of the other sources to openings after their build, and stops where an
opening has been disturbed, of which nothing is claimed. `NumericModulus`, 256, stands for
2^32. The calls ask for documents, sentences and positions inside, at and beyond every edge.

**Symmetry** is declared where clients (or handles, names, daemons) are interchangeable
and no temporal property is checked.

**Deadlock** checking is off: all clients may have left, a daemon that is down with its
starts used up does nothing, a daemon that has exited is meant to stop, a closed client is
done, and a query is answered.

**Fairness.** `Coordination_live`: the daemon's threads keep running, which is weak
fairness of `PushReply`, `Leave` and `WriterFails`. A reader whose client is gone gets to
the end of the stream: strong fairness of `ReadEOF`, because it may answer requests that
are still in the socket, but a socket holds finitely many frames. Nothing is assumed of
clients, and in particular not that they read (`WriterSends` has no fairness).
`Shutdown_live` adds weak fairness of the listener, closer, monitor, the signal thread's
closing and `serve`; a write of the monitor is fair unless the client is one that may have
stopped reading. Neither signals nor timeouts nor requests are fair. `Spawn_safe`: every
process that is alive goes on. Daemons need not stop, nobody need start one, and the spawn
lock is not assumed to be handed out fairly: there are finitely many clients, each of
which calls once. `ClientRpc_live` and `ClientRpc_dropped`: weak fairness of each thread
(a call in progress, a close, the reader, the connection's reader and writer while the
daemon does not hang), of the deadline, of finding the end of a socket that is shut down,
and of the monitor's closing what it has told of a panic. Nothing is assumed of the
application, of what it reads, of shutdowns, or of a reader that has lost its place, which
may wait for a payload that never comes.

## 4. Proofs

For any number of connections, profiles, ids, queue depths, commands, clients and
daemons, and any sources, builds and openings:

* `CoordinationProofs`: `TypeCorrect`, `EndsLive`, `GraphAcyclic`, `SubscribersInRoster`,
  `OwnersCorrect`, `CompatibleInForce`;
* `QueueProofs`: `RemovalBars`, `UpToDate`, `RosterMirrored`;
* `NamedResultsProofs`: `TypeCorrect`, `DiskCurrent`, `HandlesStable`, `NamedKept`,
  `AnswersTrue`, `AnnouncementsTrue`, `ImplementsDurableNames`;
* `ShutdownProofs`: `TypeCorrect`, `NotifiedOnce`, `ToldBeforeCut`, `TimerTracksRoster`,
  `AllUnregistered`, `IdleDaemonEnds`, and `NoStragglers` under the assumption `Prompt`;
* `SpawnProofs`: `TypeCorrect`, `EpochsTell`, `SplitBrainExcluded`, `SocketKept`,
  `LookingIsHarmless`, `ImplementsOneDaemon`;
* `ClientRpcProofs`: `TypeCorrect`, `NothingLeft`, `NoticesOrdered`, `AnswerInOnePlace`;
* `LibraryProofs`: `FilesOfOneBuild`, `FinishedBuildOpens`, `OpenedCorpusIsTiled`, `OpenedCorpusIsFound`,
  `OpenedIndexesAgree`;
* `IndexProofs`, for indexes of any size: `BisectSplits`, `SpanContainingIsExact`, `MWTCoveringIsExact`,
  `MWTsInRangeIsExact`, `EmptyNodesInIsExact`, `DocumentSentencesAreExact`, `TermsReadBack`,
  `NumbersReadBack`, `AppendFromAppends`, `StreamReadBack`; for files of any number of lines and
  directories of any number of files: `MergeKeeps`, `DirectoryGathered`, `EveryPositionInOneSpan`,
  `DocumentsCutTheSentences`, `MergeMatches`, `DirectoryMatched`, `WrittenIndexesAgree`.

`CouplersCompatible`, `HandleKeepsQuery`, `NamedNotDiscardable`, `EmptiedTracksRoster` and the
types of `NamedResults`, `Shutdown` and `Spawn` are proved and no run asks them; they hold in the instances
of the runs, where they were checked before they were proved.

**Coordination.** All steps that touch the tables are cases of a small set of effects (a
process enters, a process is dropped, a coupler is added or removed, an interest or a
subscription changes), so each invariant is proved once per effect. `TablesInv`
strengthens `CouplerEndsLive` and `SubscribersLive` to one inductive invariant: ends and
subscribers are live, and the graph is acyclic. Acyclicity needs the one
graph-theoretic lemma, `EdgeKeepsAcyclic`: an edge from m to f closes a cycle only if m
could be reached from f. It is stated with closed sets rather than paths, which is what
makes it provable without induction. `OwnersAgree` and `CouplersCompatible` are only
inductive together with `IdsFresh` (until the ids run out, no id at or beyond the next
one is in use) and `OwnersRegistered` (every owner has registered, and only once); that
is where `registrations < IdModulus` comes from.

**Removal.** `RemovalIsBarrier` needs `CouplerIdsFresh`: until the ids run out no id is
given out twice, so one that is withdrawn stays withdrawn. `RemovalsSound` then says that
whatever is answered as removed, in a queue or about to be queued, is withdrawn, and that
no update behind it bears its id. Every step leaves a queue alone, empties it, takes its
head, appends an answer, or offers notifications, and these bear ids of couplers in force.

**Followers.** `UpToDate` shows `FollowersUpToDate` from `DeliveryInv`: the tables are as in
`TablesInv`, coupler ids are fresh (`CouplerIdsFresh`, so that nothing queued for an earlier
coupler can pass for news of this one), and for each coupler the last update in its
follower's queue, or else the last one received, is the focus in force (`Current`).
`interest.publish` sends every coupler of the master its update, and `coupler.create` sends
the first one; no other step appends an update to a queue. A follower whose writer has ended
is excepted (`sinkOpen`): what was queued ends with the writer, and nobody counts it as
dropped.

**Rosters.** `RosterMirrored` shows `MirrorsRoster` from `MirrorInv`. The snapshot a client has,
will read, or is about to be answered (`Newest`), with who joined since and without who left, is
the roster (`Follows`). This is inductive only because of `Past`: ids are not given twice
while `registrations < IdModulus`, so that who left, as told by a notification that may be
older than the snapshot or newer, is not in the roster now, and who joined is there unless
it left. That a client subscribes before it asks, and not after, is what makes
`Joined` complete from the snapshot on.

**NamedResults.** `HandleKeepsQuery` is inductive only together with the fact that a name
in memory is the name in the file, `MemoryMatchesDisk`; `NamedNotDiscardable` needs that
a replay never carries an unnamed entry. The refinement theorem maps every step that
writes the file to `Save` or `Delete` and every other one to a stutter.

**Shutdown.** `ShutdownInv` has a part for each reason a property is true. `NoticesSound`:
before the flag is up no client has been told and no queue holds a notification, and the
same is true for the whole time in which a monitor that raised the flag itself waits for
the lock; a queue holds one at most, and none once it has been received. `Represented`:
who is registered has a thread that has yet to unregister it. `Reached`: a served
connection has been shut down or is in the list of streams, and once the closer has been
through, the listener, which cannot get past the flag again, holds none. `Arrived` and
`Duty`: until everybody in the roster has been told, or is in the monitor's list, no socket
is shut down; the list holds everybody because who is in the roster was listed first.
`Answering` says that a thread about to queue an answer has one. `ShutdownInv` was checked
with the instance of `Shutdown_safe`, with and without `Prompt`, before it was proved.
Steps are grouped by what they change (requests, queues, connections, what begins a
shutdown, sockets closed, the rest), so that each part is proved against eight groups
instead of forty actions. `IdleInTime` adds `WaitsSinceEmpty`: while nobody is registered,
the state thread has waited as long as the roster has been empty.

**Spawn.** `SpawnInv` adds two parts to the types. `LockSound`: a daemon between `TryLock`
and `Return` is the holder of the daemon lock, and a client in the middle of its probe is.
`EpochsSound`: no epoch is larger than the
file, a daemon has one exactly when it has written it, and what the holder has read is
what the file says. `NoSplitBrain` then follows from the lock being one value;
`ImplementsOneDaemon` maps `TryLock` to taking charge, `WriteEpoch` to giving an epoch,
`Return` and `Dies` to leaving, and a client's probe, which takes the same lock, to a
stutter. `OrderInv` serves the two properties that hold until a client dies or gives up on a
daemon that is starting, or one is started by hand: the spawn lock is held by exactly the
client in the middle of `connect_or_spawn`, a daemon that is starting is one the holder
waits for, then nobody else listens, and who listens is at the path.

**ClientRpc.** An entry in the map of pending calls has a caller that waits for it. The one
case that is not immediate is an answer that arrives as its call is being entered: a call
about to enter the map has a number that was never sent, so nothing under way answers it.

`NoticesInOrder` is proved with `NoticeInv`. What the application has taken, the client's queue,
the socket and the outbound queue hold increasing numbers, each only numbers below those of
the next (`Sorted`), and together all that were published and not dropped (`Counted`). The
monitor may write a frame into another one, between its length and its payload; `Lined`
says where in the socket such a payload may lie, so that a reader which still follows never takes it
for part of a frame of its own, and what is lost is lost only after the reader has lost its place.
`OneAnswer` needs `AnswerInv`: the question or its answer is at one of six stations (socket,
handler, outbound queue, socket, reader, slot) and no other (`OnWay`), and a call that can still
be answered is in the map, or its answer has left the map with the reader (`Tracked`).

**Library.** `OneBuild` follows from two facts about the disk and one about the opener
(`LibraryInv`): all files are of one build, and of the last one while that writes, since a build
writes its first file only when nothing is left; and what an opening has read undisturbed is
what is there. `FinishedOpens` adds what a build promises of its end (`FinishedInv`): each
mandatory file is on disk or still to be written (`Planned`), whatever optional files the
corpus has (`ContentsList`); a build is through only after its last file, when everything on disk is
whole and its own (`Complete`); and who wrote last changes only with the disk (`Watched`).
Neither looks at what the files hold.

`OpenedCorpusIsTiled` does. Its property, `OpenedTiled`, relates the files of a corpus that opened
whole and undisturbed, as far as they have to fit each other: the sentence spans and the document spans
each tile the positions that `corpus.json` counts, without gap, overlap or empty span; there is an id
for each sentence and a name for each document; a document begins where a sentence does; no empty node
is of a sentence that is not there. Every lookup by position, sentence or document relies on this,
nothing in the code checks it, and it has to survive skipped blocks, sentences of no word, files that
give nothing and three levels of merging. The invariant is `GatheringInv`: the sink of a build satisfies
it after every component (`Gathered`: `GatheredSink`, from `DirectoryGathered` and `MergeKeeps` below, and `Matched`, from
`DirectoryMatched`); hence the
files made of a sink agree two by two (`Agree`); those still to be written agree with those the build
wrote; what is left on disk and what an opening has read are fewer files, and agree too. It uses
`LibraryInv` and `Planned`: a file is put beside files of the same build only, and `spans.bin` has been
read when an opening is through (`NoneMissed`). `OpenedCorpusIsFound` says what follows for the
lookups: they find every position in one sentence and one document, the sentences of a document begin
and end with it, and the empty nodes of a sentence are found, all of them.

`OpenedIndexesAgree` is about the other half of a corpus, what it says of its tokens. A query finds
positions by a term in `inverted.bin` and an answer reads terms by position from `forward.bin`; the two
are made apart, the one merged in memory file after file, the other streamed to the disk at offsets,
padded where layers begin late, and encoded. Its property, `OpenedAgrees`, is that they say the same: a
term lists just the positions at which it is read, the lexicon has just the terms listed, no position is
beyond the tokens that `corpus.json` counts, no layer and no spacing is of a token that is not there.
Three exceptions are the code's. Heads and dependencies are not in the inverted index
(`ForwardOnlyLayers`). A term that is empty is listed but never read. And where the features are
decomposed and one token has a key twice, as in `N=P|N=D`, its position is listed under both values
and read as one of them: of the layers of such keys, `RepeatedKeys`, which is computed from what the
sources' files say, only that is claimed, that what is read at a position is one of the terms that
list it, and nothing where none does. Without decomposition there are no such layers (`NothingRepeats`).
With the builder made to append each file where its component began, or to leave a value out of the
inverted index, TLC finds `GatheringInv` violated; and the sources of `Library_built` violate the claim
without the third exception.

**Indexes.** These theorems are about operators, not behaviours: what a lookup or a layer returns
for every input. The search of `Bisect` and the listing of a set are recursive functions, and
TLA+ defines such a function as some solution of its equation. So there are three steps: a solution
exists (for the search it is written down, for a fold it is built from the smaller sets up); the
chosen one therefore is a solution; and every solution has the value claimed, since there would
be a smallest window or a least number where it had not. `BisectSplits` then says all that the
lookups need of a binary search: if the indexes that satisfy a test come first, the result is how
many there are. The lookups are exact under a hypothesis about the order of what is searched,
which is the order `partition_point` relies on in the code: spans that follow one another, empty
nodes by sentence. For sentences, documents and empty nodes that order is proved of every corpus that
opens, as above; for multiword tokens it stays a hypothesis, since their ranges are what the lines say
and a file may list them in any order. `StreamReadBack` with `AppendFromAppends` says that
`forward.bin` answers at each position of each file with the value the file was given there, where
layers begin late, are missing from files or end early.

**Sinks.** A build is folds within folds: lines into blocks, blocks into sentences, tokens into a
sentence, sentences into a document, files into a directory. All of them are one recursive function with
seven kinds of `Step`, so that the existence of a solution, and that it goes through the items in order
(`Runs`), is proved once. Each fold then has an invariant: what has been read has the parts a sentence
needs (`ReaderInv`); tokens move the position and leave spans, ids and names alone (`TokensKeep`); a
sentence adds one tile and one id, or, if it has no word, nothing (`Grown`); a document adds one tile of
all its sentences, or nothing (`DocumentKeeps`); a merge shifts the tiles, names and numbers of one sink
behind those of another (`MergeKeeps`). `DirectoryGathered` is their sum. Sorting the spans before they
are written changes none of this, as tiles are in order (`FinalizedTiles`).

The values of the tokens go through the same folds with invariants of their own. In the sink of one file
each layer's values are those the inverted index lists, whatever is missing (`IndexedSink`, kept by a
token, a sentence and a document). The last parameter of these invariants, `several`, is the set of
layers that a token of the files may have several terms of (`SeveralIn`): there the value is one of those
listed (`Says`), and elsewhere it is the only one. Merged into what there is, and streamed at the position the sink is
at, a file changes both sides alike (`MergeMatches`); and since the files of a component are merged
among themselves before they are merged into the whole, while they are streamed one by one, merging has
to be associative on these parts (`MergedTwice`). `WrittenIndexesAgree` carries `Matched` through the
padding and the encoding, with `TermsReadBack`.

`DeliveryInv`, `MirrorInv`, `NoticeInv`, `AnswerInv`, `GatheringInv` and the parts of `FinishedInv` were
checked with the instances of the runs before they were proved. `OpenedTiled` and
`OpenedAgrees` are proved and no run asks them; they were checked in the instance of `Library_built`.

The assumptions are the named `ASSUME`s of the modules: finite bounds are natural
numbers, "no value" is none of the values, clients are not daemons, the queue has room
for at least one message, there are at least two ids. `SourcesAssumption` of `Library` says what the
sources of a build are: the names of files and components are told apart by their order, as strings
are, there are finitely many, and a file that opens as text is a sequence of lines, whatever these are.
`FeatPairsAssumption` of `Builder` says that a feature string is split into a sequence of pairs of
strings; it does not say that their keys are distinct.

Model-checked only: the liveness properties `GoneLeaveRoster`, `ShutdownEnds`,
`EveryoneReturns`, `CallsReturn` and `CloseEnds`, which are out of the prover's reach, and
what depends on what is computed from the data: `RoundTrip`, `HitsAreMatches`, `MatchesAreHits`,
`CountAgrees` and `LabelsAddCaptures` of `Queries`, and `OpenedIsBuilt`, `AnswersFollowText` and
`ProjectionsFollowEdges` of `Library`. The parser, the plans and the reference definitions recurse
over trees and sequences of any length, and a claim about them needs induction over data. Of
`OpenedIsBuilt`, a part is proved for corpora of any size: that spans, ids, names and empty nodes fit
together, and inverted index, lexicon, forward index and spacing do, and that forward layers read back;
that they are those of the lines is checked.

## 5. Findings

Each is a run that ends in a counterexample.

1. `ClientRpc_dropped`, under the fairness of `ClientRpc_live`: when a handler panics, or an
   answer is above the maximum, one of the two threads of the connection ends and nothing
   closes the socket, of which the shutdown coordinator keeps a clone. The client never
   reads the end of the stream; a call that waits for its answer, or the next one, has no
   deadline and waits for ever. The instance has both, and TLC shows one of them; with one
   of `"panic"` and `"huge"` left out of `MayDrop` it shows the other
   (`dispatch.rs:188` against `docs/daemon-protocol.md:384`, and `dispatch.rs:235` against
   `docs/daemon-protocol.md:41`).
2. `Queries_optional`: a sequence that begins with an optional step starts only at the first
   position of each run of its second step. `[]? []` over three tokens finds no match that is
   one token after the first (`executor.rs:691` against `docs/DEVELOPMENT.md:519`).

Met while modelling, each with a property of the model that states what is said, and fails
(TLC finds it violated with the constants named):

* `DeletedHandlesInvalid`, in the instance of `NamedResults_safe` with two handles and two
  starts: a replay that lands after `query.delete_named` brings the deleted handle back, in
  a form nobody can discard (`state.rs:378` against `docs/daemon-protocol.md:626`);
* `FatalEnds`, in the instance of `Shutdown_live`: after a panic of the state thread the
  monitor writes to the clients one by one and without a limit; one that does not read
  keeps the daemon from exiting (`shutdown.rs:38` against `docs/daemon-protocol.md:1081`);
* `NeverClobbered`, in the instance of `Spawn_safe`: a client removes the socket of a daemon
  that has begun to listen since the client probed the lock; that daemon serves nobody and
  keeps others from starting (`client.rs:793` against `crates/montre-daemon/README.md:43`).

Met while modelling and plain from a reading of the code.

Daemon:

* a replay that lands after a `query.materialize` resets `materialized_at` to null
  (`handlers/query.rs:204`; `docs/daemon-protocol.md:339`);
* saving one handle under two names hides the first from `query.list_named`
  (`state.rs:269`);
* after a restart `query.hits` refuses the handle of a saved result until the name is
  loaded (`handlers/query.rs:94`; `docs/daemon-protocol.md:1227`);
* unnamed results outlive the connection that executed them (`state.rs:146`;
  `docs/daemon-clients.md:127`);
* a listener that needs more than half a second between the flag and the registration
  leaves a connection open after the closer has been through (`dispatch.rs:188`;
  `docs/daemon-protocol.md:926`);
* the answer to daemon.shutdown follows the broadcast in the queue
  (`handlers/daemon.rs:12`; `docs/daemon-protocol.md:938`), and a client that registers
  during the shutdown is not told (`state.rs:98`);
* a version mismatch is answered with an error but does not end the connection
  (`state.rs:103`);
* the monitor's notification can land inside a frame a writer thread has begun
  (`shutdown.rs:36`, `dispatch.rs:45`), after which the client's reader reads text as
  lengths;
* every command restarts the wait of the idle timeout, so refused registrations put the
  exit of an idle daemon off (`state.rs:1024`); `IdleInTime` therefore claims nothing
  once a registration has been refused;
* a client's probe of the daemon lock can make a daemon that is starting believe another
  one is running (`storage.rs:44`);
* a client whose socket is full cannot close within its deadline, which is on the answer
  and not on the write (`client.rs:451`); `CloseEnds` excepts it.

Query engine:

* a query restricted to the document around a hit cannot be given a global constraint,
  `within doc ::` is an error (`parser.rs:227`); parentheses help, which is what
  `guarded` in a style is for;
* a label called `distance`, or with a dot in it, cannot be spoken of;
* a sequence of literals crosses documents when nothing in it repeats
  (`executor.rs:547`), since work is split by document only if a step benefits;
* an error in a step of a sequence (a regular expression that does not compile) makes the
  step match nothing instead (`executor.rs:661`);
* a step that is a sequence or a longer alternation is one token wide (`executor.rs:1074`);
* which of two ways to capture a span is kept depends on the order of a hash map
  (`executor.rs:831`), so a global constraint may keep the hit in one run of the program
  and not in the next;
* the capture of an optional step that matched nothing has the attributes of the token
  after it (`executor.rs:479`);
* a span layer the corpus does not have restricts nothing (`executor.rs:282`); a repetition
  `{2,1}` is accepted and matches nothing.

Builder, index and calls:

* a corpus opened while it is built over may have files of two builds: nothing in a file
  tells its build (`builder.rs:283`, `corpus.rs:111`);
* a build that dies before its last file, `alignments.bin`, leaves a corpus that opens,
  lists its alignments and has no edges; a torn `forward.bin`, `sentence_ids.bin` or `mwt.bin` may
  open too;
* the number of a sentence in an alignment is not compared with the document, so a
  projection may lead into the next document;
* of two documents of one component with the same name, the later is meant by every edge;
* the head layer is stored as the first file has it: if that has no heads, the numbers of
  the others are lost (`streaming_forward.rs:52`; `docs/DEVELOPMENT.md:854` calls it
  `DenseNumeric`), absent heads read as 0 and negative ones as large numbers;
* a key that comes again in a feature string (`N=P|N=D`) lists the token under every one of its
  values in the inverted index and the lexicon, while the forward index keeps the last
  (`builder.rs:238`, `builder.rs:259`): a query finds the token by a value that is not shown of it;
* a multiword token whose range starts at 0 makes `mwt.first as u64 - 1` underflow
  (`builder.rs:194`), a panic in a build with overflow checks; without them the sum with the start
  of the sentence wraps back to the position before it, or to 2^64 - 1 in the first sentence. The
  model computes the start less one, and no source of a run has such a range;
* a malformed sentence is dropped whole, while the reader's position moves on;
* a text that starts inside a multiword token leaves out its words, and the call that also
  gives token spans does not.

## 6. Not modelled

* Serialisation of parameters, results and files, and the byte layout of the indexes: what
  a file keeps is modelled, not how. What a torn file opens as is left at "it may".
* The text of a line of CoNLL-U, the TOML of a manifest, regular expressions, the characters
  of identifiers and strings, error messages and logs: data the properties do not tell apart.
* Positions are not truncated to 32 bits, and layers of more than 65535 bytes a value are not
  corrupted, as the code does in `inverted.rs:36` and `streaming_forward.rs:127`.
* The C and Python bindings, the benchmarks and `tools/`: wrappers and displays. Of the command
  line, what is not a build or a count.
* Of the daemon: loss of power between a rename and the sync of its directory, descriptors
  that cannot be duplicated, a corrupt epoch file and the wrap of epochs at 2^64, labels and
  metadata, what `transform_interest` computes from the corpus.
* Parallelism inside a query or a build: results are joined in order, and the threads share
  only what does not change.

## 7. Plan

1. The terms, ids and forms that a file's lines say, carried through the folds of a build as its tiles
   are in `IndexProofs`, which would make `OpenedIsBuilt` a theorem.
2. `transform_interest` over a corpus of `Library`, joined with `Coordination`: what a
   follower is shown.

Runs are kept to one per distinct question. A new one takes the place of those whose
question can be asked together with another's.
