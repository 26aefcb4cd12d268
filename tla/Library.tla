------------------------------ MODULE Library -------------------------------
(***************************************************************************)
(* A corpus directory: builds write it, one after the other, a build may die   *)
(* at any step, and meanwhile it is opened, file by file, and asked.           *)
(*                                                                           *)
(* made is the history of the builds: the source each was started from, and    *)
(* whether it has touched the disk and has written its last file.  A file on    *)
(* disk remembers the build that wrote it, and whether it is there whole.       *)
(***************************************************************************)
EXTENDS CorpusText

CONSTANTS
  Sources,     \* Sources[s]: what a build may be given
  Rebuilds,    \* Rebuilds[s]: those a directory built from s may be built over from
  Calls(_),    \* the calls made to a corpus that was built from a source
  MaxBuilds,   \* the builds of a behaviour
  MaxOpens     \* the openings of a behaviour

(* What the sources of the builds are: whatever the files hold, their paths and the *)
(* names of the components are strings, which are told apart by their order.      *)
ASSUME SourcesAssumption ==
  \A s \in DOMAIN Sources :
    /\ Sources[s].strict \in BOOLEAN /\ Ranked(DOMAIN Sources[s].components)
    /\ \A c \in DOMAIN Sources[s].components : IsDirectory(Sources[s].components[c])

VARIABLES
  made,      \* the builds so far, [source, phase]
  builder,   \* the build at work
  disk,      \* the files of the directory, empty while it does not exist
  opener,    \* the opening at work, or the corpus it opened
  opens,     \* how many openings there were
  reply      \* the call just made, and its answer

vars == <<made, builder, disk, opener, opens, reply>>

Idle == [pc |-> "idle"]
Closed == [pc |-> "closed"]
NoReply == [call |-> [call |-> "none"], answer |-> Fail("none")]

Current == Sources[Last(made).source]
Names(f) == Sorted(DOMAIN f)

-----------------------------------------------------------------------------
(* Building.  A source is one directory of files, or a manifest of components  *)
(* and alignments.                                                            *)

Init ==
  /\ made = <<>> /\ builder = Idle /\ disk = <<>>
  /\ opener = Closed /\ opens = 0 /\ reply = NoReply

(* The command line refuses to build over a directory unless it is forced to. *)
StartBuild(s, force) ==
  /\ builder.pc = "idle" /\ Len(made) < MaxBuilds
  /\ disk = <<>> \/ force
  /\ made # <<>> => s \in Rebuilds[Last(made).source]
  /\ made' = Append(made, [source |-> s, phase |-> "reading"])
  /\ builder' = [pc |-> "components", left |-> Names(Sources[s].components), sink |-> NewSink,
                 streaming |-> NewStreaming, components |-> <<>>,
                 alignments |-> {}, edges |-> <<>>]
  /\ UNCHANGED <<disk, opener, opens>> /\ reply' = NoReply

Component(b, name, sink) ==
  [name |-> name, from |-> Len(b.sink.document_names),
   to |-> Len(b.sink.document_names) + Len(sink.document_names)]

(* One component: its directory is built, then merged.  A build that fails    *)
(* here has not touched the disk.                                           *)
BuildComponent ==
  /\ builder.pc = "components" /\ builder.left # <<>>
  /\ LET name == Head(builder.left)
         b == BuildFromDirectory(Current.components[name], Current.strict, Current.decompose_feats,
                                 builder.streaming, builder.sink.position)
     IN builder' = IF ~b.ok THEN Idle
                   ELSE [builder EXCEPT !.left = Tail(@), !.streaming = b.streaming,
                                        !.sink = MergeFrom(@, b.sink),
                                        !.components = Append(@, Component(builder, name, b.sink))]
  /\ UNCHANGED <<made, disk, opener, opens>> /\ reply' = NoReply

NamedIn(components, name) == {c \in ToSet(components) : c.name = name}

(* One alignment of the manifest, in any order. *)
BuildAlignment(name) ==
  LET config == Current.alignments[name]
      source == NamedIn(builder.components, config.source)
      target == NamedIn(builder.components, config.target)
      read == ReadAlignment(config.files, The(source), The(target), builder.sink.document_names, Current.strict)
  IN /\ builder.pc = "components" /\ builder.left = <<>>
     /\ name \notin DOMAIN builder.edges
     /\ builder' = IF source = {} \/ target = {} THEN Idle
                   ELSE IF ~read.ok THEN Idle
                   ELSE [builder EXCEPT
                           !.edges = [a \in DOMAIN @ \cup {name} |-> IF a = name THEN read.edges ELSE @[a]],
                           !.alignments = @ \cup {[name |-> name, source_component |-> config.source,
                                                   target_component |-> config.target,
                                                   edge_count |-> Len(read.edges)]}]
     /\ UNCHANGED <<made, disk, opener, opens>> /\ reply' = NoReply

Meta(b) ==
  [name |-> Current.name, token_count |-> b.sink.position, layers |-> b.sink.layers,
   span_layers |-> DOMAIN b.sink.spans, document_names |-> b.sink.document_names,
   components |-> IF Current.single THEN <<>> ELSE b.components, alignments |-> b.alignments]

(* The files of a corpus, in the order they are written; what a file would hold *)
(* nothing of is not written.                                                 *)
Contents(b) ==
  <<<<"corpus.json", Meta(b)>>, <<"inverted.bin", b.sink.inverted>>,
    <<"spans.bin", FinalizedSpans(b.sink.spans)>>, <<"lexicon.bin", b.sink.lexicon>>>>
  \o (IF b.sink.sentence_ids = <<>> THEN <<>> ELSE <<<<"sentence_ids.bin", b.sink.sentence_ids>>>>)
  \o (IF b.sink.mwts = <<>> THEN <<>> ELSE <<<<"mwt.bin", b.sink.mwts>>>>)
  \o (IF b.sink.spacing = {} THEN <<>> ELSE <<<<"spacing.bin", b.sink.spacing>>>>)
  \o (IF b.sink.empty_nodes = <<>> THEN <<>> ELSE <<<<"empty_nodes.json", b.sink.empty_nodes>>>>)
  \o <<<<"forward.bin", Finalize(b.streaming)>>>>
  \o (IF DOMAIN b.edges = {} THEN <<>> ELSE <<<<"alignments.bin", b.edges>>>>)

StartWriting ==
  /\ builder.pc = "components" /\ builder.left = <<>>
  /\ DOMAIN builder.edges = DOMAIN Current.alignments
  /\ builder' = [pc |-> "removing", left |-> Contents(builder)]
  /\ UNCHANGED <<made, disk, opener, opens>> /\ reply' = NoReply

(* The disk changes under whoever is opening the corpus. *)
Touch(phase) ==
  /\ made' = [made EXCEPT ![Len(made)].phase = phase]
  /\ opener' = IF opener.pc = "opening" THEN [opener EXCEPT !.undisturbed = FALSE] ELSE opener

(* The old directory goes file by file, in the order the file system lists them. *)
RemoveFile(f) ==
  /\ builder.pc = "removing" /\ f \in DOMAIN disk
  /\ disk' = [g \in DOMAIN disk \ {f} |-> disk[g]]
  /\ Touch("writing")
  /\ UNCHANGED <<builder, opens>> /\ reply' = NoReply

OnDisk(f, content, whole) ==
  [g \in DOMAIN disk \cup {f} |->
     IF g = f THEN [build |-> Len(made), whole |-> whole, content |-> content] ELSE disk[g]]

(* Mutant: new files are written beside the old ones that have not gone yet. *)
WriteOverOld ==
  LET next == Head(builder.left) IN
  /\ builder.pc \in {"removing", "writing"}
  /\ disk' = OnDisk(next[1], next[2], TRUE)
  /\ Touch(IF Len(builder.left) = 1 THEN "done" ELSE "writing")
  /\ builder' = IF Len(builder.left) = 1 THEN Idle ELSE [pc |-> "writing", left |-> Tail(builder.left)]
  /\ UNCHANGED opens /\ reply' = NoReply

WriteFile ==
  LET next == Head(builder.left) IN
  /\ builder.pc = "writing" \/ (builder.pc = "removing" /\ disk = <<>>)
  /\ disk' = OnDisk(next[1], next[2], TRUE)
  /\ Touch(IF Len(builder.left) = 1 THEN "done" ELSE "writing")
  /\ builder' = IF Len(builder.left) = 1 THEN Idle ELSE [pc |-> "writing", left |-> Tail(builder.left)]
  /\ UNCHANGED opens /\ reply' = NoReply

(* The build dies, or the disk is full: at a file it is writing, a part of it   *)
(* may be there.                                                             *)
Dies(part) ==
  /\ builder.pc # "idle"
  /\ part => builder.pc = "writing" \/ (builder.pc = "removing" /\ disk = <<>>)
  /\ IF part
     THEN disk' = OnDisk(Head(builder.left)[1], Head(builder.left)[2], FALSE) /\ Touch("writing")
     ELSE UNCHANGED <<disk, made, opener>>
  /\ builder' = Idle
  /\ UNCHANGED opens /\ reply' = NoReply

-----------------------------------------------------------------------------
(* Opening.  Each file is read as it is when its turn comes. *)

(* Mutant: the alignments are opened like the rest, without a look whether there  *)
(* are any.                                                                  *)
MandatoryAlignments ==
  {"corpus.json", "inverted.bin", "lexicon.bin", "spans.bin", "forward.bin", "alignments.bin"}

Mandatory == {"corpus.json", "inverted.bin", "lexicon.bin", "spans.bin", "forward.bin"}

(* The files in the order they are read; the inverted index and the lexicon are *)
(* read side by side.                                                         *)
OpenOrder == <<{"corpus.json"}, {"inverted.bin", "lexicon.bin"}, {"spans.bin"}, {"forward.bin"}, {"alignments.bin"},
               {"sentence_ids.bin"}, {"mwt.bin"}, {"spacing.bin"}, {"empty_nodes.json"}>>
CorpusFiles == UNION {OpenOrder[i] : i \in DOMAIN OpenOrder}

(* A part of these may pass for the whole: their headers tell no length. *)
Unmeasured == {"forward.bin", "sentence_ids.bin", "mwt.bin"}

(* The last build that touched the directory, and whether it is through. *)
Writer == Max({0} \cup {b \in DOMAIN made : made[b].phase # "reading"})
Finished == Writer # 0 /\ made[Writer].phase = "done"

StartOpen ==
  /\ opener.pc # "opening" /\ opens < MaxOpens /\ disk # <<>>
  /\ opener' = [pc |-> "opening", left |-> CorpusFiles, got |-> <<>>, undisturbed |-> TRUE,
                writer |-> Writer, finished |-> Finished]
  /\ opens' = opens + 1
  /\ reply' = NoReply
  /\ UNCHANGED <<made, builder, disk>>

(* What is left of the first turn that has anything left. *)
NextToOpen ==
  {f \in opener.left : \A i, j \in DOMAIN OpenOrder :
                        f \in OpenOrder[j] /\ i < j => OpenOrder[i] \cap opener.left = {}}

OpenFile(f) ==
  /\ opener.pc = "opening" /\ f \in NextToOpen
  /\ \/ /\ f \in DOMAIN disk
        /\ disk[f].whole \/ f \in Unmeasured
        /\ opener' = [opener EXCEPT
                        !.left = @ \ {f},
                        !.got = [g \in DOMAIN @ \cup {f} |-> IF g = f THEN disk[f] ELSE @[g]],
                        !.pc = IF opener.left = {f} THEN "open" ELSE @]
     \/ /\ f \notin DOMAIN disk /\ f \notin Mandatory
        /\ opener' = [opener EXCEPT !.left = @ \ {f}, !.pc = IF opener.left = {f} THEN "open" ELSE @]
     \/ /\ f \in Mandatory \/ f \in DOMAIN disk
        /\ f \in DOMAIN disk => ~disk[f].whole
        /\ opener' = [pc |-> "refused", undisturbed |-> opener.undisturbed, finished |-> opener.finished]
  /\ UNCHANGED <<made, builder, disk, opens>> /\ reply' = NoReply

Whole(got) == \A f \in DOMAIN got : got[f].whole
View(got) == [f \in DOMAIN got |-> got[f].content]

(* A call to a corpus whose files are all whole and of one build. *)
OneBuildIn(got) == \A f \in DOMAIN got : got[f].build = got["corpus.json"].build

Ask(r) ==
  /\ reply = NoReply
  /\ reply' = [call |-> r, answer |-> HandleCall(View(opener.got), r)]
  /\ UNCHANGED <<made, builder, disk, opener, opens>>

Next ==
  \/ \E s \in DOMAIN Sources, force \in BOOLEAN : StartBuild(s, force)
  \/ BuildComponent
  \/ builder.pc = "components" /\ \E name \in DOMAIN Current.alignments : BuildAlignment(name)
  \/ StartWriting
  \/ \E f \in DOMAIN disk : RemoveFile(f)
  \/ WriteFile
  \/ \E part \in BOOLEAN : Dies(part)
  \/ StartOpen
  \/ \E f \in CorpusFiles : OpenFile(f)
  \/ /\ opener.pc = "open" /\ Whole(opener.got) /\ OneBuildIn(opener.got)
     /\ \E r \in Calls(made[opener.got["corpus.json"].build].source) : Ask(r)

Spec == Init /\ [][Next]_vars

-----------------------------------------------------------------------------

Opened == opener.pc = "open" /\ opener.undisturbed /\ Whole(opener.got)
OpenedBuild == opener.got["corpus.json"].build
OpenedSource == Sources[made[OpenedBuild].source]

(* However builds die and directories are built over, a corpus that opens while *)
(* nothing writes it has all its files from one build: no old index is read      *)
(* beside a new one, because the old directory goes before the new files come.   *)
OneBuild == opener.pc = "open" /\ opener.undisturbed => OneBuildIn(opener.got)

(* When the last build that touched a directory got to its end, the directory     *)
(* opens: the opening is not refused, whatever earlier builds left behind in part, *)
(* and has every file whole and from that build.                               *)
FinishedOpens ==
  opener.pc \in {"open", "refused"} /\ opener.undisturbed /\ opener.finished
    => /\ opener.pc = "open" /\ Whole(opener.got)
       /\ \A f \in DOMAIN opener.got : opener.got[f].build = opener.writer

(* A corpus opened from the files of the last build that touched the directory   *)
(* has every index its source gives, whether or not that build lived to its end: *)
(* terms by position and positions by term, numbers of sentences and documents,   *)
(* ids, multiword tokens, spacing and empty nodes, through every merge; and heads  *)
(* when the first document has any, since it settles how the layer is encoded.    *)
OpenedIsBuilt == Opened /\ OpenedBuild = opener.writer => IsBuiltFrom(OpenedSource, View(opener.got))

(* A call about text, documents or annotations answers what the files of the     *)
(* source say, in whatever document and component it asks.                      *)
AnswersFollowText ==
  Opened /\ OpenedBuild = opener.writer /\ reply # NoReply
    => AnswersText(OpenedSource, reply.call, reply.answer)

(* An alignment leads from the sentences a range touches to the sentences the    *)
(* lines of its files name, to each once, in documents and components with any   *)
(* number of documents before them.                                            *)
ProjectionsFollowEdges ==
  Opened /\ OpenedBuild = opener.writer /\ opener.finished /\ reply # NoReply
    => AnswersEdges(OpenedSource, reply.call, reply.answer)
=============================================================================
