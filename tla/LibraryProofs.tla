---------------------------- MODULE LibraryProofs ---------------------------
(***************************************************************************)
(* Proofs about Library, for any sources, any number of builds and openings,   *)
(* and whatever the builds gather.                                            *)
(*                                                                         *)
(* The files of the directory are always of one build: a build writes only     *)
(* where nothing is left, or beside what it wrote itself.  A corpus that is     *)
(* being opened undisturbed holds files as they are on disk, so that they are   *)
(* of one build when the last has been read; what is written later does not     *)
(* change them.                                                              *)
(*                                                                         *)
(* For FinishedOpens: the mandatory files are on disk or still to be written,    *)
(* whichever file a build is at, so that they are all there when it is through;   *)
(* who wrote last, and whether it is through, changes only with the disk, which   *)
(* an opening that is undisturbed has not seen change.                         *)
(*                                                                         *)
(* For what a corpus holds: the sink of a build is tiled by its sentences and    *)
(* documents after every component, so that the files made of it agree; those     *)
(* still to be written agree with those written before them, and so do those      *)
(* that are read while nobody writes.  The sink also lists the terms that have    *)
(* been streamed, so that inverted and forward index of those files agree.        *)
(***************************************************************************)
EXTENDS Library, IndexProofs

(* How far a build is, and the builds of a behaviour. *)
Phases == {"reading", "writing", "done"}
Builds == [source : DOMAIN Sources, phase : Phases]

(* The fields that are read of a builder and of an opener. *)
Shape ==
  /\ made \in Seq(Builds)
  /\ "pc" \in DOMAIN builder
  /\ opener.pc \in {"opening", "open"}
       => {"pc", "left", "got", "undisturbed", "writer", "finished"} \subseteq DOMAIN opener

(* Whatever is on disk was written by one build, and by the last one when that  *)
(* is writing.                                                               *)
FilesOfOne ==
  /\ \A f, g \in DOMAIN disk : disk[f].build = disk[g].build
  /\ builder.pc = "writing" => \A f \in DOMAIN disk : disk[f].build = Len(made)

(* What is mandatory is read before the opening is through. *)
NoneMissed ==
  /\ opener.pc = "opening" => \A m \in Mandatory : m \in opener.left \/ m \in DOMAIN opener.got
  /\ opener.pc = "open" => Mandatory \subseteq DOMAIN opener.got

(* What has been read is what is there, until it is written to; and what an      *)
(* opening read undisturbed is of one build.                                   *)
ReadAsItIs ==
  /\ opener.pc = "opening" /\ opener.undisturbed
       => \A f \in DOMAIN opener.got : f \in DOMAIN disk /\ opener.got[f] = disk[f]
  /\ opener.pc = "open" /\ opener.undisturbed
       => \A f, g \in DOMAIN opener.got : opener.got[f].build = opener.got[g].build

LibraryInv == Shape /\ FilesOfOne /\ NoneMissed /\ ReadAsItIs

-----------------------------------------------------------------------------

(* Initially nothing is built and nothing is there. *)
LEMMA StartsEmpty == Init => LibraryInv
<1> SUFFICES ASSUME Init PROVE LibraryInv
  OBVIOUS
<1>1. Shape
  BY DEF Init, Shape, Idle, Closed
<1>2. FilesOfOne
  BY DEF Init, FilesOfOne, Idle
<1>3. NoneMissed /\ ReadAsItIs
  BY DEF Init, NoneMissed, ReadAsItIs, Closed
<1> QED
  BY <1>1, <1>2, <1>3 DEF LibraryInv

(* A step of the builder that leaves the disk alone and writes nothing disturbs  *)
(* no one.                                                                   *)
LEMMA Gathering ==
  ASSUME LibraryInv, UNCHANGED <<disk, opener>>, made' \in Seq(Builds), "pc" \in DOMAIN builder',
         builder'.pc # "writing"
  PROVE  LibraryInv'
<1> USE DEF LibraryInv
<1>1. Shape'
  BY DEF Shape
<1>2. FilesOfOne'
  BY DEF FilesOfOne
<1>3. NoneMissed' /\ ReadAsItIs'
  BY DEF NoneMissed, ReadAsItIs
<1> QED
  BY <1>1, <1>2, <1>3

(* A step of the builder on the disk: whoever is opening is told. *)
LEMMA Writing ==
  ASSUME LibraryInv, NEW phase \in Phases, Touch(phase), "pc" \in DOMAIN builder', FilesOfOne'
  PROVE  LibraryInv'
<1> USE DEF LibraryInv
<1>1. made' \in Seq(Builds)
  <2> DEFINE n == Len(made)
  <2>1. made \in [1 .. n -> Builds] /\ n \in Nat
    BY DEF Shape
  <2>2. made' = [made EXCEPT ![n].phase = phase]
    BY DEF Touch
  <2>3. ASSUME n \in 1 .. n
        PROVE  [made[n] EXCEPT !.phase = phase] \in Builds
    <3>1. made[n] \in [source : DOMAIN Sources, phase : Phases]
      BY <2>1, <2>3 DEF Builds
    <3> QED
      BY <3>1 DEF Builds
  <2>4. made' \in [1 .. n -> Builds]
    BY <2>1, <2>2, <2>3
  <2> QED
    BY <2>1, <2>4
<1>2. opener.pc # "opening" => opener' = opener
  BY DEF Touch
<1>3. CASE opener.pc = "opening"
  <2>1. DOMAIN opener' = DOMAIN opener /\ opener'.undisturbed = FALSE
    BY <1>3 DEF Touch, Shape
  <2>2. opener'.pc = opener.pc /\ opener'.left = opener.left /\ opener'.got = opener.got
    BY <1>3 DEF Touch, Shape
  <2> QED
    BY <1>1, <1>3, <2>1, <2>2 DEF Shape, NoneMissed, ReadAsItIs
<1> QED
  BY <1>1, <1>2, <1>3 DEF Shape, NoneMissed, ReadAsItIs

(* A file that is put on a disk that is empty, or holds the work of the same      *)
(* build only, leaves it the work of one build.                                *)
LEMMA PutOnDisk ==
  ASSUME LibraryInv, NEW f, NEW content, NEW whole, NEW phase \in Phases,
         builder.pc = "writing" \/ disk = <<>>,
         disk' = OnDisk(f, content, whole), Touch(phase)
  PROVE  FilesOfOne' /\ \A g \in DOMAIN disk' : disk'[g].build = Len(made)
<1>1. \A g \in DOMAIN disk : disk[g].build = Len(made)
  BY DEF LibraryInv, FilesOfOne
<1>2. \A g \in DOMAIN disk' : disk'[g].build = Len(made)
  BY <1>1 DEF OnDisk
<1>3. Len(made') = Len(made)
  BY DEF Touch, LibraryInv, Shape
<1> QED
  BY <1>2, <1>3 DEF FilesOfOne

(* An opening that goes on after a file, and one that ends at it. *)
ReadOn ==
  /\ DOMAIN opener' = DOMAIN opener /\ opener'.pc \in {"opening", "open"}
  /\ opener'.undisturbed = opener.undisturbed
  /\ opener'.writer = opener.writer /\ opener'.finished = opener.finished
  /\ \A m \in Mandatory : m \in opener'.left \/ m \in DOMAIN opener'.got
  /\ opener'.pc = "open" => opener'.left = {}
  /\ opener.undisturbed => \A g \in DOMAIN opener'.got : g \in DOMAIN disk /\ opener'.got[g] = disk[g]

RefusedAt(f) ==
  /\ f \in Mandatory \/ f \in DOMAIN disk
  /\ f \in DOMAIN disk => ~disk[f].whole
  /\ opener' = [pc |-> "refused", undisturbed |-> opener.undisturbed, finished |-> opener.finished]

(* A file is read: it is the one there, as those that were read undisturbed are.  *)
LEMMA Opening ==
  ASSUME LibraryInv, NEW f, OpenFile(f)
  PROVE  ReadOn \/ RefusedAt(f)
<1> USE DEF LibraryInv
<1>1. opener.pc = "opening" /\ f \in NextToOpen
  BY DEF OpenFile
<1>2. {"pc", "left", "got", "undisturbed", "writer", "finished"} \subseteq DOMAIN opener
  BY <1>1 DEF Shape
<1>3. \A m \in Mandatory : m \in opener.left \/ m \in DOMAIN opener.got
  BY <1>1 DEF NoneMissed
<1>4. CASE f \in DOMAIN disk /\ opener' = [opener EXCEPT
                        !.left = @ \ {f},
                        !.got = [g \in DOMAIN @ \cup {f} |-> IF g = f THEN disk[f] ELSE @[g]],
                        !.pc = IF opener.left = {f} THEN "open" ELSE @]
  <2>1. DOMAIN opener' = DOMAIN opener
    BY <1>4
  <2>2. opener'.got = [g \in DOMAIN opener.got \cup {f} |-> IF g = f THEN disk[f] ELSE opener.got[g]]
    BY <1>2, <1>4
  <2>3. /\ opener'.pc \in {"opening", "open"} /\ opener'.undisturbed = opener.undisturbed
        /\ opener'.writer = opener.writer /\ opener'.finished = opener.finished
    BY <1>1, <1>2, <1>4
  <2>4. /\ \A m \in Mandatory : m \in opener'.left \/ m \in DOMAIN opener'.got
        /\ opener'.pc = "open" => opener'.left = {}
    <3>1. opener'.left = opener.left \ {f}
      BY <1>2, <1>4
    <3>2. opener'.pc = "open" => opener.left = {f}
      BY <1>1, <1>2, <1>4
    <3> QED
      BY <1>3, <2>2, <3>1, <3>2
  <2>5. ASSUME opener.undisturbed
        PROVE  \A g \in DOMAIN opener'.got : g \in DOMAIN disk /\ opener'.got[g] = disk[g]
    BY <1>1, <1>4, <2>2, <2>5 DEF ReadAsItIs
  <2> QED
    BY <2>1, <2>3, <2>4, <2>5 DEF ReadOn
<1>5. CASE f \notin Mandatory /\ opener' = [opener EXCEPT
                        !.left = @ \ {f}, !.pc = IF opener.left = {f} THEN "open" ELSE @]
  <2>1. DOMAIN opener' = DOMAIN opener /\ opener'.got = opener.got
    BY <1>5
  <2>2. /\ opener'.pc \in {"opening", "open"} /\ opener'.undisturbed = opener.undisturbed
        /\ opener'.writer = opener.writer /\ opener'.finished = opener.finished
    BY <1>1, <1>2, <1>5
  <2>3. /\ \A m \in Mandatory : m \in opener'.left \/ m \in DOMAIN opener'.got
        /\ opener'.pc = "open" => opener'.left = {}
    <3>1. opener'.left = opener.left \ {f}
      BY <1>2, <1>5
    <3>2. opener'.pc = "open" => opener.left = {f}
      BY <1>1, <1>2, <1>5
    <3> QED
      BY <1>3, <1>5, <2>1, <3>1, <3>2
  <2>4. opener.undisturbed => \A g \in DOMAIN opener'.got : g \in DOMAIN disk /\ opener'.got[g] = disk[g]
    BY <1>1, <2>1 DEF ReadAsItIs
  <2> QED
    BY <2>1, <2>2, <2>3, <2>4 DEF ReadOn
<1> QED
  BY <1>4, <1>5 DEF OpenFile, RefusedAt

(* Hence a file that is read leaves all that as it was. *)
LEMMA Reading ==
  ASSUME LibraryInv, NEW f, OpenFile(f)
  PROVE  LibraryInv'
<1>1. opener.pc = "opening" /\ UNCHANGED <<made, builder, disk, opens>>
  BY DEF OpenFile
<1>2. FilesOfOne'
  BY <1>1 DEF LibraryInv, FilesOfOne
<1>3. CASE ReadOn
  <2>1. Shape' /\ NoneMissed'
    BY <1>1, <1>3 DEF LibraryInv, Shape, NoneMissed, ReadOn
  <2>2. ReadAsItIs'
    BY <1>1, <1>3 DEF LibraryInv, ReadAsItIs, FilesOfOne, ReadOn
  <2> QED
    BY <1>2, <2>1, <2>2 DEF LibraryInv
<1>4. CASE RefusedAt(f)
  BY <1>1, <1>2, <1>4 DEF LibraryInv, RefusedAt, Shape, NoneMissed, ReadAsItIs
<1> QED
  BY <1>3, <1>4, Opening

-----------------------------------------------------------------------------

(* Every step of Next keeps the invariant. *)
LEMMA LibraryInvKept == LibraryInv /\ [Next]_vars => LibraryInv'
<1> SUFFICES ASSUME LibraryInv, [Next]_vars PROVE LibraryInv'
  OBVIOUS
<1>0. Shape /\ FilesOfOne /\ NoneMissed /\ ReadAsItIs
  BY DEF LibraryInv
<1>1. ASSUME NEW s \in DOMAIN Sources, NEW force \in BOOLEAN, StartBuild(s, force) PROVE LibraryInv'
  <2>1. [source |-> s, phase |-> "reading"] \in Builds
    BY DEF Builds, Phases
  <2>2. made' \in Seq(Builds)
    BY <1>0, <1>1, <2>1 DEF StartBuild, Shape
  <2>3. UNCHANGED <<disk, opener>> /\ builder'.pc # "writing" /\ "pc" \in DOMAIN builder'
    BY <1>1 DEF StartBuild
  <2> QED
    BY <2>2, <2>3, Gathering
<1>2. CASE BuildComponent
  <2>1. UNCHANGED <<made, disk, opener>> /\ builder.pc = "components"
    BY <1>2 DEF BuildComponent
  <2>2. \/ builder' = Idle
        \/ DOMAIN builder' = DOMAIN builder /\ builder'.pc = builder.pc
    BY <1>0, <1>2 DEF BuildComponent, Shape
  <2> QED
    BY <1>0, <2>1, <2>2, Gathering DEF Shape, Idle
<1>3. ASSUME NEW name, BuildAlignment(name) PROVE LibraryInv'
  <2>1. UNCHANGED <<made, disk, opener>> /\ builder.pc = "components"
    BY <1>3 DEF BuildAlignment
  <2>2. \/ builder' = Idle
        \/ DOMAIN builder' = DOMAIN builder /\ builder'.pc = builder.pc
    BY <1>0, <1>3 DEF BuildAlignment, Shape
  <2> QED
    BY <1>0, <2>1, <2>2, Gathering DEF Shape, Idle
<1>4. CASE StartWriting
  <2>1. UNCHANGED <<made, disk, opener>> /\ builder'.pc = "removing" /\ "pc" \in DOMAIN builder'
    BY <1>4 DEF StartWriting
  <2> QED
    BY <1>0, <2>1, Gathering DEF Shape
<1>5. ASSUME NEW f \in DOMAIN disk, RemoveFile(f) PROVE LibraryInv'
  <2>1. builder' = builder /\ builder.pc = "removing" /\ Touch("writing")
    BY <1>5 DEF RemoveFile
  <2>2. FilesOfOne'
    BY <1>0, <1>5, <2>1 DEF RemoveFile, FilesOfOne
  <2> QED
    BY <1>0, <2>1, <2>2, Writing DEF Shape, Phases
<1>6. CASE WriteFile
  <2> DEFINE next == Head(builder.left)
             phase == IF Len(builder.left) = 1 THEN "done" ELSE "writing"
  <2>1. phase \in Phases /\ Touch(phase) /\ disk' = OnDisk(next[1], next[2], TRUE)
    BY <1>6 DEF WriteFile, Phases
  <2>2. builder.pc = "writing" \/ disk = <<>>
    BY <1>6 DEF WriteFile
  <2>3. FilesOfOne'
    BY <2>1, <2>2, PutOnDisk
  <2>4. "pc" \in DOMAIN builder'
    BY <1>6 DEF WriteFile, Idle
  <2> QED
    BY <2>1, <2>3, <2>4, Writing
<1>7. ASSUME NEW part \in BOOLEAN, Dies(part) PROVE LibraryInv'
  <2>1. builder' = Idle /\ Idle.pc # "writing" /\ "pc" \in DOMAIN Idle
    BY <1>7 DEF Dies, Idle
  <2>2. CASE part
    <3>1. builder.pc = "writing" \/ disk = <<>>
      BY <1>7, <2>2 DEF Dies
    <3>2. Touch("writing") /\ disk' = OnDisk(Head(builder.left)[1], Head(builder.left)[2], FALSE)
      BY <1>7, <2>2 DEF Dies
    <3>3. "writing" \in Phases
      BY DEF Phases
    <3>4. FilesOfOne'
      BY <3>1, <3>2, <3>3, PutOnDisk
    <3> QED
      BY <2>1, <3>2, <3>3, <3>4, Writing
  <2>3. CASE ~part
    BY <1>0, <1>7, <2>1, <2>3, Gathering DEF Dies, Shape
  <2> QED
    BY <2>2, <2>3
<1>8. CASE StartOpen
  <2>1. UNCHANGED <<made, builder, disk>>
    BY <1>8 DEF StartOpen
  <2>2. opener' = [pc |-> "opening", left |-> CorpusFiles, got |-> <<>>, undisturbed |-> TRUE,
                   writer |-> Writer, finished |-> Finished]
    BY <1>8 DEF StartOpen
  <2>3. Mandatory \subseteq CorpusFiles
    <3>1. /\ 1 \in DOMAIN OpenOrder /\ 2 \in DOMAIN OpenOrder /\ 3 \in DOMAIN OpenOrder /\ 4 \in DOMAIN OpenOrder
          /\ OpenOrder[1] = {"corpus.json"} /\ OpenOrder[2] = {"inverted.bin", "lexicon.bin"}
          /\ OpenOrder[3] = {"spans.bin"} /\ OpenOrder[4] = {"forward.bin"}
      BY DEF OpenOrder
    <3> QED
      BY <3>1 DEF Mandatory, CorpusFiles
  <2> QED
    BY <1>0, <2>1, <2>2, <2>3 DEF LibraryInv, Shape, FilesOfOne, NoneMissed, ReadAsItIs
<1>9. ASSUME NEW f, OpenFile(f) PROVE LibraryInv'
  BY <1>9, Reading
<1>10. ASSUME NEW r, Ask(r) PROVE LibraryInv'
  BY <1>0, <1>10 DEF Ask, LibraryInv, Shape, FilesOfOne, NoneMissed, ReadAsItIs
<1>11. CASE UNCHANGED vars
  BY <1>0, <1>11 DEF vars, LibraryInv, Shape, FilesOfOne, NoneMissed, ReadAsItIs
<1> QED
  BY <1>1, <1>2, <1>3, <1>4, <1>5, <1>6, <1>7, <1>8, <1>9, <1>10, <1>11 DEF Next

(* What was read undisturbed is of the build that wrote the name of the corpus.  *)
LEMMA InvGivesOneBuild == LibraryInv => OneBuild
<1>1. "corpus.json" \in Mandatory
  BY DEF Mandatory
<1> QED
  BY <1>1 DEF LibraryInv, ReadAsItIs, NoneMissed, OneBuild, OneBuildIn

(* For any sources, builds and openings, and wherever builds die: a corpus that   *)
(* opens while nothing writes its directory has all its files from one build,    *)
(* since remove_dir_all comes before the first file of a build.                *)
THEOREM FilesOfOneBuild == Spec => []OneBuild
<1>1. Spec => []LibraryInv
  BY StartsEmpty, LibraryInvKept, PTL DEF Spec
<1> QED
  BY <1>1, InvGivesOneBuild, PTL

-----------------------------------------------------------------------------
(* A build that got to its end can be opened. *)

(* What is mandatory is on disk or still to be written, and what the build wrote   *)
(* so far is whole.                                                           *)
Planned ==
  /\ builder.pc \in {"components", "removing", "writing"} => made # <<>>
  /\ builder.pc \in {"removing", "writing"} =>
       /\ IsSequence(builder.left) /\ builder.left # <<>>
       /\ \A m \in Mandatory : \/ builder.pc = "writing" /\ m \in DOMAIN disk
                               \/ \E i \in DOMAIN builder.left : builder.left[i][1] = m
  /\ builder.pc = "writing" => \A f \in DOMAIN disk : disk[f].whole

(* The directory of a build that is through is all there, and all its own. *)
Complete ==
  /\ Writer \in {0} \cup DOMAIN made
  /\ Finished => /\ Mandatory \subseteq DOMAIN disk
                 /\ \A f \in DOMAIN disk : disk[f].whole /\ disk[f].build = Writer

(* An opening knows who wrote last, until somebody writes. *)
Watched ==
  opener.pc = "opening" /\ opener.undisturbed => opener.writer = Writer /\ (opener.finished => Finished)

FinishedInv == LibraryInv /\ Planned /\ Complete /\ Watched /\ FinishedOpens

(* A number of the set that none of it exceeds is its maximum. *)
LEMMA MaxIs ==
  ASSUME NEW S \in SUBSET Int, NEW n \in S, \A y \in S : n >= y
  PROVE  Max(S) = n
<1>1. Max(S) \in S /\ \A y \in S : Max(S) >= y
  BY DEF Max
<1>2. Max(S) \in Int /\ n \in Int
  BY <1>1
<1>3. Max(S) >= n /\ n >= Max(S)
  BY <1>1
<1> QED
  BY <1>2, <1>3

(* Two sequences of the same kind, one behind the other. *)
LEMMA JoinedItems ==
  ASSUME NEW S, NEW s \in Seq(S), NEW t \in Seq(S)
  PROVE  /\ s \o t \in Seq(S) /\ Len(s) \in Nat /\ Len(t) \in Nat /\ Len(s \o t) = Len(s) + Len(t)
         /\ \A i \in 1 .. Len(s) : (s \o t)[i] = s[i]
         /\ \A i \in 1 .. Len(t) : (s \o t)[Len(s) + i] = t[i]
<1>1. Len(s) \in Nat /\ Len(t) \in Nat
  BY LenProperties
<1>2. /\ s \o t \in Seq(S) /\ Len(s \o t) = Len(s) + Len(t)
      /\ \A i \in 1 .. Len(s) + Len(t) : (s \o t)[i] = IF i <= Len(s) THEN s[i] ELSE t[i - Len(s)]
  BY ConcatProperties
<1>3. ASSUME NEW i \in 1 .. Len(t)
      PROVE  (s \o t)[Len(s) + i] = t[i]
  <2>1. Len(s) + i \in 1 .. Len(s) + Len(t) /\ ~(Len(s) + i <= Len(s)) /\ (Len(s) + i) - Len(s) = i
    BY <1>1
  <2> QED
    BY <1>2, <2>1
<1>4. ASSUME NEW i \in 1 .. Len(s)
      PROVE  (s \o t)[i] = s[i]
  BY <1>1, <1>2
<1> QED
  BY <1>1, <1>2, <1>3, <1>4

(* All the files that a build may write. *)
FilesOf(b) ==
  {<<"corpus.json", Meta(b)>>, <<"inverted.bin", b.sink.inverted>>, <<"spans.bin", FinalizedSpans(b.sink.spans)>>,
   <<"lexicon.bin", b.sink.lexicon>>, <<"sentence_ids.bin", b.sink.sentence_ids>>, <<"mwt.bin", b.sink.mwts>>,
   <<"spacing.bin", b.sink.spacing>>, <<"empty_nodes.json", b.sink.empty_nodes>>,
   <<"forward.bin", Finalize(b.streaming)>>, <<"alignments.bin", b.edges>>}

(* It writes none but these, and the mandatory ones always. *)
LEMMA ContentsList ==
  ASSUME NEW b
  PROVE  /\ IsSequence(Contents(b)) /\ Contents(b) # <<>>
         /\ \A i \in DOMAIN Contents(b) : Contents(b)[i] \in FilesOf(b)
         /\ \A m \in Mandatory : \E i \in DOMAIN Contents(b) : Contents(b)[i][1] = m
<1> DEFINE first == <<<<"corpus.json", Meta(b)>>, <<"inverted.bin", b.sink.inverted>>,
                      <<"spans.bin", FinalizedSpans(b.sink.spans)>>, <<"lexicon.bin", b.sink.lexicon>>>>
           ids == IF b.sink.sentence_ids = <<>> THEN <<>> ELSE <<<<"sentence_ids.bin", b.sink.sentence_ids>>>>
           mwts == IF b.sink.mwts = <<>> THEN <<>> ELSE <<<<"mwt.bin", b.sink.mwts>>>>
           spacing == IF b.sink.spacing = {} THEN <<>> ELSE <<<<"spacing.bin", b.sink.spacing>>>>
           empty == IF b.sink.empty_nodes = <<>> THEN <<>> ELSE <<<<"empty_nodes.json", b.sink.empty_nodes>>>>
           forward == <<<<"forward.bin", Finalize(b.streaming)>>>>
           edges == IF DOMAIN b.edges = {} THEN <<>> ELSE <<<<"alignments.bin", b.edges>>>>
           items == FilesOf(b)
           middle == first \o ids \o mwts \o spacing \o empty
<1>1. first \in Seq(items) /\ Len(first) = 4
  BY DEF FilesOf
<1>2. ids \in Seq(items) /\ mwts \in Seq(items) /\ spacing \in Seq(items) /\ empty \in Seq(items) /\ edges \in Seq(items)
  BY DEF FilesOf
<1>3. forward \in Seq(items) /\ Len(forward) = 1
  BY DEF FilesOf
<1>4. Contents(b) = middle \o forward \o edges
  BY DEF Contents
<1> HIDE DEF first, ids, mwts, spacing, empty, forward, edges, items
<1>5. middle \in Seq(items) /\ Len(middle) >= 4 /\ \A i \in 1 .. 4 : middle[i] = first[i]
  <2>1. first \o ids \in Seq(items) /\ Len(first \o ids) >= 4 /\ \A i \in 1 .. 4 : (first \o ids)[i] = first[i]
    <3>1. /\ first \o ids \in Seq(items) /\ Len(ids) \in Nat /\ Len(first \o ids) = 4 + Len(ids)
          /\ \A i \in 1 .. 4 : (first \o ids)[i] = first[i]
      <4>0. first \in Seq(items) /\ ids \in Seq(items)
        BY <1>1, <1>2
      <4>1. /\ first \o ids \in Seq(items) /\ Len(ids) \in Nat /\ Len(first \o ids) = Len(first) + Len(ids)
            /\ \A i \in 1 .. Len(first) : (first \o ids)[i] = first[i]
        BY <4>0, JoinedItems
      <4> QED
        BY <1>1, <4>1
    <3> QED
      BY <3>1
  <2> DEFINE two == first \o ids
             three == two \o mwts
             four == three \o spacing
  <2> HIDE DEF two
  <2>2. three \in Seq(items) /\ Len(three) >= 4 /\ \A i \in 1 .. 4 : three[i] = first[i]
    BY <1>2, <2>1, JoinedItems DEF two
  <2> HIDE DEF three
  <2>3. four \in Seq(items) /\ Len(four) >= 4 /\ \A i \in 1 .. 4 : four[i] = first[i]
    BY <1>2, <2>2, JoinedItems
  <2> HIDE DEF four
  <2>4. middle = four \o empty
    BY DEF two, three, four
  <2> HIDE DEF middle
  <2> QED
    BY <1>2, <2>3, <2>4, JoinedItems
<1> HIDE DEF middle
<1> DEFINE n == Len(middle)
<1>6. /\ Contents(b) \in Seq(items) /\ n \in Nat /\ Len(Contents(b)) >= n + 1
      /\ \A i \in 1 .. n : Contents(b)[i] = middle[i]
      /\ Contents(b)[n + 1] = forward[1]
  <2>1. /\ middle \o forward \in Seq(items) /\ Len(middle \o forward) = n + 1
        /\ \A i \in 1 .. n : (middle \o forward)[i] = middle[i]
        /\ (middle \o forward)[n + 1] = forward[1]
    <3>0. middle \in Seq(items) /\ forward \in Seq(items)
      BY <1>3, <1>5
    <3>1. /\ middle \o forward \in Seq(items) /\ n \in Nat /\ Len(middle \o forward) = n + Len(forward)
          /\ \A i \in 1 .. n : (middle \o forward)[i] = middle[i]
          /\ \A i \in 1 .. Len(forward) : (middle \o forward)[n + i] = forward[i]
      BY <3>0, JoinedItems
    <3> QED
      BY <1>3, <3>1
  <2> DEFINE most == middle \o forward
  <2> HIDE DEF most
  <2>2. Contents(b) = most \o edges
    BY <1>4 DEF most
  <2> QED
    BY <1>2, <1>5, <2>1, <2>2, JoinedItems DEF most
<1>7. /\ 1 \in DOMAIN Contents(b) /\ Contents(b)[1][1] = "corpus.json"
      /\ 2 \in DOMAIN Contents(b) /\ Contents(b)[2][1] = "inverted.bin"
      /\ 3 \in DOMAIN Contents(b) /\ Contents(b)[3][1] = "spans.bin"
      /\ 4 \in DOMAIN Contents(b) /\ Contents(b)[4][1] = "lexicon.bin"
  BY <1>5, <1>6 DEF first
<1>8. n + 1 \in DOMAIN Contents(b) /\ Contents(b)[n + 1][1] = "forward.bin"
  BY <1>6 DEF forward
<1>9. IsSequence(Contents(b)) /\ Contents(b) # <<>>
  BY <1>6, OwnItems
<1>10. \A i \in DOMAIN Contents(b) : Contents(b)[i] \in items
  BY <1>6
<1> QED
  BY <1>7, <1>8, <1>9, <1>10 DEF Mandatory, items

-----------------------------------------------------------------------------

(* Initially no build is through. *)
LEMMA NoneFinished == Init => FinishedInv
<1> SUFFICES ASSUME Init PROVE FinishedInv
  OBVIOUS
<1>1. LibraryInv
  BY StartsEmpty
<1>2. Planned /\ Watched /\ FinishedOpens
  BY DEF Init, Planned, Watched, FinishedOpens, Idle, Closed
<1>3. Writer = 0
  <2>1. {0} \cup {b \in DOMAIN made : made[b].phase # "reading"} = {0}
    BY DEF Init
  <2> QED
    BY <2>1, MaxIs DEF Writer
<1>4. Complete
  BY <1>3 DEF Complete, Finished
<1> QED
  BY <1>1, <1>2, <1>4 DEF FinishedInv

(* As long as nobody writes, what is finished stays finished. *)
LEMMA GatheringOn ==
  ASSUME FinishedInv, LibraryInv', Planned', UNCHANGED <<disk, opener>>, Writer' = Writer,
         Finished' <=> Finished, DOMAIN made \subseteq DOMAIN made'
  PROVE  FinishedInv'
<1>1. Complete'
  BY DEF FinishedInv, Complete
<1>2. Watched'
  BY DEF FinishedInv, Watched
<1>3. FinishedOpens'
  BY DEF FinishedInv, FinishedOpens, Whole
<1> QED
  BY <1>1, <1>2, <1>3 DEF FinishedInv

(* Whoever writes is the last to have written. *)
LEMMA WritingOn ==
  ASSUME FinishedInv, LibraryInv', Planned', made # <<>>, NEW phase \in {"writing", "done"}, Touch(phase),
         phase = "done" => /\ Mandatory \subseteq DOMAIN disk'
                           /\ \A f \in DOMAIN disk' : disk'[f].whole /\ disk'[f].build = Len(made)
  PROVE  FinishedInv'
<1> DEFINE n == Len(made)
<1>1. /\ n \in Nat \ {0} /\ DOMAIN made = 1 .. n /\ DOMAIN made' = 1 .. n
      /\ made'[n].phase = phase
  <2>1. made \in Seq(Builds) /\ n \in Nat \ {0} /\ DOMAIN made = 1 .. n
    BY EmptySeq, LenProperties DEF FinishedInv, LibraryInv, Shape
  <2>2. made[n] \in Builds /\ made' = [made EXCEPT ![n].phase = phase]
    BY <2>1 DEF Touch
  <2>3. DOMAIN made' = 1 .. n /\ made'[n] = [made[n] EXCEPT !.phase = phase]
    BY <2>1, <2>2
  <2>4. [made[n] EXCEPT !.phase = phase].phase = phase
    BY <2>2 DEF Builds
  <2> QED
    BY <2>1, <2>3, <2>4
<1>2. Writer' = n
  <2> DEFINE touched == {0} \cup {b \in DOMAIN made' : made'[b].phase # "reading"}
  <2>1. touched \in SUBSET Int /\ n \in touched /\ \A y \in touched : n >= y
    BY <1>1
  <2> QED
    BY <2>1, MaxIs DEF Writer
<1>3. Finished' <=> phase = "done"
  BY <1>1, <1>2 DEF Finished
<1>4. Complete'
  BY <1>1, <1>2, <1>3 DEF Complete
<1>5. CASE opener.pc = "opening"
  <2>1. opener'.pc = "opening" /\ ~opener'.undisturbed
    BY <1>5 DEF Touch, FinishedInv, LibraryInv, Shape
  <2> QED
    BY <1>4, <2>1 DEF FinishedInv, Watched, FinishedOpens
<1>6. CASE opener.pc # "opening"
  <2>1. opener' = opener
    BY <1>6 DEF Touch
  <2> QED
    BY <1>4, <1>6, <2>1 DEF FinishedInv, Watched, FinishedOpens, Whole
<1> QED
  BY <1>5, <1>6

(* What an opening of a finished directory reads is whole and of its build, and    *)
(* nothing that it needs is missing.                                           *)
LEMMA ReadingOn ==
  ASSUME FinishedInv, LibraryInv', NEW f, OpenFile(f)
  PROVE  FinishedInv'
<1>0. LibraryInv /\ Planned /\ Complete /\ Watched
  BY DEF FinishedInv
<1>1. opener.pc = "opening" /\ UNCHANGED <<made, builder, disk>>
  BY DEF OpenFile
<1>3. Writer' = Writer /\ (Finished' <=> Finished)
  BY <1>1 DEF Writer, Finished
<1>4. Planned' /\ Complete'
  BY <1>0, <1>1, <1>3 DEF Planned, Complete
<1>5. ASSUME opener.undisturbed, opener.finished
      PROVE  Finished /\ opener.writer = Writer
  BY <1>0, <1>1, <1>5 DEF Watched
<1>6. CASE RefusedAt(f)
  <2>1. ~(opener.undisturbed /\ opener.finished)
    BY <1>0, <1>5, <1>6 DEF Complete, RefusedAt
  <2> QED
    BY <1>4, <1>6, <2>1 DEF FinishedInv, Watched, FinishedOpens, RefusedAt
<1>7. CASE ReadOn
  <2>1. Watched'
    BY <1>0, <1>1, <1>3, <1>7 DEF Watched, ReadOn
  <2>2. ASSUME opener'.undisturbed, opener'.finished, NEW g \in DOMAIN opener'.got
        PROVE  opener'.got[g].whole /\ opener'.got[g].build = opener'.writer
    <3>1. Finished /\ opener.writer = Writer
      BY <1>5, <1>7, <2>2 DEF ReadOn
    <3>2. g \in DOMAIN disk /\ opener'.got[g] = disk[g]
      BY <1>7, <2>2 DEF ReadOn
    <3> QED
      BY <1>0, <1>7, <3>1, <3>2 DEF Complete, ReadOn
  <2>3. FinishedOpens'
    BY <1>7, <2>2 DEF FinishedOpens, Whole, ReadOn
  <2> QED
    BY <1>4, <2>1, <2>3 DEF FinishedInv
<1> QED
  BY <1>0, <1>6, <1>7, Opening

(* The first item of a sequence and the rest. *)
LEMMA FirstItem ==
  ASSUME NEW left, IsSequence(left), left # <<>>
  PROVE  LET n == Len(left) IN
         /\ n \in Nat \ {0} /\ DOMAIN left = 1 .. n /\ Head(left) = left[1]
         /\ IsSequence(Tail(left)) /\ Len(Tail(left)) = n - 1 /\ DOMAIN Tail(left) = 1 .. n - 1
         /\ \A i \in 1 .. n - 1 : Tail(left)[i] = left[i + 1]
<1> DEFINE n == Len(left)
           S == {left[i] : i \in DOMAIN left}
<1>1. left \in Seq(S)
  BY DEF IsSequence
<1> HIDE DEF S
<1>2. n \in Nat \ {0} /\ DOMAIN left = 1 .. n /\ Head(left) = left[1]
  BY <1>1, EmptySeq, LenProperties
<1>3. /\ Tail(left) \in Seq(S) /\ Len(Tail(left)) = n - 1
      /\ \A i \in 1 .. Len(Tail(left)) : Tail(left)[i] = left[i + 1]
  BY <1>1, HeadTailProperties
<1>4. IsSequence(Tail(left)) /\ DOMAIN Tail(left) = 1 .. Len(Tail(left))
  BY <1>3, OwnItems, LenProperties
<1> QED
  BY <1>2, <1>3, <1>4

(* A file of a build is written, the last one or another. *)
LEMMA WroteFile ==
  ASSUME FinishedInv, LibraryInv', WriteFile
  PROVE  FinishedInv'
<1> DEFINE left == builder.left
           next == Head(left)
           phase == IF Len(left) = 1 THEN "done" ELSE "writing"
<1>0. LibraryInv /\ Planned
  BY DEF FinishedInv
<1>1. /\ builder.pc = "writing" \/ (builder.pc = "removing" /\ disk = <<>>)
      /\ disk' = OnDisk(next[1], next[2], TRUE) /\ Touch(phase) /\ phase \in {"writing", "done"}
  BY DEF WriteFile
<1>2. /\ made # <<>> /\ IsSequence(left) /\ left # <<>>
      /\ \A m \in Mandatory : m \in DOMAIN disk \/ \E i \in DOMAIN left : left[i][1] = m
  BY <1>0, <1>1 DEF Planned
<1>3. \A f \in DOMAIN disk' : disk'[f].whole /\ disk'[f].build = Len(made)
  <2>1. \A f \in DOMAIN disk : disk[f].whole
    BY <1>0, <1>1 DEF Planned
  <2>2. \A f \in DOMAIN disk' : disk'[f].whole
    BY <1>1, <2>1 DEF OnDisk
  <2>3. \A f \in DOMAIN disk' : disk'[f].build = Len(made)
    BY <1>0, <1>1, PutOnDisk DEF Phases
  <2> QED
    BY <2>2, <2>3
<1>4. DOMAIN disk' = DOMAIN disk \cup {next[1]}
  BY <1>1 DEF OnDisk
<1> DEFINE n == Len(left)
<1>5. /\ n \in Nat \ {0} /\ DOMAIN left = 1 .. n /\ next = left[1]
      /\ IsSequence(Tail(left)) /\ Len(Tail(left)) = n - 1 /\ DOMAIN Tail(left) = 1 .. n - 1
      /\ \A i \in 1 .. n - 1 : Tail(left)[i] = left[i + 1]
  BY <1>2, FirstItem
<1>6. made' # <<>>
  BY <1>0, <1>1, <1>2 DEF Touch, LibraryInv, Shape
<1>7. CASE n = 1
  <2>1. builder'.pc = "idle"
    BY <1>7 DEF WriteFile, Idle
  <2>2. Planned'
    BY <2>1 DEF Planned
  <2>3. Mandatory \subseteq DOMAIN disk'
    BY <1>2, <1>4, <1>5, <1>7
  <2> QED
    BY <1>1, <1>2, <1>3, <2>2, <2>3, WritingOn
<1>8. CASE n # 1
  <2>1. builder'.pc = "writing" /\ builder'.left = Tail(left)
    BY <1>8 DEF WriteFile
  <2>2. Tail(left) # <<>>
    <3>1. Len(Tail(left)) # 0 /\ Len(<<>>) = 0
      BY <1>5, <1>8
    <3> QED
      BY <3>1
  <2>3. ASSUME NEW m \in Mandatory, m \notin DOMAIN disk'
        PROVE  \E i \in DOMAIN Tail(left) : Tail(left)[i][1] = m
    <3>1. PICK i \in 1 .. n : left[i][1] = m
      BY <1>2, <1>4, <1>5, <2>3
    <3>2. i # 1
      BY <1>4, <1>5, <2>3, <3>1
    <3>3. i - 1 \in 1 .. n - 1 /\ (i - 1) + 1 = i
      BY <1>5, <3>2
    <3> QED
      BY <1>5, <3>1, <3>3
  <2>4. Planned'
    BY <1>3, <1>5, <1>6, <2>1, <2>2, <2>3 DEF Planned
  <2>5. phase = "writing"
    BY <1>8
  <2> QED
    BY <1>1, <1>2, <2>4, <2>5, WritingOn
<1> QED
  BY <1>7, <1>8

(* Every step of Next keeps the invariant of builds that are through. *)
LEMMA FinishedInvKept == FinishedInv /\ [Next]_vars => FinishedInv'
<1> SUFFICES ASSUME FinishedInv, [Next]_vars PROVE FinishedInv'
  OBVIOUS
<1>0. LibraryInv /\ LibraryInv' /\ Shape /\ Planned /\ Complete
  BY LibraryInvKept DEF FinishedInv, LibraryInv
<1>1. ASSUME UNCHANGED made PROVE Writer' = Writer /\ (Finished' <=> Finished) /\ DOMAIN made \subseteq DOMAIN made'
  BY <1>1 DEF Writer, Finished
<1>2. ASSUME NEW s \in DOMAIN Sources, NEW force \in BOOLEAN, StartBuild(s, force) PROVE FinishedInv'
  <2> DEFINE n == Len(made)
             touched == {b \in DOMAIN made : made[b].phase # "reading"}
  <2>1. /\ n \in Nat /\ DOMAIN made = 1 .. n /\ DOMAIN made' = 1 .. n + 1 /\ made' # <<>>
        /\ \A i \in 1 .. n : made'[i] = made[i]
        /\ made'[n + 1].phase = "reading"
    <3>1. [source |-> s, phase |-> "reading"] \in Builds
      BY DEF Builds, Phases
    <3>2. made \in Seq(Builds) /\ made' = Append(made, [source |-> s, phase |-> "reading"])
      BY <1>0, <1>2 DEF StartBuild, Shape
    <3>3. n \in Nat /\ DOMAIN made = 1 .. n
      BY <3>2, LenProperties
    <3>4. /\ made' \in Seq(Builds) /\ Len(made') = n + 1
          /\ \A i \in 1 .. n : made'[i] = made[i]
          /\ made'[n + 1] = [source |-> s, phase |-> "reading"]
      BY <3>1, <3>2, <3>3, AppendProperties
    <3>5. DOMAIN made' = 1 .. n + 1 /\ made' # <<>>
      BY <3>3, <3>4
    <3> QED
      BY <3>3, <3>4, <3>5
  <2>2. touched' = touched
    BY <2>1
  <2>3. Writer' = Writer
    BY <2>2 DEF Writer
  <2>4. Finished' <=> Finished
    BY <1>0, <2>1, <2>3 DEF Finished, Complete
  <2>5. UNCHANGED <<disk, opener>> /\ builder'.pc = "components"
    BY <1>2 DEF StartBuild
  <2>6. Planned'
    BY <2>1, <2>5 DEF Planned
  <2>7. DOMAIN made \subseteq DOMAIN made'
    BY <2>1
  <2> QED
    BY <1>0, <2>3, <2>4, <2>5, <2>6, <2>7, GatheringOn
<1>3. ASSUME UNCHANGED <<made, disk, opener>>, builder.pc = "components",
             builder' = Idle \/ builder'.pc = "components"
      PROVE  FinishedInv'
  <2>1. Planned'
    BY <1>0, <1>3 DEF Planned, Idle
  <2> QED
    BY <1>0, <1>1, <1>3, <2>1, GatheringOn
<1>4. CASE BuildComponent
  BY <1>0, <1>3, <1>4 DEF BuildComponent, Shape
<1>5. ASSUME NEW name, BuildAlignment(name) PROVE FinishedInv'
  BY <1>0, <1>3, <1>5 DEF BuildAlignment, Shape
<1>6. CASE StartWriting
  <2>1. UNCHANGED <<made, disk, opener>> /\ builder.pc = "components"
    BY <1>6 DEF StartWriting
  <2>2. builder'.pc = "removing" /\ builder'.left = Contents(builder)
    BY <1>6 DEF StartWriting
  <2>3. Planned'
    BY <1>0, <2>1, <2>2, ContentsList DEF Planned
  <2> QED
    BY <1>0, <1>1, <2>1, <2>3, GatheringOn
<1>7. ASSUME NEW f \in DOMAIN disk, RemoveFile(f) PROVE FinishedInv'
  <2>1. builder' = builder /\ builder.pc = "removing" /\ Touch("writing") /\ made # <<>>
    BY <1>0, <1>7 DEF RemoveFile, Planned
  <2>2. made' # <<>>
    BY <1>0, <2>1 DEF Touch, Shape
  <2>3. Planned'
    BY <1>0, <2>1, <2>2 DEF Planned
  <2> QED
    BY <1>0, <2>1, <2>3, WritingOn
<1>8. CASE WriteFile
  BY <1>0, <1>8, WroteFile
<1>9. ASSUME NEW part \in BOOLEAN, Dies(part) PROVE FinishedInv'
  <2>1. builder' = Idle /\ Idle.pc = "idle"
    BY <1>9 DEF Dies, Idle
  <2>2. Planned'
    BY <2>1 DEF Planned
  <2>3. CASE part
    <3>1. made # <<>> /\ Touch("writing")
      BY <1>0, <1>9, <2>3 DEF Dies, Planned
    <3> QED
      BY <1>0, <2>2, <3>1, WritingOn
  <2>4. CASE ~part
    BY <1>0, <1>1, <1>9, <2>2, <2>4, GatheringOn DEF Dies
  <2> QED
    BY <2>3, <2>4
<1>10. CASE StartOpen
  <2>1. UNCHANGED <<made, builder, disk>>
    BY <1>10 DEF StartOpen
  <2>2. opener'.pc = "opening" /\ opener'.writer = Writer /\ opener'.finished = Finished
    BY <1>10 DEF StartOpen
  <2>3. Planned' /\ Complete'
    BY <1>0, <1>1, <2>1 DEF Planned, Complete
  <2>4. Watched' /\ FinishedOpens'
    BY <1>1, <2>1, <2>2 DEF Watched, FinishedOpens
  <2> QED
    BY <1>0, <2>3, <2>4 DEF FinishedInv
<1>11. ASSUME NEW f, OpenFile(f) PROVE FinishedInv'
  BY <1>0, <1>11, ReadingOn
<1>12. ASSUME UNCHANGED <<made, builder, disk, opener>> PROVE FinishedInv'
  <2>1. Planned'
    BY <1>0, <1>12 DEF Planned
  <2> QED
    BY <1>0, <1>1, <1>12, <2>1, GatheringOn
<1>13. ASSUME NEW r, Ask(r) PROVE FinishedInv'
  BY <1>12, <1>13 DEF Ask
<1>14. CASE UNCHANGED vars
  BY <1>12, <1>14 DEF vars
<1> QED
  BY <1>2, <1>4, <1>5, <1>6, <1>7, <1>8, <1>9, <1>10, <1>11, <1>13, <1>14 DEF Next

(* For any sources, builds and openings: a directory opens after a build that got   *)
(* to its end, with every file whole and from that build, however many builds      *)
(* before it died, and wherever.                                               *)
THEOREM FinishedBuildOpens == Spec => []FinishedOpens
<1>1. Spec => []FinishedInv
  BY NoneFinished, FinishedInvKept, PTL DEF Spec
<1>2. FinishedInv => FinishedOpens
  BY DEF FinishedInv
<1> QED
  BY <1>1, <1>2, PTL

-----------------------------------------------------------------------------
(* What is gathered is what is asked: from the sink of a build to the files and   *)
(* to an open corpus.                                                        *)

(* The layers that a token of the sources has several terms of: a feature key that   *)
(* comes again, where the features are decomposed.                             *)
RepeatedIn(source) ==
  UNION {UNION {SeveralIn(source.components[c][path], source.strict, source.decompose_feats) :
                path \in DOMAIN source.components[c]} : c \in DOMAIN source.components}
RepeatedKeys == UNION {RepeatedIn(Sources[s]) : s \in DOMAIN Sources}

(* What two files of one build have to do with each other: the spans tile the     *)
(* positions that the corpus counts and there are as many documents as names, as   *)
(* many sentences as ids, and no empty node of a sentence there is not; the         *)
(* inverted and the forward index say the same, the lexicon has the terms listed,  *)
(* and neither these nor the spacing is of a position the corpus does not count.    *)
Agree(f, x, g, y) ==
  /\ f = "corpus.json" /\ g = "spans.bin" =>
       /\ Tiles(LayerOf(y, "sentence"), x.token_count)
       /\ Tiles(LayerOf(y, "document"), x.token_count)
       /\ IsSequence(x.document_names) /\ Len(x.document_names) = Len(LayerOf(y, "document"))
       /\ StartsAmong(LayerOf(y, "document"), LayerOf(y, "sentence"))
  /\ f = "sentence_ids.bin" /\ g = "spans.bin" => IsSequence(x) /\ Len(x) = Len(LayerOf(y, "sentence"))
  /\ f = "empty_nodes.json" /\ g = "spans.bin" => NumberedNodes(x, Len(LayerOf(y, "sentence")))
  /\ f = "corpus.json" /\ g = "forward.bin" => y.tokens \in 0 .. x.token_count /\ DOMAIN y.layers \subseteq x.layers
  /\ f = "inverted.bin" /\ g = "forward.bin" => SameTerms(x, y, RepeatedKeys)
  /\ f = "inverted.bin" /\ g = "lexicon.bin" => y = TermsOf(x)
  /\ f = "corpus.json" /\ g = "spacing.bin" => y \subseteq 0 .. x.token_count - 1

(* Every two of some files. *)
AllAgree(files) == \A a, b \in files : Agree(a[1], a[2], b[1], b[2])

(* The files that a build has yet to write, those on disk, those an opening has.  *)
StillToWrite == {<<builder.left[i][1], builder.left[i][2]>> : i \in DOMAIN builder.left}
OnHand == {<<f, disk[f].content>> : f \in DOMAIN disk}
InHand(got) == {<<f, got[f].content>> : f \in DOMAIN got}

(* What a build has at hand: a sink that is tiled, and that says what was streamed. *)
Gathered(sink, streaming) == GatheredSink(sink) /\ Matched(sink, streaming, RepeatedKeys)

(* A build has gathered some components; its files agree, with each other while it *)
(* has yet to write them and with those it wrote; whatever is left on disk agrees;  *)
(* and so does what was read undisturbed.                                       *)
GatheringInv ==
  /\ builder.pc = "components" =>
       /\ made # <<>> /\ {"left", "sink", "streaming", "components", "edges", "alignments"} \subseteq DOMAIN builder
       /\ IsSequence(builder.left)
       /\ \A i \in DOMAIN builder.left : builder.left[i] \in DOMAIN Current.components
       /\ Gathered(builder.sink, builder.streaming)
  /\ builder.pc \in {"removing", "writing"} => AllAgree(StillToWrite)
  /\ builder.pc = "writing" => AllAgree(StillToWrite \cup OnHand)
  /\ AllAgree(OnHand)
  /\ opener.pc = "open" /\ opener.undisturbed => AllAgree(InHand(opener.got))

(* Of fewer files no more can disagree. *)
LEMMA FewerAgree ==
  ASSUME NEW S, AllAgree(S), NEW T, T \subseteq S
  PROVE  AllAgree(T)
BY DEF AllAgree

(* The files of a build agree, as its sink is what was gathered. *)
LEMMA FilesAgree ==
  ASSUME NEW b, Gathered(b.sink, b.streaming)
  PROVE  AllAgree(FilesOf(b))
<1> DEFINE sink == b.sink
           spans == FinalizedSpans(sink.spans)
<1>1. SentencesTile(sink) /\ DocumentsTile(sink, sink.position)
  BY DEF Gathered, GatheredSink
<1>2. LayerOf(spans, "sentence") = LayerOf(sink.spans, "sentence")
  <2>1. Tiles(LayerOf(sink.spans, "sentence"), sink.position)
    BY <1>1 DEF SentencesTile
  <2> QED
    BY <2>1, FinalizedTiles
<1>3. LayerOf(spans, "document") = LayerOf(sink.spans, "document")
  <2>1. Tiles(LayerOf(sink.spans, "document"), sink.position)
    BY <1>1 DEF DocumentsTile
  <2> QED
    BY <2>1, FinalizedTiles
<1>4. Meta(b).token_count = sink.position /\ Meta(b).document_names = sink.document_names
  BY DEF Meta
<1>5. Agree("corpus.json", Meta(b), "spans.bin", spans)
  <2> HIDE DEF spans
  <2> QED
    BY <1>1, <1>2, <1>3, <1>4 DEF Agree, SentencesTile, DocumentsTile
<1>6. Agree("sentence_ids.bin", sink.sentence_ids, "spans.bin", spans)
  <2> HIDE DEF spans
  <2> QED
    BY <1>1, <1>2 DEF Agree, SentencesTile
<1>7. Agree("empty_nodes.json", sink.empty_nodes, "spans.bin", spans)
  <2> HIDE DEF spans
  <2> QED
    BY <1>1, <1>2 DEF Agree, SentencesTile
<1> DEFINE forward == Finalize(b.streaming)
<1>9. /\ SameTerms(sink.inverted, forward, RepeatedKeys) /\ forward.tokens \in 0 .. sink.position
      /\ DOMAIN forward.layers \subseteq sink.layers
  <2>1. Matched(sink, b.streaming, RepeatedKeys)
    BY DEF Gathered
  <2> QED
    BY <2>1, WrittenIndexesAgree
<1> HIDE DEF forward
<1>10. Agree("corpus.json", Meta(b), "forward.bin", forward)
  <2>1. Meta(b).layers = sink.layers
    BY DEF Meta
  <2> QED
    BY <1>4, <1>9, <2>1 DEF Agree
<1>11. Agree("inverted.bin", sink.inverted, "forward.bin", forward)
  BY <1>9 DEF Agree
<1>12. Agree("inverted.bin", sink.inverted, "lexicon.bin", sink.lexicon)
  BY DEF Agree, Gathered, Matched
<1>13. Agree("corpus.json", Meta(b), "spacing.bin", sink.spacing)
  BY <1>4 DEF Agree, Gathered, Matched
<1>8. ASSUME NEW x \in FilesOf(b), NEW y \in FilesOf(b)
      PROVE  Agree(x[1], x[2], y[1], y[2])
  <2>1. CASE y[1] = "spans.bin" /\ x[1] \in {"corpus.json", "sentence_ids.bin", "empty_nodes.json"}
    <3>1. y[2] = spans
      BY <2>1 DEF FilesOf
    <3>2. \/ x[1] = "corpus.json" /\ x[2] = Meta(b)
          \/ x[1] = "sentence_ids.bin" /\ x[2] = sink.sentence_ids
          \/ x[1] = "empty_nodes.json" /\ x[2] = sink.empty_nodes
      BY <2>1 DEF FilesOf
    <3> HIDE DEF spans
    <3> QED
      BY <1>5, <1>6, <1>7, <2>1, <3>1, <3>2
  <2>2. CASE x[1] = "corpus.json" /\ y[1] \in {"forward.bin", "spacing.bin"}
    <3>1. x[2] = Meta(b)
      BY <2>2 DEF FilesOf
    <3>2. (y[1] = "forward.bin" /\ y[2] = forward) \/ (y[1] = "spacing.bin" /\ y[2] = sink.spacing)
      BY <2>2 DEF FilesOf, forward
    <3> QED
      BY <1>10, <1>13, <2>2, <3>1, <3>2
  <2>3. CASE x[1] = "inverted.bin" /\ y[1] \in {"forward.bin", "lexicon.bin"}
    <3>1. x[2] = sink.inverted
      BY <2>3 DEF FilesOf
    <3>2. (y[1] = "forward.bin" /\ y[2] = forward) \/ (y[1] = "lexicon.bin" /\ y[2] = sink.lexicon)
      BY <2>3 DEF FilesOf, forward
    <3> QED
      BY <1>11, <1>12, <2>3, <3>1, <3>2
  <2>4. CASE /\ ~(y[1] = "spans.bin" /\ x[1] \in {"corpus.json", "sentence_ids.bin", "empty_nodes.json"})
             /\ ~(x[1] = "corpus.json" /\ y[1] \in {"forward.bin", "spacing.bin"})
             /\ ~(x[1] = "inverted.bin" /\ y[1] \in {"forward.bin", "lexicon.bin"})
    BY <2>4 DEF Agree
  <2> QED
    BY <2>1, <2>2, <2>3, <2>4
<1> QED
  BY <1>8 DEF AllAgree

(* Nothing is gathered, or there, at first. *)
LEMMA NothingGathered == Init => GatheringInv
<1> SUFFICES ASSUME Init PROVE GatheringInv
  OBVIOUS
<1>1. OnHand = {}
  BY DEF Init, OnHand
<1>2. builder.pc = "idle" /\ opener.pc = "closed"
  BY DEF Init, Idle, Closed
<1> QED
  BY <1>1, <1>2 DEF GatheringInv, AllAgree

(* A build is given a source and starts with an empty sink. *)
LEMMA GatheringStarts ==
  ASSUME LibraryInv, GatheringInv, NEW s \in DOMAIN Sources, NEW force \in BOOLEAN, StartBuild(s, force)
  PROVE  GatheringInv'
<1>1. /\ made' = Append(made, [source |-> s, phase |-> "reading"])
      /\ builder' = [pc |-> "components", left |-> Names(Sources[s].components), sink |-> NewSink,
                     streaming |-> NewStreaming, components |-> <<>>,
                     alignments |-> {}, edges |-> <<>>]
      /\ UNCHANGED <<disk, opener>>
  BY DEF StartBuild
<1>2. made' # <<>> /\ Current' = Sources[s]
  <2>1. made \in Seq(Builds) /\ [source |-> s, phase |-> "reading"] \in Builds
    BY DEF LibraryInv, Shape, Builds, Phases
  <2>2. Len(made) \in Nat /\ Len(made') = Len(made) + 1 /\ made'[Len(made) + 1] = [source |-> s, phase |-> "reading"]
    BY <1>1, <2>1, AppendProperties, LenProperties
  <2>3. Last(made') = [source |-> s, phase |-> "reading"]
    BY <2>2 DEF Last
  <2>4. made' # <<>>
    BY <1>1, <2>1, AppendProperties
  <2> QED
    BY <2>3, <2>4 DEF Current
<1>3. /\ IsSequence(Names(Sources[s].components))
      /\ \A i \in DOMAIN Names(Sources[s].components) : Names(Sources[s].components)[i] \in DOMAIN Sources[s].components
  <2>1. Ranked(DOMAIN Sources[s].components)
    BY SourcesAssumption
  <2> QED
    BY <2>1, SortedNames DEF Names
<1>4. Gathered(NewSink, NewStreaming)
  BY NewSinkGathered, NewBuildMatched DEF Gathered
<1>5. /\ builder'.pc = "components" /\ builder'.left = Names(Sources[s].components) /\ builder'.sink = NewSink /\ builder'.streaming = NewStreaming
      /\ {"left", "sink", "streaming", "components", "edges", "alignments"} \subseteq DOMAIN builder'
  BY <1>1
<1>6. AllAgree(OnHand)' /\ (opener.pc = "open" /\ opener.undisturbed => AllAgree(InHand(opener.got)))'
  BY <1>1 DEF GatheringInv, OnHand, InHand
<1>7. /\ IsSequence(builder'.left) /\ \A i \in DOMAIN builder'.left : builder'.left[i] \in DOMAIN (Current').components
      /\ Gathered(builder'.sink, builder'.streaming)
  BY <1>2, <1>3, <1>4, <1>5
<1> QED
  BY <1>2, <1>5, <1>6, <1>7 DEF GatheringInv

(* What comes again in a file of a source. *)
LEMMA SourceRepeats ==
  ASSUME NEW s \in DOMAIN Sources, NEW c \in DOMAIN Sources[s].components,
         NEW path \in DOMAIN Sources[s].components[c]
  PROVE  SeveralIn(Sources[s].components[c][path], Sources[s].strict, Sources[s].decompose_feats) \subseteq RepeatedKeys
<1> DEFINE source == Sources[s]
           several == SeveralIn(source.components[c][path], source.strict, source.decompose_feats)
<1>1. several \subseteq RepeatedIn(source)
  <2> HIDE DEF source
  <2> QED BY c \in DOMAIN source.components, path \in DOMAIN source.components[c] DEF RepeatedIn, source
<1>2. RepeatedIn(source) \subseteq RepeatedKeys
  BY DEF RepeatedKeys
<1> QED BY <1>1, <1>2

(* The directory of a component is built and merged into what there is. *)
LEMMA GatheringGoesOn ==
  ASSUME LibraryInv, GatheringInv, BuildComponent
  PROVE  GatheringInv'
<1> DEFINE name == Head(builder.left)
           files == Current.components[name]
           b == BuildFromDirectory(files, Current.strict, Current.decompose_feats,
                                   builder.streaming, builder.sink.position)
<1>1. /\ builder.pc = "components" /\ builder.left # <<>> /\ UNCHANGED <<made, disk, opener>>
      /\ builder' = IF ~b.ok THEN Idle
                    ELSE [builder EXCEPT !.left = Tail(@), !.streaming = b.streaming,
                                         !.sink = MergeFrom(@, b.sink),
                                         !.components = Append(@, Component(builder, name, b.sink))]
  BY DEF BuildComponent
<1>2. /\ made # <<>> /\ {"left", "sink", "streaming", "components", "edges", "alignments"} \subseteq DOMAIN builder
      /\ IsSequence(builder.left)
      /\ \A i \in DOMAIN builder.left : builder.left[i] \in DOMAIN Current.components
      /\ Gathered(builder.sink, builder.streaming)
  BY <1>1 DEF GatheringInv
<1>3. AllAgree(OnHand)' /\ (opener.pc = "open" /\ opener.undisturbed => AllAgree(InHand(opener.got)))'
  BY <1>1 DEF GatheringInv, OnHand, InHand
<1>4. CASE ~b.ok
  <2>1. builder'.pc = "idle"
    BY <1>1, <1>4 DEF Idle
  <2> QED
    BY <1>3, <2>1 DEF GatheringInv
<1>5. CASE b.ok
  <2>1. Last(made).source \in DOMAIN Sources
    <3>1. made \in Seq(Builds)
      BY DEF LibraryInv, Shape
    <3>2. Len(made) \in DOMAIN made
      BY <1>2, <3>1, EmptySeq, LenProperties
    <3>3. Last(made) \in Builds
      BY <3>1, <3>2 DEF Last
    <3> QED
      BY <3>3 DEF Builds
  <2>2. /\ Len(builder.left) \in Nat \ {0} /\ DOMAIN builder.left = 1 .. Len(builder.left) /\ name = builder.left[1]
        /\ IsSequence(Tail(builder.left)) /\ DOMAIN Tail(builder.left) = 1 .. Len(builder.left) - 1
        /\ \A i \in 1 .. Len(builder.left) - 1 : Tail(builder.left)[i] = builder.left[i + 1]
    BY <1>1, <1>2, FirstItem
  <2>3. name \in DOMAIN Current.components
    BY <1>2, <2>2
  <2>4. IsDirectory(files) /\ Current.strict \in BOOLEAN
    BY <2>1, <2>3, SourcesAssumption DEF Current
  <2>5. GatheredSink(b.sink) /\ Matched(MergeFrom(builder.sink, b.sink), b.streaming, RepeatedKeys)
    <3>1. GatheredSink(b.sink)
      BY <1>5, <2>4, DirectoryGathered
    <3>2. Matched(builder.sink, builder.streaming, RepeatedKeys) /\ DOMAIN builder.sink = SinkFields
      BY <1>2 DEF Gathered, GatheredSink, SentencesTile
    <3> DEFINE decompose == Current.decompose_feats
               strict == Current.strict
    <3>3. IsDirectory(files) /\ strict \in BOOLEAN /\ b.ok
          /\ b = BuildFromDirectory(files, strict, decompose, builder.streaming, builder.sink.position)
      BY <1>5, <2>4
    <3>4. \A path \in DOMAIN files : SeveralIn(files[path], strict, decompose) \subseteq RepeatedKeys
      BY <2>1, <2>3, SourceRepeats DEF Current
    <3> HIDE DEF b, files, strict, decompose
    <3>5. Matched(MergeFrom(builder.sink, b.sink), b.streaming, RepeatedKeys)
      BY <3>2, <3>3, <3>4, DirectoryMatched
    <3> QED
      BY <3>1, <3>5 DEF b
  <2> HIDE DEF b, name
  <2>6. Gathered(MergeFrom(builder.sink, b.sink), b.streaming)
    BY <1>2, <2>5, MergeKeeps DEF Gathered
  <2>7. /\ DOMAIN builder' = DOMAIN builder /\ builder'.pc = "components"
        /\ builder'.left = Tail(builder.left) /\ builder'.sink = MergeFrom(builder.sink, b.sink)
        /\ builder'.streaming = b.streaming
    BY <1>1, <1>2, <1>5
  <2>8. Current' = Current
    BY <1>1 DEF Current
  <2>9. \A i \in DOMAIN Tail(builder.left) : Tail(builder.left)[i] \in DOMAIN Current.components
    BY <1>2, <2>2
  <2>10. /\ made' # <<>> /\ {"left", "sink", "streaming", "components", "edges", "alignments"} \subseteq DOMAIN builder'
         /\ IsSequence(builder'.left)
         /\ \A i \in DOMAIN builder'.left : builder'.left[i] \in DOMAIN (Current').components
         /\ Gathered(builder'.sink, builder'.streaming)
    BY <1>1, <1>2, <2>2, <2>6, <2>7, <2>8, <2>9
  <2> QED
    BY <1>3, <2>7, <2>10 DEF GatheringInv
<1> QED
  BY <1>4, <1>5

(* An alignment leaves what was gathered alone. *)
LEMMA AligningLeaves ==
  ASSUME GatheringInv, NEW name, BuildAlignment(name)
  PROVE  GatheringInv'
<1>1. builder.pc = "components" /\ UNCHANGED <<made, disk, opener>>
  BY DEF BuildAlignment
<1>2. /\ made # <<>> /\ {"left", "sink", "streaming", "components", "edges", "alignments"} \subseteq DOMAIN builder
      /\ IsSequence(builder.left)
      /\ \A i \in DOMAIN builder.left : builder.left[i] \in DOMAIN Current.components
      /\ Gathered(builder.sink, builder.streaming)
  BY <1>1 DEF GatheringInv
<1>3. AllAgree(OnHand)' /\ (opener.pc = "open" /\ opener.undisturbed => AllAgree(InHand(opener.got)))'
  BY <1>1 DEF GatheringInv, OnHand, InHand
<1>4. PICK edges, alignments :
        builder' = Idle \/ builder' = [builder EXCEPT !.edges = edges, !.alignments = alignments]
  BY Zenon DEF BuildAlignment
<1>5. CASE builder' = Idle
  BY <1>3, <1>5 DEF GatheringInv, Idle
<1>6. CASE builder' = [builder EXCEPT !.edges = edges, !.alignments = alignments]
  <2>1. /\ DOMAIN builder' = DOMAIN builder /\ builder'.pc = "components"
        /\ builder'.left = builder.left /\ builder'.sink = builder.sink
        /\ builder'.streaming = builder.streaming
    BY <1>1, <1>2, <1>6
  <2>2. Current' = Current
    BY <1>1 DEF Current
  <2> QED
    BY <1>1, <1>2, <1>3, <2>1, <2>2 DEF GatheringInv
<1> QED
  BY <1>4, <1>5, <1>6

(* What was gathered is made into files. *)
LEMMA GatheringEnds ==
  ASSUME GatheringInv, StartWriting
  PROVE  GatheringInv'
<1>1. /\ builder.pc = "components" /\ UNCHANGED <<made, disk, opener>>
      /\ builder' = [pc |-> "removing", left |-> Contents(builder)]
  BY DEF StartWriting
<1>2. Gathered(builder.sink, builder.streaming)
  BY <1>1 DEF GatheringInv
<1>3. StillToWrite' \subseteq FilesOf(builder)
  <2>1. \A x \in FilesOf(builder) : <<x[1], x[2]>> \in FilesOf(builder)
    BY DEF FilesOf
  <2>2. \A i \in DOMAIN builder'.left : builder'.left[i] \in FilesOf(builder)
    BY <1>1, ContentsList
  <2> QED
    BY <2>1, <2>2 DEF StillToWrite
<1>4. AllAgree(StillToWrite')
  BY <1>2, <1>3, FilesAgree, FewerAgree
<1>5. AllAgree(OnHand)' /\ (opener.pc = "open" /\ opener.undisturbed => AllAgree(InHand(opener.got)))'
  BY <1>1 DEF GatheringInv, OnHand, InHand
<1>6. builder'.pc = "removing"
  BY <1>1
<1> QED
  BY <1>4, <1>5, <1>6 DEF GatheringInv, AllAgree

(* A step on the disk does not change what an opening ended with. *)
LEMMA OthersKeep ==
  ASSUME LibraryInv, GatheringInv, NEW phase, Touch(phase)
  PROVE  (opener.pc = "open" /\ opener.undisturbed => AllAgree(InHand(opener.got)))'
<1>1. CASE opener.pc = "opening"
  <2>1. opener'.pc = "opening"
    BY <1>1 DEF Touch, LibraryInv, Shape
  <2> QED
    BY <2>1
<1>2. CASE opener.pc # "opening"
  <2>1. opener' = opener
    BY <1>2 DEF Touch
  <2> QED
    BY <2>1 DEF GatheringInv, InHand
<1> QED
  BY <1>1, <1>2

(* A file goes. *)
LEMMA RemovingKeeps ==
  ASSUME LibraryInv, GatheringInv, NEW f \in DOMAIN disk, RemoveFile(f)
  PROVE  GatheringInv'
<1>1. /\ builder.pc = "removing" /\ builder' = builder /\ Touch("writing")
      /\ disk' = [g \in DOMAIN disk \ {f} |-> disk[g]]
  BY DEF RemoveFile
<1>2. OnHand' \subseteq OnHand
  BY <1>1 DEF OnHand
<1>3. AllAgree(OnHand') /\ AllAgree(StillToWrite)
  BY <1>1, <1>2, FewerAgree DEF GatheringInv
<1>4. AllAgree(StillToWrite')
  BY <1>1, <1>3 DEF StillToWrite
<1>5. (opener.pc = "open" /\ opener.undisturbed => AllAgree(InHand(opener.got)))'
  BY <1>1, OthersKeep
<1> QED
  BY <1>1, <1>3, <1>4, <1>5 DEF GatheringInv

(* A file that is put on the disk was to be written. *)
LEMMA PuttingKeeps ==
  ASSUME LibraryInv, Planned, GatheringInv, NEW whole,
         builder.pc = "writing" \/ (builder.pc = "removing" /\ disk = <<>>),
         disk' = OnDisk(Head(builder.left)[1], Head(builder.left)[2], whole)
  PROVE  /\ AllAgree(OnHand') /\ AllAgree(StillToWrite \cup OnHand) /\ OnHand' \subseteq StillToWrite \cup OnHand
<1> DEFINE left == builder.left
           next == Head(left)
<1>1. AllAgree(StillToWrite \cup OnHand)
  <2>1. CASE builder.pc = "writing"
    BY <2>1 DEF GatheringInv
  <2>2. CASE builder.pc = "removing" /\ disk = <<>>
    <3>1. OnHand = {}
      BY <2>2 DEF OnHand
    <3>2. StillToWrite \cup OnHand = StillToWrite
      BY <3>1
    <3> QED
      BY <2>2, <3>2 DEF GatheringInv
  <2> QED
    BY <2>1, <2>2
<1>2. IsSequence(left) /\ left # <<>>
  BY DEF Planned
<1>3. 1 \in DOMAIN left /\ next = left[1]
  BY <1>2, FirstItem
<1>4. <<next[1], next[2]>> \in StillToWrite
  BY <1>3 DEF StillToWrite
<1>5. OnHand' \subseteq StillToWrite \cup OnHand
  BY <1>4 DEF OnHand, OnDisk
<1> QED
  BY <1>1, <1>5, FewerAgree

(* A file is written, the last one or another. *)
LEMMA WritingKeeps ==
  ASSUME LibraryInv, Planned, GatheringInv, WriteFile
  PROVE  GatheringInv'
<1> DEFINE left == builder.left
           phase == IF Len(left) = 1 THEN "done" ELSE "writing"
<1>1. /\ builder.pc = "writing" \/ (builder.pc = "removing" /\ disk = <<>>)
      /\ disk' = OnDisk(Head(left)[1], Head(left)[2], TRUE) /\ Touch(phase)
      /\ builder' = IF Len(left) = 1 THEN Idle ELSE [pc |-> "writing", left |-> Tail(left)]
  BY DEF WriteFile
<1>2. /\ AllAgree(OnHand') /\ AllAgree(StillToWrite \cup OnHand) /\ OnHand' \subseteq StillToWrite \cup OnHand
  BY <1>1, PuttingKeeps
<1>3. (opener.pc = "open" /\ opener.undisturbed => AllAgree(InHand(opener.got)))'
  <2> HIDE DEF phase
  <2> QED
    BY <1>1, OthersKeep
<1>4. CASE Len(left) = 1
  <2>1. builder'.pc = "idle"
    BY <1>1, <1>4 DEF Idle
  <2> QED
    BY <1>2, <1>3, <2>1 DEF GatheringInv
<1>5. CASE Len(left) # 1
  <2>1. builder'.pc = "writing" /\ builder'.left = Tail(left)
    BY <1>1, <1>5
  <2>2. IsSequence(left) /\ left # <<>>
    BY <1>1 DEF Planned
  <2>3. /\ Len(left) \in Nat \ {0} /\ DOMAIN left = 1 .. Len(left) /\ DOMAIN Tail(left) = 1 .. Len(left) - 1
        /\ \A i \in 1 .. Len(left) - 1 : Tail(left)[i] = left[i + 1]
    BY <2>2, FirstItem
  <2>4. StillToWrite' \subseteq StillToWrite
    <3>1. \A i \in DOMAIN Tail(left) : i + 1 \in DOMAIN left /\ Tail(left)[i] = left[i + 1]
      BY <2>3
    <3> QED
      BY <2>1, <3>1 DEF StillToWrite
  <2>5. AllAgree(StillToWrite') /\ AllAgree(StillToWrite' \cup OnHand')
    <3>1. StillToWrite' \subseteq StillToWrite \cup OnHand /\ StillToWrite' \cup OnHand' \subseteq StillToWrite \cup OnHand
      BY <1>2, <2>4
    <3> QED
      BY <1>2, <3>1, FewerAgree
  <2> QED
    BY <1>2, <1>3, <2>1, <2>5 DEF GatheringInv, AllAgree
<1> QED
  BY <1>4, <1>5

(* A build that dies leaves what it wrote, and may leave a part of one file. *)
LEMMA DyingKeeps ==
  ASSUME LibraryInv, Planned, GatheringInv, NEW part \in BOOLEAN, Dies(part)
  PROVE  GatheringInv'
<1>1. builder'.pc = "idle"
  BY DEF Dies, Idle
<1>2. CASE part
  <2>1. /\ builder.pc = "writing" \/ (builder.pc = "removing" /\ disk = <<>>)
        /\ disk' = OnDisk(Head(builder.left)[1], Head(builder.left)[2], FALSE) /\ Touch("writing")
    BY <1>2 DEF Dies
  <2>2. AllAgree(OnHand')
    BY <2>1, PuttingKeeps
  <2>3. (opener.pc = "open" /\ opener.undisturbed => AllAgree(InHand(opener.got)))'
    BY <2>1, OthersKeep
  <2> QED
    BY <1>1, <2>2, <2>3 DEF GatheringInv
<1>3. CASE ~part
  <2>1. UNCHANGED <<disk, opener>>
    BY <1>3 DEF Dies
  <2>2. AllAgree(OnHand)' /\ (opener.pc = "open" /\ opener.undisturbed => AllAgree(InHand(opener.got)))'
    BY <2>1 DEF GatheringInv, OnHand, InHand
  <2> QED
    BY <1>1, <2>2 DEF GatheringInv
<1> QED
  BY <1>2, <1>3

(* Whoever opens leaves the builder and the disk alone. *)
LEMMA OpeningLeaves ==
  ASSUME GatheringInv, UNCHANGED <<made, builder, disk>>,
         (opener.pc = "open" /\ opener.undisturbed => AllAgree(InHand(opener.got)))'
  PROVE  GatheringInv'
<1>1. Current' = Current /\ StillToWrite' = StillToWrite /\ OnHand' = OnHand
  BY DEF Current, StillToWrite, OnHand
<1> QED
  BY <1>1 DEF GatheringInv

(* What is read undisturbed is on disk. *)
LEMMA ReadingKeepsFiles ==
  ASSUME LibraryInv, GatheringInv, NEW f, OpenFile(f)
  PROVE  GatheringInv'
<1>1. UNCHANGED <<made, builder, disk>>
  BY DEF OpenFile
<1>2. CASE ReadOn
  <2>1. ASSUME opener'.undisturbed
        PROVE  AllAgree(InHand(opener'.got))
    <3>1. \A g \in DOMAIN opener'.got : g \in DOMAIN disk /\ opener'.got[g] = disk[g]
      BY <1>2, <2>1 DEF ReadOn
    <3>2. InHand(opener'.got) \subseteq OnHand
      BY <3>1 DEF InHand, OnHand
    <3> QED
      BY <3>2, FewerAgree DEF GatheringInv
  <2>2. (opener.pc = "open" /\ opener.undisturbed => AllAgree(InHand(opener.got)))'
    BY <2>1 DEF InHand
  <2> QED
    BY <1>1, <2>2, OpeningLeaves
<1>3. CASE RefusedAt(f)
  <2>1. (opener.pc = "open" /\ opener.undisturbed => AllAgree(InHand(opener.got)))'
    BY <1>3 DEF RefusedAt
  <2> QED
    BY <1>1, <2>1, OpeningLeaves
<1> QED
  BY <1>2, <1>3, Opening

(* Every step of Next keeps what is gathered. *)
LEMMA GatheringKept == FinishedInv /\ GatheringInv /\ [Next]_vars => GatheringInv'
<1> SUFFICES ASSUME FinishedInv, GatheringInv, [Next]_vars PROVE GatheringInv'
  OBVIOUS
<1>0. LibraryInv /\ Planned
  BY DEF FinishedInv
<1>1. ASSUME NEW s \in DOMAIN Sources, NEW force \in BOOLEAN, StartBuild(s, force) PROVE GatheringInv'
  BY <1>0, <1>1, GatheringStarts
<1>2. CASE BuildComponent
  BY <1>0, <1>2, GatheringGoesOn
<1>3. ASSUME NEW name, BuildAlignment(name) PROVE GatheringInv'
  BY <1>3, AligningLeaves
<1>4. CASE StartWriting
  BY <1>4, GatheringEnds
<1>5. ASSUME NEW f \in DOMAIN disk, RemoveFile(f) PROVE GatheringInv'
  BY <1>0, <1>5, RemovingKeeps
<1>6. CASE WriteFile
  BY <1>0, <1>6, WritingKeeps
<1>7. ASSUME NEW part \in BOOLEAN, Dies(part) PROVE GatheringInv'
  BY <1>0, <1>7, DyingKeeps
<1>8. CASE StartOpen
  <2>1. UNCHANGED <<made, builder, disk>> /\ opener'.pc = "opening"
    BY <1>8 DEF StartOpen
  <2>2. (opener.pc = "open" /\ opener.undisturbed => AllAgree(InHand(opener.got)))'
    BY <2>1
  <2> QED
    BY <2>1, <2>2, OpeningLeaves
<1>9. ASSUME NEW f, OpenFile(f) PROVE GatheringInv'
  BY <1>0, <1>9, ReadingKeepsFiles
<1>10. CASE UNCHANGED <<made, builder, disk, opener>>
  <2>1. (opener.pc = "open" /\ opener.undisturbed => AllAgree(InHand(opener.got)))'
    BY <1>10 DEF GatheringInv, InHand
  <2> QED
    BY <1>10, <2>1, OpeningLeaves
<1>11. ASSUME NEW r, Ask(r) PROVE GatheringInv'
  BY <1>10, <1>11 DEF Ask
<1>12. CASE UNCHANGED vars
  BY <1>10, <1>12 DEF vars
<1> QED
  BY <1>1, <1>2, <1>3, <1>4, <1>5, <1>6, <1>7, <1>8, <1>9, <1>11, <1>12 DEF Next

(* The files of an open corpus, as its calls see them. *)
Tiled(v) ==
  LET n == v["corpus.json"].token_count IN
  /\ Tiles(SpansOf(v, "sentence"), n) /\ Tiles(SpansOf(v, "document"), n)
  /\ Len(v["corpus.json"].document_names) = Len(SpansOf(v, "document"))
  /\ StartsAmong(SpansOf(v, "document"), SpansOf(v, "sentence"))
  /\ "sentence_ids.bin" \in DOMAIN v => Len(v["sentence_ids.bin"]) = Len(SpansOf(v, "sentence"))
  /\ "empty_nodes.json" \in DOMAIN v => NumberedNodes(v["empty_nodes.json"], Len(SpansOf(v, "sentence")))

(* A corpus that opened whole while nothing wrote its directory. *)
OpenedTiled == Opened => Tiled(View(opener.got))

(* It has the mandatory files, and what was read agrees. *)
LEMMA InvGivesTiled == LibraryInv /\ GatheringInv => OpenedTiled
<1> SUFFICES ASSUME LibraryInv, GatheringInv, opener.pc = "open", opener.undisturbed
             PROVE  Tiled(View(opener.got))
  BY DEF OpenedTiled, Opened
<1> DEFINE got == opener.got
           v == View(got)
<1>1. AllAgree(InHand(got))
  BY DEF GatheringInv
<1>2. "corpus.json" \in DOMAIN got /\ "spans.bin" \in DOMAIN got
  BY DEF LibraryInv, NoneMissed, Mandatory
<1>3. DOMAIN v = DOMAIN got /\ \A f \in DOMAIN got : v[f] = got[f].content
  BY DEF View
<1>4. \A f \in DOMAIN got : <<f, v[f]>> \in InHand(got)
  BY <1>3 DEF InHand
<1>5. \A f \in DOMAIN got : Agree(f, v[f], "spans.bin", v["spans.bin"])
  BY <1>1, <1>2, <1>4 DEF AllAgree
<1>6. /\ SpansOf(v, "sentence") = LayerOf(v["spans.bin"], "sentence")
      /\ SpansOf(v, "document") = LayerOf(v["spans.bin"], "document")
  BY DEF SpansOf, LayerOf
<1> HIDE DEF v
<1>7. Agree("corpus.json", v["corpus.json"], "spans.bin", v["spans.bin"])
  BY <1>2, <1>5
<1>8. "sentence_ids.bin" \in DOMAIN v => Agree("sentence_ids.bin", v["sentence_ids.bin"], "spans.bin", v["spans.bin"])
  BY <1>3, <1>5
<1>9. "empty_nodes.json" \in DOMAIN v => Agree("empty_nodes.json", v["empty_nodes.json"], "spans.bin", v["spans.bin"])
  BY <1>3, <1>5
<1>10. /\ Tiles(SpansOf(v, "sentence"), v["corpus.json"].token_count)
       /\ Tiles(SpansOf(v, "document"), v["corpus.json"].token_count)
       /\ Len(v["corpus.json"].document_names) = Len(SpansOf(v, "document"))
       /\ StartsAmong(SpansOf(v, "document"), SpansOf(v, "sentence"))
  BY <1>6, <1>7 DEF Agree
<1>11. "sentence_ids.bin" \in DOMAIN v => Len(v["sentence_ids.bin"]) = Len(SpansOf(v, "sentence"))
  BY <1>6, <1>8 DEF Agree
<1>12. "empty_nodes.json" \in DOMAIN v => NumberedNodes(v["empty_nodes.json"], Len(SpansOf(v, "sentence")))
  BY <1>6, <1>9 DEF Agree
<1>13. Tiled(v)
  BY <1>10, <1>11, <1>12 DEF Tiled
<1> QED
  BY <1>13 DEF v

(* Whatever the files of the sources hold, and however builds die, directories are *)
(* built over and files that give nothing are left out: a corpus opened while      *)
(* nothing writes it has sentences and documents that tile the positions it        *)
(* counts, with an id for each sentence and a name for each document, documents     *)
(* that begin where a sentence does, and no empty node of a sentence it has not.   *)
THEOREM OpenedCorpusIsTiled == Spec => []OpenedTiled
<1>1. Spec => [](FinishedInv /\ GatheringInv)
  BY NoneFinished, FinishedInvKept, NothingGathered, GatheringKept, PTL DEF Spec
<1>2. FinishedInv /\ GatheringInv => OpenedTiled
  BY InvGivesTiled DEF FinishedInv
<1> QED
  BY <1>1, <1>2, PTL

(* What the lookups in such a corpus find: every position in one sentence and one   *)
(* document, none behind the last position; for every document the first sentence   *)
(* that begins with it and the last that ends with it; for every sentence all its   *)
(* empty nodes and no other.                                                    *)
PositionsFound(spans, n) ==
  \A p \in Nat :
    IF p < n THEN \E i \in 0 .. Len(spans) - 1 :
                    SpanContaining(spans, p) = {i} /\ spans[i + 1].start <= p /\ p < spans[i + 1].end
    ELSE SpanContaining(spans, p) = {}

(* A document's sentences begin and end where it does. *)
DocumentsCut(v) ==
  \A d \in 0 .. Len(v["corpus.json"].document_names) - 1 :
    \E a \in 0 .. Len(SpansOf(v, "sentence")) - 1, b \in 0 .. Len(SpansOf(v, "sentence")) - 1 :
      /\ a <= b /\ FirstSentenceOf(v, d) = {a} /\ LastSentenceOf(v, d) = {b} /\ SentenceCount(v, d) = b - a + 1
      /\ SpansOf(v, "sentence")[a + 1].start = SpansOf(v, "document")[d + 1].start
      /\ SpansOf(v, "sentence")[b + 1].end = SpansOf(v, "document")[d + 1].end

(* All of this of a corpus that opened. *)
OpenedFinds ==
  Opened =>
    LET v == View(opener.got) IN
    /\ PositionsFound(SpansOf(v, "sentence"), v["corpus.json"].token_count)
    /\ PositionsFound(SpansOf(v, "document"), v["corpus.json"].token_count)
    /\ DocumentsCut(v)
    /\ "empty_nodes.json" \in DOMAIN v => \A k \in Nat : NodesFound(v["empty_nodes.json"], k)

(* Tiles and numbered nodes are found: the theorems of IndexProofs, for all of them. *)
LEMMA TilesAreFound ==
  ASSUME NEW spans, NEW n, Tiles(spans, n)
  PROVE  PositionsFound(spans, n)
<1>1. n \in Nat
  BY TilesOrder
<1>2. ASSUME NEW p \in Nat
      PROVE  /\ p >= n => SpanContaining(spans, p) = {}
             /\ p < n => \E i \in 0 .. Len(spans) - 1 :
                           /\ SpanContaining(spans, p) = {i}
                           /\ spans[i + 1].start <= p /\ p < spans[i + 1].end
  BY EveryPositionInOneSpan
<1> QED
  BY <1>1, <1>2 DEF PositionsFound

(* Empty nodes of any sentence. *)
LEMMA NumberedAreFound ==
  ASSUME NEW nodes, NEW n, NumberedNodes(nodes, n), NEW k \in Nat
  PROVE  NodesFound(nodes, k)
<1> DEFINE X == {nodes[i] : i \in DOMAIN nodes}
<1>1. nodes \in Seq(X) /\ InSentenceOrder(nodes)
  BY DEF NumberedNodes, IsSequence
<1> HIDE DEF X
<1> QED
  BY <1>1, EmptyNodesInIsExact

(* Hence all lookups in a corpus that is tiled. *)
LEMMA TiledFinds ==
  ASSUME NEW v, Tiled(v)
  PROVE  /\ PositionsFound(SpansOf(v, "sentence"), v["corpus.json"].token_count)
         /\ PositionsFound(SpansOf(v, "document"), v["corpus.json"].token_count)
         /\ DocumentsCut(v)
         /\ "empty_nodes.json" \in DOMAIN v => \A k \in Nat : NodesFound(v["empty_nodes.json"], k)
<1> DEFINE n == v["corpus.json"].token_count
           sents == SpansOf(v, "sentence")
           docs == SpansOf(v, "document")
           nodes == v["empty_nodes.json"]
<1>1. /\ Tiles(sents, n) /\ Tiles(docs, n) /\ StartsAmong(docs, sents)
      /\ Len(v["corpus.json"].document_names) = Len(docs)
      /\ "empty_nodes.json" \in DOMAIN v => NumberedNodes(nodes, Len(sents))
  BY DEF Tiled
<1>2. PositionsFound(sents, n) /\ PositionsFound(docs, n)
  BY <1>1, TilesAreFound
<1>3. DocumentsCut(v)
  <2> SUFFICES ASSUME NEW d \in 0 .. Len(docs) - 1
               PROVE  \E a \in 0 .. Len(sents) - 1, b \in 0 .. Len(sents) - 1 :
                        /\ a <= b /\ FirstSentenceOf(v, d) = {a} /\ LastSentenceOf(v, d) = {b}
                        /\ SentenceCount(v, d) = b - a + 1
                        /\ sents[a + 1].start = docs[d + 1].start
                        /\ sents[b + 1].end = docs[d + 1].end
    BY <1>1, Zenon DEF DocumentsCut
  <2> QED
    BY <1>1, DocumentsCutTheSentences
<1>4. ASSUME "empty_nodes.json" \in DOMAIN v
      PROVE  \A k \in Nat : NodesFound(nodes, k)
  <2>1. NumberedNodes(nodes, Len(sents))
    BY <1>1, <1>4
  <2> HIDE DEF nodes
  <2> QED
    BY <2>1, NumberedAreFound
<1> QED
  BY <1>2, <1>3, <1>4

(* For any sources, builds and openings: span_containing, first_sentence,           *)
(* last_sentence, sentence_count and the empty nodes of a sentence are right about   *)
(* every corpus that opens whole while nothing writes its directory.               *)
THEOREM OpenedCorpusIsFound == Spec => []OpenedFinds
<1>1. Spec => []OpenedTiled
  BY OpenedCorpusIsTiled
<1>2. OpenedTiled => OpenedFinds
  <2> SUFFICES ASSUME Opened, Tiled(View(opener.got)) PROVE OpenedFinds
    BY DEF OpenedTiled, OpenedFinds
  <2> QED
    BY TiledFinds, Zenon DEF OpenedFinds
<1> QED
  BY <1>1, <1>2, PTL

(* The indexes of an open corpus, which say the same of every position: a term lists  *)
(* the positions of which the forward index gives it, of every layer that is in the *)
(* inverted index; the lexicon is the terms that list any; and no position is of a  *)
(* token that the corpus does not count, nor any layer one that it does not name.    *)
(* A key that comes again in the features of one token lists its position under each *)
(* of its values, of which the forward index gives one: so much is said of its layer. *)
IndexesAgree(v) ==
  LET n == v["corpus.json"].token_count IN
  /\ SameTerms(v["inverted.bin"], v["forward.bin"], RepeatedKeys)
  /\ v["forward.bin"].tokens \in 0 .. n /\ DOMAIN v["forward.bin"].layers \subseteq v["corpus.json"].layers
  /\ v["lexicon.bin"] = TermsOf(v["inverted.bin"])
  /\ "spacing.bin" \in DOMAIN v => v["spacing.bin"] \subseteq 0 .. n - 1

(* Without decomposition there is no such layer. *)
LEMMA NothingRepeats ==
  ASSUME \A s \in DOMAIN Sources : Sources[s].decompose_feats = FALSE
  PROVE  RepeatedKeys = {}
<1>1. ASSUME NEW s \in DOMAIN Sources PROVE RepeatedIn(Sources[s]) = {}
  <2> DEFINE source == Sources[s]
  <2>1. source.decompose_feats = FALSE
    OBVIOUS
  <2> HIDE DEF source
  <2>2. \A c, path : SeveralIn(source.components[c][path], source.strict, source.decompose_feats) = {}
    BY <2>1, ColumnsHaveOne
  <2>3. RepeatedIn(source) = {}
    BY <2>2 DEF RepeatedIn
  <2> QED
    BY <2>3 DEF source
<1> QED
  BY <1>1 DEF RepeatedKeys

(* Of a corpus that opened whole while nothing wrote its directory. *)
OpenedAgrees == Opened => IndexesAgree(View(opener.got))

(* It has these files, and what was read agrees. *)
LEMMA InvGivesAgreement == LibraryInv /\ GatheringInv => OpenedAgrees
<1> SUFFICES ASSUME LibraryInv, GatheringInv, opener.pc = "open", opener.undisturbed
             PROVE  IndexesAgree(View(opener.got))
  BY DEF OpenedAgrees, Opened
<1> DEFINE got == opener.got
           v == View(got)
<1>1. AllAgree(InHand(got))
  BY DEF GatheringInv
<1>2. {"corpus.json", "inverted.bin", "lexicon.bin", "forward.bin"} \subseteq DOMAIN got
  BY DEF LibraryInv, NoneMissed, Mandatory
<1>3. DOMAIN v = DOMAIN got /\ \A f \in DOMAIN got : v[f] = got[f].content
  BY DEF View
<1>4. \A f \in DOMAIN got : <<f, v[f]>> \in InHand(got)
  BY <1>3 DEF InHand
<1>5. \A f, g \in DOMAIN got : Agree(f, v[f], g, v[g])
  BY <1>1, <1>4 DEF AllAgree
<1> HIDE DEF v
<1>6. Agree("corpus.json", v["corpus.json"], "forward.bin", v["forward.bin"])
  BY <1>2, <1>5
<1>7. Agree("inverted.bin", v["inverted.bin"], "forward.bin", v["forward.bin"])
  BY <1>2, <1>5
<1>8. Agree("inverted.bin", v["inverted.bin"], "lexicon.bin", v["lexicon.bin"])
  BY <1>2, <1>5
<1>9. "spacing.bin" \in DOMAIN v => Agree("corpus.json", v["corpus.json"], "spacing.bin", v["spacing.bin"])
  BY <1>2, <1>3, <1>5
<1>10. IndexesAgree(v)
  BY <1>6, <1>7, <1>8, <1>9 DEF IndexesAgree, Agree
<1> QED
  BY <1>10 DEF v

(* For any sources, builds and openings: what a corpus finds by a term, in the       *)
(* inverted index, are the positions at which it reads that term, in the forward     *)
(* index, of every layer but the heads and the dependencies, which are only read,    *)
(* and of every term but the empty one, which is never read. In a layer that a token *)
(* of the sources has several terms of, a repeated feature key, it reads one of those *)
(* that list the position, and finds it by each. The two are written               *)
(* apart, one merged in memory file after file, the other streamed to the disk at    *)
(* offsets, padded and encoded; no merge, layer that begins late or file that gives  *)
(* nothing moves one against the other.                                        *)
THEOREM OpenedIndexesAgree == Spec => []OpenedAgrees
<1>1. Spec => [](FinishedInv /\ GatheringInv)
  BY NoneFinished, FinishedInvKept, NothingGathered, GatheringKept, PTL DEF Spec
<1>2. FinishedInv /\ GatheringInv => OpenedAgrees
  BY InvGivesAgreement DEF FinishedInv
<1> QED
  BY <1>1, <1>2, PTL
=============================================================================
