------------------------------- MODULE Conllu -------------------------------
(***************************************************************************)
(* What the builder reads: CoNLL-U files.  A file is a sequence of lines,    *)
(* already told apart by their shape: "blank", "comment", "sent_id" (with an *)
(* id), "short" (fewer than ten fields), "range" (a multiword token, whose   *)
(* id is first-last), "empty" (an empty node, whose id is major.minor) and    *)
(* "word" (any other id).  The fields of a word are strings; its head is the  *)
(* set of the one integer the seventh field parses to, empty if it does not.  *)
(***************************************************************************)
EXTENDS Integers, SequencesExt

(* A sequence of any values. *)
IsSequence(s) == s \in Seq({s[i] : i \in DOMAIN s})

(* A file as the file system gives it: only one that is text has lines. *)
IsFile(file) ==
  /\ file.state \in {"text", "garbled", "unreadable"}
  /\ file.state = "text" => IsSequence(file.lines)

(* "_" and the empty field stand for no value; the form is kept whatever it is. *)
NonEmpty(s) == s \notin {"_", ""}

ParsedToken(line) ==
  [layers |-> [c \in {d \in DOMAIN line.fields : d = "word" \/ NonEmpty(line.fields[d])} |-> line.fields[c]],
   head |-> line.head, space_after_no |-> line.space_after_no]
ParsedMWT(line) ==
  [first |-> line.first, last |-> line.last, form |-> line.form, no_space_after |-> line.space_after_no]
ParsedEmptyNode(line) == [node_id |-> <<line.major, line.minor>>, form |-> line.form]

Lines(block, kind) == FoldLeft(LAMBDA lines, l : IF l.line = kind THEN Append(lines, l) ELSE lines, <<>>, block)
Mapped(seq, f(_)) == [i \in DOMAIN seq |-> f(seq[i])]

(* The last sent_id comment of a block names its sentence. *)
SentId(block) == LET ids == Lines(block, "sent_id") IN IF ids = <<>> THEN {} ELSE {Last(ids).id}

ParsedSentence(block, start) ==
  [tokens |-> Mapped(Lines(block, "word"), ParsedToken),
   span |-> [start |-> start, end |-> start + Len(Lines(block, "word"))],
   sent_id |-> SentId(block),
   mwts |-> Mapped(Lines(block, "range"), ParsedMWT),
   empty_nodes |-> Mapped(Lines(block, "empty"), ParsedEmptyNode)]

Malformed(block) == \E i \in DOMAIN block : block[i].line = "short"
WordsBeforeFault(block) == Len(Lines(SubSeq(block, 1, SelectInSeq(block, LAMBDA l : l.line = "short")), "word"))

(* A malformed sentence is dropped whole, but the words before its fault have *)
(* moved the reader's position on; a sentence of no word is dropped too.       *)
TryParseSentence(reader, block) ==
  IF Malformed(block) THEN [reader EXCEPT !.position = @ + WordsBeforeFault(block), !.skipped = @ + 1]
  ELSE LET s == ParsedSentence(block, reader.position) IN
       IF s.tokens = <<>> THEN [reader EXCEPT !.skipped = @ + 1]
       ELSE [reader EXCEPT !.position = s.span.end, !.sentences = Append(@, s)]

ParseSentenceStrict(reader, block) ==
  IF ~reader.ok \/ Malformed(block) THEN [reader EXCEPT !.ok = FALSE]
  ELSE LET s == ParsedSentence(block, reader.position) IN
       [reader EXCEPT !.position = s.span.end,
                      !.sentences = IF s.tokens = <<>> THEN @ ELSE Append(@, s)]

(* Blank lines separate sentences; the end of the file ends the last one. *)
BlocksOf(lines) ==
  LET TakeLine(acc, l) ==
        IF l.line # "blank" THEN [acc EXCEPT !.current = Append(@, l)]
        ELSE IF acc.current = <<>> THEN acc
        ELSE [blocks |-> Append(acc.blocks, acc.current), current |-> <<>>]
      all == FoldLeft(TakeLine, [blocks |-> <<>>, current |-> <<>>], Append(lines, [line |-> "blank"]))
  IN all.blocks

NewReader == [ok |-> TRUE, position |-> 0, sentences |-> <<>>, skipped |-> 0]
ReadSentences(lines) == FoldLeft(TryParseSentence, NewReader, BlocksOf(lines))
ReadSentencesStrict(lines) == FoldLeft(ParseSentenceStrict, NewReader, BlocksOf(lines))

(* A file that is not UTF-8 is skipped, or fails a strict build; one that     *)
(* cannot be opened fails any build.                                         *)
ReadFile(file, strict) ==
  CASE file.state = "unreadable" -> [NewReader EXCEPT !.ok = FALSE]
    [] file.state = "garbled" -> [NewReader EXCEPT !.ok = ~strict]
    [] OTHER -> IF strict THEN ReadSentencesStrict(file.lines) ELSE ReadSentences(file.lines)
=============================================================================
