----------------------------- MODULE SseStream -----------------------------
(***************************************************************************)
(* The parser of cfire/streaming.py: it reassembles the blocks of an SSE   *)
(* response from the pieces in which the HTTP client delivers the text.    *)
(*                                                                         *)
(* A text is a sequence of symbols: "data:" begins a data line, ":" a      *)
(* comment, "nl" ends a line, "[DONE]" is the end marker, and every other  *)
(* symbol is a JSON object with a delta.  A text may break off anywhere    *)
(* and be cut into pieces anywhere.                                        *)
(***************************************************************************)
EXTENDS Naturals, Sequences, SequencesExt

CONSTANT Texts      \* the responses a server may send

VARIABLES
  text,       \* the response
  arrived,    \* how many of its symbols resp.aiter_text() has delivered
  buffer,     \* the text that is not parsed yet
  chunks,     \* the chunks yielded so far
  over        \* whether the generator has returned

sse == <<text, arrived, buffer, chunks, over>>

Markup == {"data:", ":", "nl", "[DONE]"}

SseBegin(t) ==
  /\ text' = t
  /\ arrived' = 0 /\ buffer' = << >> /\ chunks' = << >> /\ over' = FALSE

\* The generator is gone, and its state with it.
SseEnd ==
  /\ arrived' = 0 /\ buffer' = << >> /\ chunks' = << >> /\ over' = TRUE
  /\ UNCHANGED text

Breaks(s) == {i \in 1..(Len(s) - 1) : s[i] = "nl" /\ s[i + 1] = "nl"}

Least(S) == CHOOSE i \in S : \A j \in S : i <= j

(* Variants with a mistake somebody could make; each breaks a property below. *)

\* The last data line of a block wins.
DataLineLast(block) ==
  LET starts == {i \in DOMAIN block : block[i] = "data:" /\ (i = 1 \/ block[i - 1] = "nl")}
  IN  IF starts = {} THEN << >>
      ELSE LET i == CHOOSE j \in starts : \A k \in starts : k <= j
               ends == {j \in (i + 1)..Len(block) : block[j] = "nl"}
           IN  SubSeq(block, i, IF ends = {} THEN Len(block) ELSE Least(ends) - 1)

-----------------------------------------------------------------------------

\* The first data line of a block, without the newline; empty if it has none.
DataLine(block) ==
  LET starts == {i \in DOMAIN block : block[i] = "data:" /\ (i = 1 \/ block[i - 1] = "nl")}
  IN  IF starts = {} THEN << >>
      ELSE LET i == Least(starts)
               ends == {j \in (i + 1)..Len(block) : block[j] = "nl"}
           IN  SubSeq(block, i, IF ends = {} THEN Len(block) ELSE Least(ends) - 1)

IsDone(block) == DataLine(block) = <<"data:", "[DONE]">>

\* The chunk of a block, if any: json.loads rejects all but one whole object.
ChunkOf(block) ==
  LET line == DataLine(block)
  IN  IF Len(line) = 2 /\ line[2] \notin Markup THEN <<line[2]>> ELSE << >>

Parse(block) == chunks' = chunks \o ChunkOf(block)

\* aiter_text() delivers another piece, once the buffer holds no whole block.
Receive ==
  /\ ~over /\ Breaks(buffer) = {}
  /\ \E n \in (arrived + 1)..Len(text) :
       /\ arrived' = n
       /\ buffer' = buffer \o SubSeq(text, arrived + 1, n)
  /\ UNCHANGED <<text, chunks, over>>

\* The body of the while loop: one block.
Block ==
  /\ ~over /\ Breaks(buffer) # {}
  /\ LET i == Least(Breaks(buffer))
         block == SubSeq(buffer, 1, i - 1)
     IN  /\ buffer' = SubSeq(buffer, i + 2, Len(buffer))
         /\ Parse(block)
         /\ over' = IsDone(block)
  /\ UNCHANGED <<text, arrived>>

\* The response is at its end: the trailing block is parsed too.
Flush ==
  /\ ~over /\ Breaks(buffer) = {} /\ arrived = Len(text)
  /\ Parse(buffer)
  /\ over' = TRUE
  /\ UNCHANGED <<text, arrived, buffer>>

SseStep == Receive \/ Block \/ Flush

-----------------------------------------------------------------------------
(* What a text means, defined by one pass over its symbols.                *)

\* The line that is read is at its end.  The first data line of a block counts,
\* and an empty line ends the block.
LineEnds(r) ==
  LET counts == r.line # << >> /\ r.line[1] = "data:" /\ ~r.seen /\ ~r.done
      object == Len(r.line) = 2 /\ r.line[2] \notin Markup
  IN  [line |-> << >>,
       seen |-> r.line # << >> /\ (r.seen \/ counts),
       done |-> r.done \/ (counts /\ r.line = <<"data:", "[DONE]">>),
       out  |-> IF counts /\ object THEN Append(r.out, r.line[2]) ELSE r.out]

\* What is known behind the first symbols of t, for each number of them.
Reading(t) ==
  LET read[n \in 0..Len(t)] ==
        IF n = 0 THEN [line |-> << >>, seen |-> FALSE, done |-> FALSE, out |-> << >>]
        ELSE IF t[n] = "nl" THEN LineEnds(read[n - 1])
        ELSE [read[n - 1] EXCEPT !.line = Append(@, t[n])]
  IN  read

Meaning(t) == LineEnds(Reading(t)[Len(t)]).out
=============================================================================
