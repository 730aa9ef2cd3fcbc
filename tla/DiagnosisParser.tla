--------------------------- MODULE DiagnosisParser ---------------------------
(***************************************************************************)
(* What VisionOpsAgent (vision_ops/agent.py) makes of the text of a reply: *)
(* the SUMMARY/SEVERITY/ROOT_CAUSE/ACTIONS block if it begins like one,    *)
(* else the JSON object in it, else what can be salvaged.                  *)
(*                                                                         *)
(* A reply is a sequence of lines, told apart by how they begin, or of     *)
(* characters, of which those count that the search for an object looks    *)
(* at, with its tags and fences as characters too.  The state is a reply,  *)
(* grown by one element in each step, so that every short one is reached.  *)
(***************************************************************************)
EXTENDS Integers, Sequences, FiniteSets, SequencesExt

CONSTANTS MaxLines, MaxChars, MaxMarked   \* bounds on the replies, the last with tags or fences

VARIABLE reply

\* "bare" is a SUMMARY header with nothing after it, "item" a line beginning with
\* a dash, "end" a blank line or END.
Headers == {"summary", "bare", "severity", "root_cause"}
Lines == Headers \cup {"actions", "item", "text", "end"}

Open == "{"
Shut == "}"
Quote == "\""
Escape == "\\"
Tag == "<json>"
EndTag == "</json>"
JsonFence == "fence json"
Fence == "fence"
Marks == {Tag, EndTag, JsonFence, Fence}
Chars == {Open, Shut, Quote, Escape, "x"} \cup Marks

ReplyInit == reply = << >>

ReplyNext ==
  \/ /\ ToSet(reply) \subseteq Lines /\ Len(reply) < MaxLines
     /\ \E l \in Lines : reply' = Append(reply, l)
  \/ /\ ToSet(reply) \subseteq Chars /\ \E ch \in Chars : reply' = Append(reply, ch)
     /\ Len(reply') <= IF ToSet(reply') \cap Marks = {} THEN MaxChars ELSE MaxMarked

ReplySpec == ReplyInit /\ [][ReplyNext]_reply

FieldOf(header) == IF header = "bare" THEN "summary" ELSE header

-----------------------------------------------------------------------------
(* Variants with a mistake somebody could make; each breaks a property below. *)

\* Braces count within strings too.
ScanIgnoringStrings(s, k, ch) ==
  CASE s.end # 0 -> s
    [] s.end = 0 /\ ch = Open -> [s EXCEPT !.depth = @ + 1]
    [] s.end = 0 /\ ch = Shut -> [s EXCEPT !.depth = @ - 1, !.end = IF s.depth = 1 THEN k ELSE 0]
    [] OTHER -> s

-----------------------------------------------------------------------------
(* _parse_delimited.  A field's value is the set of the lines it is made of. *)

Flush(p) ==
  IF p.field = "none" THEN p
  ELSE [p EXCEPT !.result[p.field] = p.value, !.field = "none", !.value = {}]

\* One turn of its loop; p.over after the break.
ParseLine(p, k, line) ==
  CASE p.over -> p
    [] ~p.over /\ line = "end" -> [Flush(p) EXCEPT !.over = TRUE]
    [] ~p.over /\ line \in Headers -> [Flush(p) EXCEPT !.field = FieldOf(line), !.value = {k}]
    [] ~p.over /\ line = "actions" -> [Flush(p) EXCEPT !.inActions = TRUE]
    [] ~p.over /\ line = "item" /\ p.inActions -> [p EXCEPT !.actions = @ \cup {k}]
    [] OTHER -> IF p.field = "none" THEN p ELSE [p EXCEPT !.value = @ \cup {k}]

ParseStart ==
  [field |-> "none", value |-> {}, inActions |-> FALSE, over |-> FALSE, actions |-> {},
   result |-> [f \in {"summary", "severity", "root_cause"} |-> {}]]

\* None unless the reply begins with a summary and one with a text is found.
ParseDelimited(lines) ==
  LET turn[k \in 0..Len(lines)] ==
        IF k = 0 THEN ParseStart ELSE ParseLine(turn[k - 1], k, lines[k])
      p == Flush(turn[Len(lines)])
      looksLikeOne == lines # << >> /\ lines[1] \in {"summary", "bare"}
      texts == {k \in p.result.summary : lines[k] # "bare"}
  IN  IF looksLikeOne /\ texts # {} THEN <<[p.result EXCEPT !.summary = texts], p.actions>>
      ELSE << >>

-----------------------------------------------------------------------------
(* _extract_json: the first valid object, found by scanning braces. *)

\* One character of the inner loop; s.end is the place where the depth is back to 0.
Scan(s, k, ch) ==
  CASE s.end # 0 -> s
    [] s.end = 0 /\ s.escapeNext -> [s EXCEPT !.escapeNext = FALSE]
    [] s.end = 0 /\ ~s.escapeNext ->
         CASE ch = Escape /\ s.inString -> [s EXCEPT !.escapeNext = TRUE]
           [] ch = Quote -> [s EXCEPT !.inString = ~@]
           [] ch = Open /\ ~s.inString -> [s EXCEPT !.depth = @ + 1]
           [] ch = Shut /\ ~s.inString ->
                [s EXCEPT !.depth = @ - 1, !.end = IF s.depth = 1 THEN k ELSE 0]
           [] OTHER -> s

\* Where the object that begins at start ends, 0 for nowhere.
EndOf(t, start) ==
  LET n == Len(t) - start + 1
      turn[k \in 0..n] ==
        IF k = 0 THEN [depth |-> 0, inString |-> FALSE, escapeNext |-> FALSE, end |-> 0]
        ELSE Scan(turn[k - 1], start + k - 1, t[start + k - 1])
  IN  turn[n].end

\* A quote of which no odd number of escapes comes right before.
IsQuote(t, k) ==
  /\ t[k] = Quote
  /\ ~\E n \in 1..(k - 1) :
        /\ n % 2 = 1 /\ \A j \in (k - n)..(k - 1) : t[j] = Escape
        /\ k - n = 1 \/ t[k - n - 1] # Escape

\* What json.loads takes for a string, and for an object: strings and objects
\* between braces.
IsString(t) == Len(t) > 1 /\ {k \in DOMAIN t : IsQuote(t, k)} = {1, Len(t)}

Valid(t) ==
  LET quotes(k) == Cardinality({j \in 1..(k - 1) : IsQuote(t, j)})
      outside == {k \in DOMAIN t : quotes(k) % 2 = 0}
      count(ch, k) == Cardinality({j \in outside : j <= k /\ t[j] = ch})
  IN  /\ t # << >> /\ t[1] = Open /\ Len(t) \in outside
      /\ \A k \in outside : t[k] \in {Open, Shut, Quote}
      /\ \A k \in 1..(Len(t) - 1) : count(Open, k) > count(Shut, k)
      /\ count(Open, Len(t)) = count(Shut, Len(t))

Least(S) == CHOOSE k \in S : \A j \in S : k <= j

\* The candidates, by their start; the last resort is from the first { to the last }.
ScanObjects(t) ==
  LET starts == {k \in DOMAIN t : t[k] = Open /\ EndOf(t, k) # 0
                                  /\ Valid(SubSeq(t, k, EndOf(t, k)))}
      opens == {k \in DOMAIN t : t[k] = Open}
      shuts == {k \in DOMAIN t : t[k] = Shut}
  IN  IF starts # {} THEN SubSeq(t, Least(starts), EndOf(t, Least(starts)))
      ELSE IF \E o \in opens, s \in shuts : o < s
        THEN SubSeq(t, Least(opens), CHOOSE k \in shuts : \A j \in shuts : k >= j)
      ELSE t

\* split(mark, 1)[1].split(end, 1)[0]: what is after the first of a mark, and
\* before the first of the ends that follow.
Within(t, mark, ends) ==
  LET i == Least({k \in DOMAIN t : t[k] = mark})
      j == Least({k \in (i + 1)..Len(t) : t[k] \in ends} \cup {Len(t) + 1})
  IN  SubSeq(t, i + 1, j - 1)

\* The text in the tags if it is JSON, else the text in the first fences, as it
\* is, and only without any the first object.
ExtractJson(t) ==
  LET tagged == Within(t, Tag, {EndTag})
  IN  CASE {Tag, EndTag} \subseteq ToSet(t) /\ (Valid(tagged) \/ IsString(tagged)) -> tagged
        [] OTHER ->
             IF JsonFence \in ToSet(t) THEN Within(t, JsonFence, {JsonFence, Fence})
             ELSE IF Fence \in ToSet(t) THEN Within(t, Fence, {Fence})
             ELSE ScanObjects(t)

\* _parse_response, for a reply that is no delimited block: << >> is for salvage.
ParseJson(t) ==
  CASE Valid(t) -> t
    [] ~Valid(t) /\ ~IsString(t) /\ Valid(ExtractJson(t)) -> ExtractJson(t)
    [] OTHER -> << >>

-----------------------------------------------------------------------------

\* Whatever junk and half objects surround it, also braces and quotes within
\* strings: if there is an object in the reply the diagnosis is made of one, and
\* nothing that is none is taken for one.  (A reply that is one string counts as
\* text.)  An object between tags, or else between fences, goes first; of what
\* is fenced the rest of the reply cannot make up for.
ObjectIsFound ==
  ToSet(reply) \subseteq Chars =>
    LET found == ParseJson(reply)
        object(i, j) == Valid(SubSeq(reply, i, j))
        isFirst(k, marks) == reply[k] \in marks /\ \A j \in 1..(k - 1) : reply[j] \notin marks
        between(i, j, begin, ends) ==
          /\ i < j /\ isFirst(i, {begin}) /\ reply[j] \in ends /\ object(i + 1, j - 1)
          /\ \A k \in (i + 1)..(j - 1) : reply[k] \notin ends
        pairs == (DOMAIN reply) \X (DOMAIN reply)
        tagged == {p \in pairs : between(p[1], p[2], Tag, {EndTag})}
        fenced == {p \in pairs :
                     \/ between(p[1], p[2], JsonFence, {JsonFence, Fence})
                     \/ between(p[1], p[2], Fence, {Fence}) /\ JsonFence \notin ToSet(reply)}
        inner(p) == SubSeq(reply, p[1] + 1, p[2] - 1)
    IN  /\ found # << >> => \E i, j \in DOMAIN reply : object(i, j) /\ found = SubSeq(reply, i, j)
        /\ (ToSet(reply) \cap Marks = {} /\ ~IsString(reply) /\ \E i, j \in DOMAIN reply : object(i, j))
             => found # << >>
        /\ ~Valid(reply) /\ ~IsString(reply) =>
             /\ \A p \in tagged : found = inner(p)
             /\ ToSet(reply) \cap {Tag, EndTag} = {} => \A p \in fenced : found = inner(p)

\* A field of a block is its latest header before the end of the block, with the
\* lines up to the next header; lines of no field, like text among the actions,
\* are dropped, and so is everything after a blank line.
BlockIsRead ==
  ToSet(reply) \subseteq Lines /\ ParseDelimited(reply) # << >> =>
    LET ends == {k \in DOMAIN reply : reply[k] = "end"}
        block == {k \in DOMAIN reply : \A e \in ends : k < e}
        marks == {k \in block : reply[k] \in Headers \cup {"actions"}}
        mark(k) == CHOOSE m \in marks : m <= k /\ \A n \in marks : n <= k => n <= m
        isItem(k) == reply[k] = "item" /\ \E a \in block : a < k /\ reply[a] = "actions"
        latest(f) == {m \in marks : FieldOf(reply[m]) = f /\
                        \A n \in marks : FieldOf(reply[n]) = f => n <= m}
        parsed == ParseDelimited(reply)
    IN  /\ parsed[2] = {k \in block : isItem(k)}
        /\ \A f \in DOMAIN parsed[1] :
             parsed[1][f] = {k \in block : mark(k) \in latest(f) /\ ~isItem(k) /\ reply[k] # "bare"}

\* Both forms a model answers in: the block that the prompt asks for, and JSON.
ReplyIsRead == ObjectIsFound /\ BlockIsRead
=============================================================================
