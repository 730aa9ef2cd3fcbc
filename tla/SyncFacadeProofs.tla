-------------------------- MODULE SyncFacadeProofs --------------------------
(***************************************************************************)
(* Proofs about the sync facade: the background loop is never stopped over *)
(* an open client; and a stream yields what the response says, for every   *)
(* response, wherever the transport cuts it: first the parser is right,    *)
(* then its queue, then the thread that takes from the queue.              *)
(***************************************************************************)
EXTENDS SyncFacade, Lemmas, SequenceTheorems

Places == {"idle", "blocked", "yielding", "stopping", "joining", "failed"}
CallKinds == {"none", "open", "complete", "stream", "close"}
Jobs == {"none", "scheduled", "preflight", "posting", "sleeping", "streaming", "closing", "done"}

\* Every variable has its type.
FacadeTypeOK ==
  /\ client \in {"none", "live", "closed"}
  /\ loop \in {"running", "stopping", "stopped"}
  /\ built \in BOOLEAN /\ interrupted \in BOOLEAN
  /\ place \in [Threads -> Places]
  /\ call \in [Threads -> CallKinds]
  /\ job \in [Threads -> Jobs]
  /\ error \in [Threads -> {"none", "raised"}]

\* What a coroutine does belongs to the call that scheduled it.
JobOfCall ==
  \A t \in Threads :
    /\ job[t] = "preflight" => call[t] = "open"
    /\ job[t] \in {"posting", "sleeping"} => call[t] = "complete"
    /\ job[t] = "streaming" => call[t] = "stream"
    /\ job[t] = "closing" => call[t] = "close"
    /\ place[t] = "yielding" => call[t] = "stream"

\* Until __init__ returns its own thread is the only one that has called
\* anything; behind it no coroutine is left that would open a client.
OpenedOnce ==
  /\ \A t \in Threads : call[t] = "open" =>
       /\ t = Owner
       /\ job[t] = "scheduled" => client = "none"
       /\ error[t] = "raised" => client = "none" /\ job[t] = "done"
  /\ ~built => call[Owner] = "open" /\ \A t \in Threads \ {Owner} : call[t] = "none" /\ place[t] = "idle"
  /\ built => \A t \in Threads : call[t] = "open" => job[t] = "done" /\ place[t] = "idle"

\* Until then the loop runs while the thread waits, and only a Ctrl-C or a
\* missing API key makes it wait no longer.
WarmUp ==
  ~built =>
    /\ place[Owner] = "blocked" => loop = "running" /\ ~interrupted
    /\ place[Owner] # "blocked" => interrupted \/ error[Owner] = "raised"

\* Nothing is left to close, unless the warm-up was interrupted.
NothingOpen == client # "live" \/ (interrupted /\ ~built)

\* Whoever is about to stop the loop has closed the client.
ClosedBeforeStopping ==
  \A t \in Threads :
    /\ call[t] = "close" /\ job[t] \in {"closing", "done"} => client # "live"
    /\ place[t] = "stopping" => NothingOpen

FacadeInvariant ==
  /\ FacadeTypeOK
  /\ JobOfCall
  /\ OpenedOnce
  /\ WarmUp
  /\ ClosedBeforeStopping
  /\ ClosedBeforeStopped

-----------------------------------------------------------------------------
(* The meaning of a text. *)

\* What a text is made of: not the two marks of the queue.
Symbols == STRING \ {Sentinel, Raise}

Readings == [line : Seq(Symbols), seen : BOOLEAN, done : BOOLEAN, out : Seq(Symbols)]

\* Behind a block, with the chunks so far.
Clean(out) == [line |-> << >>, seen |-> FALSE, done |-> FALSE, out |-> out]

\* One symbol more.
OneMore(r, symbol) ==
  IF symbol = "nl" THEN LineEnds(r) ELSE [r EXCEPT !.line = Append(@, symbol)]

\* The end of a line takes a reading to a reading.
LEMMA LineEndsType ==
  ASSUME NEW r \in Readings
  PROVE  LineEnds(r) \in Readings
<1>1. r.line \in Seq(Symbols) /\ r.out \in Seq(Symbols) /\ r.seen \in BOOLEAN /\ r.done \in BOOLEAN
  BY DEF Readings
<1>2. Len(r.line) = 2 => r.line[2] \in Symbols
  BY <1>1
<1>3. LineEnds(r).out \in Seq(Symbols)
  <2>1. \/ LineEnds(r).out = r.out
        \/ Len(r.line) = 2 /\ LineEnds(r).out = Append(r.out, r.line[2])
    BY DEF LineEnds
  <2>2. Len(r.line) = 2 => Append(r.out, r.line[2]) \in Seq(Symbols)
    BY <1>1, <1>2, AppendProperties
  <2> QED
    BY <1>1, <2>1, <2>2
<1>4. LineEnds(r).line \in Seq(Symbols) /\ LineEnds(r).seen \in BOOLEAN /\ LineEnds(r).done \in BOOLEAN
  BY <1>1 DEF LineEnds
<1> QED
  BY <1>3, <1>4 DEF LineEnds, Readings

\* So does one more symbol.
LEMMA OneMoreType ==
  ASSUME NEW r \in Readings, NEW symbol \in Symbols
  PROVE  OneMore(r, symbol) \in Readings
<1>1. CASE symbol = "nl"
  BY <1>1, LineEndsType DEF OneMore
<1>2. CASE symbol # "nl"
  <2>1. Append(r.line, symbol) \in Seq(Symbols)
    BY AppendProperties DEF Readings
  <2>2. OneMore(r, symbol) = [r EXCEPT !.line = Append(r.line, symbol)]
    BY <1>2 DEF OneMore
  <2> QED
    BY <2>1, <2>2 DEF Readings
<1> QED
  BY <1>1, <1>2

\* g reads the first n symbols of t one by one.
Reads(t, n, g) ==
  /\ g \in [0..n -> Readings]
  /\ g[0] = Clean(<< >>)
  /\ \A i \in 1..n : g[i] = OneMore(g[i - 1], t[i])

\* A text can be read.
LEMMA ReadingExists ==
  ASSUME NEW t \in Seq(Symbols)
  PROVE  \E g : Reads(t, Len(t), g)
<1> DEFINE T == {k \in Nat : k <= Len(t) => \E g : Reads(t, k, g)}
<1>0. Clean(<< >>) \in Readings
  BY DEF Clean, Readings
<1>1. 0 \in T
  <2>1. Reads(t, 0, [i \in 0..0 |-> Clean(<< >>)])
    BY <1>0 DEF Reads
  <2> QED
    BY <2>1
<1>2. ASSUME NEW k \in Nat, k \in T PROVE k + 1 \in T
  <2> SUFFICES ASSUME k + 1 <= Len(t) PROVE \E g : Reads(t, k + 1, g)
    OBVIOUS
  <2>1. PICK g : Reads(t, k, g)
    BY <1>2
  <2> DEFINE last == OneMore(g[k], t[k + 1])
             h == [i \in 0..(k + 1) |-> IF i <= k THEN g[i] ELSE last]
  <2>2. last \in Readings
    <3>1. g[k] \in Readings
      BY <2>1 DEF Reads
    <3>2. t[k + 1] \in Symbols
      OBVIOUS
    <3> QED
      BY <3>1, <3>2, OneMoreType
  <2> HIDE DEF last
  <2>3. h \in [0..(k + 1) -> Readings]
    BY <2>1, <2>2 DEF Reads
  <2>4. h[0] = Clean(<< >>)
    BY <2>1 DEF Reads
  <2>5. ASSUME NEW i \in 1..(k + 1) PROVE h[i] = OneMore(h[i - 1], t[i])
    <3>1. CASE i = k + 1
      BY <3>1 DEF last
    <3>2. CASE i # k + 1
      BY <2>1, <3>2 DEF Reads
    <3> QED
      BY <3>1, <3>2
  <2>6. Reads(t, k + 1, h)
    BY <2>3, <2>4, <2>5 DEF Reads
  <2> QED
    BY <2>6
<1> HIDE DEF T
<1>3. \A k \in Nat : k \in T
  BY <1>1, <1>2, InductionInSet
<1> QED
  BY <1>3 DEF T

\* Reading(t) reads t.
LEMMA ReadingSteps ==
  ASSUME NEW t \in Seq(Symbols)
  PROVE  /\ Reading(t)[0] = Clean(<< >>)
         /\ \A i \in 1..Len(t) : Reading(t)[i] = OneMore(Reading(t)[i - 1], t[i])
         /\ \A i \in 0..Len(t) : Reading(t)[i] \in Readings
<1> DEFINE n == Len(t)
           Step(g, i) ==
             IF i = 0 THEN [line |-> << >>, seen |-> FALSE, done |-> FALSE, out |-> << >>]
             ELSE IF t[i] = "nl" THEN LineEnds(g[i - 1])
             ELSE [g[i - 1] EXCEPT !.line = Append(@, t[i])]
           IsReading(g) == g = [i \in 0..n |-> Step(g, i)]
           read == CHOOSE g : IsReading(g)
<1>1. PICK g : Reads(t, n, g)
  BY ReadingExists
<1>0. \A h : Step(h, 0) = Clean(<< >>) /\ \A i \in 1..n : Step(h, i) = OneMore(h[i - 1], t[i])
  BY DEF Clean, OneMore
<1>2. IsReading(g)
  <2>1. g = [i \in 0..n |-> g[i]]
    BY <1>1 DEF Reads
  <2> HIDE DEF Step
  <2>2. ASSUME NEW i \in 0..n PROVE g[i] = Step(g, i)
    <3>1. CASE i = 0
      BY <1>0, <1>1, <3>1 DEF Reads
    <3>2. CASE i \in 1..n
      BY <1>0, <1>1, <3>2 DEF Reads
    <3> QED
      BY <3>1, <3>2
  <2> QED
    BY <2>1, <2>2
<1>3. IsReading(read)
  <2> HIDE DEF IsReading
  <2> QED
    BY <1>2
<1>4. Reading(t) = read
  BY DEF Reading
<1> HIDE DEF read, Step
<1>5. read[0] = Clean(<< >>) /\ \A i \in 1..n : read[i] = OneMore(read[i - 1], t[i])
  <2>1. \A i \in 0..n : read[i] = Step(read, i)
    BY <1>3
  <2> QED
    BY <1>0, <2>1
<1>6. \A i \in 0..n : read[i] = g[i]
  <2> DEFINE T == {k \in Nat : k <= n => read[k] = g[k]}
  <2>1. 0 \in T
    BY <1>1, <1>5 DEF Reads
  <2>2. ASSUME NEW k \in Nat, k \in T PROVE k + 1 \in T
    BY <1>1, <1>5, <2>2 DEF Reads
  <2> HIDE DEF T
  <2>3. \A k \in Nat : k \in T
    BY <2>1, <2>2, InductionInSet
  <2> QED
    BY <2>3 DEF T
<1> QED
  BY <1>1, <1>4, <1>5, <1>6 DEF Reads

\* What a prefix is.
LEMMA PrefixMeans ==
  ASSUME NEW S, NEW s \in Seq(S), NEW t \in Seq(S)
  PROVE  IsPrefix(s, t) <=> Len(s) <= Len(t) /\ \A i \in 1..Len(s) : s[i] = t[i]
<1> DEFINE front == SubSeq(t, 1, Len(s))
<1>1. IsPrefix(s, t) <=> Len(s) <= Len(t) /\ s = front
  <2>1. SubSeq(s, 1, Len(s)) = s
    OBVIOUS
  <2> QED
    BY <2>1 DEF IsPrefix
<1>2. ASSUME Len(s) <= Len(t)
      PROVE  front \in Seq(S) /\ Len(front) = Len(s) /\ \A i \in 1..Len(s) : front[i] = t[i]
  BY <1>2
<1> HIDE DEF front
<1>3. ASSUME Len(s) <= Len(t), \A i \in 1..Len(s) : s[i] = t[i]
      PROVE  s = front
  BY <1>2, <1>3, SeqEqual
<1> QED
  BY <1>1, <1>2, <1>3

\* Behind the end marker nothing counts any more.
Extends(r, q) ==
  /\ Len(r.out) <= Len(q.out) /\ \A i \in 1..Len(r.out) : q.out[i] = r.out[i]
  /\ r.done => q.done /\ q.out = r.out

\* A line adds to the chunks, until the end marker has come.
LEMMA LineEndsExtends ==
  ASSUME NEW r \in Readings
  PROVE  Extends(r, LineEnds(r))
<1>1. r.out \in Seq(Symbols) /\ r.line \in Seq(Symbols)
  BY DEF Readings
<1>2. r.done => LineEnds(r).done /\ LineEnds(r).out = r.out
  BY DEF LineEnds
<1>3. \/ LineEnds(r).out = r.out
      \/ Len(r.line) = 2 /\ LineEnds(r).out = Append(r.out, r.line[2])
  BY DEF LineEnds
<1>4. CASE LineEnds(r).out = r.out
  BY <1>1, <1>2, <1>4 DEF Extends
<1>5. CASE Len(r.line) = 2 /\ LineEnds(r).out = Append(r.out, r.line[2])
  <2>1. r.line[2] \in Symbols
    BY <1>1, <1>5
  <2> DEFINE more == Append(r.out, r.line[2])
  <2>2. Len(more) = Len(r.out) + 1 /\ \A i \in 1..Len(r.out) : more[i] = r.out[i]
    BY <1>1, <2>1, AppendProperties
  <2> HIDE DEF more
  <2>3. LineEnds(r).out = more
    BY <1>5 DEF more
  <2> QED
    BY <1>1, <1>2, <2>2, <2>3 DEF Extends
<1> QED
  BY <1>3, <1>4, <1>5

\* Reading on adds to the chunks.
LEMMA ReadingExtends ==
  ASSUME NEW t \in Seq(Symbols), NEW n \in 0..Len(t)
  PROVE  \A m \in n..Len(t) : Extends(Reading(t)[n], Reading(t)[m])
<1> DEFINE R == Reading(t)
           T == {k \in Nat : n + k <= Len(t) => Extends(R[n], R[n + k])}
<1>1. /\ \A i \in 1..Len(t) : R[i] = OneMore(R[i - 1], t[i])
      /\ \A i \in 0..Len(t) : R[i] \in Readings
  BY ReadingSteps
<1> HIDE DEF R
<1>2. 0 \in T
  <2>1. R[n].out \in Seq(Symbols)
    BY <1>1 DEF Readings
  <2> QED
    BY <2>1 DEF Extends
<1>3. ASSUME NEW k \in Nat, k \in T PROVE k + 1 \in T
  <2> SUFFICES ASSUME n + (k + 1) <= Len(t) PROVE Extends(R[n], R[n + (k + 1)])
    OBVIOUS
  <2> DEFINE r == R[n + k]
             q == R[n + (k + 1)]
  <2>1. /\ n + k \in 0..Len(t) /\ n + (k + 1) \in 1..Len(t) /\ (n + (k + 1)) - 1 = n + k
    OBVIOUS
  <2>2. r \in Readings /\ q \in Readings /\ q = OneMore(r, t[n + (k + 1)]) /\ R[n] \in Readings
    BY <1>1, <2>1
  <2>3. Extends(R[n], r)
    BY <1>3, <2>1
  <2> HIDE DEF r, q
  <2>4. Extends(r, q)
    <3>1. CASE t[n + (k + 1)] = "nl"
      BY <2>2, <3>1, LineEndsExtends DEF OneMore
    <3>2. CASE t[n + (k + 1)] # "nl"
      <4>1. q.out = r.out /\ q.done = r.done /\ r.out \in Seq(Symbols)
        BY <2>2, <3>2 DEF OneMore, Readings
      <4> QED
        BY <4>1 DEF Extends
    <3> QED
      BY <3>1, <3>2
  <2>5. Extends(R[n], q)
    BY <2>2, <2>3, <2>4 DEF Extends, Readings
  <2> QED
    BY <2>5 DEF q
<1> HIDE DEF T
<1>4. \A k \in Nat : k \in T
  BY <1>2, <1>3, InductionInSet
<1>5. ASSUME NEW m \in n..Len(t) PROVE Extends(R[n], R[m])
  <2>1. m - n \in Nat /\ n + (m - n) = m /\ m <= Len(t)
    OBVIOUS
  <2>2. m - n \in T
    BY <1>4, <2>1
  <2> QED
    BY <2>1, <2>2 DEF T
<1> QED
  BY <1>5 DEF R

\* The chunks found so far begin the meaning of the text, and are all of it
\* behind the end marker.
LEMMA MeaningExtends ==
  ASSUME NEW t \in Seq(Symbols), NEW n \in 0..Len(t)
  PROVE  /\ Meaning(t) \in Seq(Symbols)
         /\ Reading(t)[n].out \in Seq(Symbols)
         /\ IsPrefix(Reading(t)[n].out, Meaning(t))
         /\ Reading(t)[n].done => Meaning(t) = Reading(t)[n].out
<1> DEFINE r == Reading(t)[n]
           q == Reading(t)[Len(t)]
<1>1. r \in Readings /\ q \in Readings
  <2>1. Len(t) \in 0..Len(t)
    OBVIOUS
  <2> QED
    BY <2>1, ReadingSteps
<1>2. Extends(r, q)
  <2>1. Len(t) \in n..Len(t)
    OBVIOUS
  <2> QED
    BY <2>1, ReadingExtends
<1>3. Meaning(t) = LineEnds(q).out
  BY DEF Meaning
<1> HIDE DEF r, q
<1>4. Extends(q, LineEnds(q)) /\ LineEnds(q) \in Readings
  BY <1>1, LineEndsExtends, LineEndsType
<1>5. r.out \in Seq(Symbols) /\ q.out \in Seq(Symbols) /\ Meaning(t) \in Seq(Symbols)
  BY <1>1, <1>3, <1>4 DEF Readings
<1>6. /\ Len(r.out) <= Len(Meaning(t)) /\ \A i \in 1..Len(r.out) : r.out[i] = Meaning(t)[i]
      /\ r.done => Meaning(t) = r.out
  BY <1>2, <1>3, <1>4, <1>5 DEF Extends
<1>7. IsPrefix(r.out, Meaning(t))
  BY <1>5, <1>6, PrefixMeans
<1> QED
  BY <1>5, <1>6, <1>7 DEF r

-----------------------------------------------------------------------------
(* The parser reads a block as the text means it. *)

\* Where a data line begins, and the first of them from its begin to its end.
Starts(b) == {i \in DOMAIN b : b[i] = "data:" /\ (i = 1 \/ b[i - 1] = "nl")}

FirstDataLine(b, i, e) ==
  /\ i \in Starts(b) /\ \A j \in Starts(b) : i <= j
  /\ i <= e /\ \A j \in i..e : b[j] # "nl"
  /\ e = Len(b) \/ b[e + 1] = "nl"

\* What DataLine returns.
LEMMA DataLineShape ==
  ASSUME NEW b \in Seq(Symbols)
  PROVE  \/ Starts(b) = {} /\ DataLine(b) = << >>
         \/ \E i, e \in 1..Len(b) : FirstDataLine(b, i, e) /\ DataLine(b) = SubSeq(b, i, e)
<1>1. CASE Starts(b) = {}
  BY <1>1 DEF Starts, DataLine
<1>2. CASE Starts(b) # {}
  <2> DEFINE i == Least(Starts(b))
             ends == {j \in (i + 1)..Len(b) : b[j] = "nl"}
             e == IF ends = {} THEN Len(b) ELSE Least(ends) - 1
  <2>1. i \in Starts(b) /\ \A j \in Starts(b) : i <= j
    <3>1. Starts(b) \subseteq Nat
      BY DEF Starts
    <3>2. \E n \in Starts(b) : \A m \in Starts(b) : n <= m
      BY <1>2, <3>1, LeastNatural
    <3> QED
      BY <3>2 DEF Least
  <2>2. DataLine(b) = SubSeq(b, i, e)
    BY <1>2 DEF DataLine, Starts
  <2> HIDE DEF i
  <2>3. i \in 1..Len(b) /\ b[i] = "data:"
    BY <2>1 DEF Starts
  <2>4. e \in i..Len(b) /\ (\A j \in i..e : b[j] # "nl") /\ (e = Len(b) \/ b[e + 1] = "nl")
    <3>1. CASE ends = {}
      BY <2>3, <3>1
    <3>2. CASE ends # {}
      <4> DEFINE l == Least(ends)
      <4>1. ends \subseteq Nat
        BY <2>3
      <4>2. l \in ends /\ \A j \in ends : l <= j
        <5> HIDE DEF ends
        <5> QED
          BY <3>2, <4>1, LeastNatural DEF Least
      <4>3. e = l - 1
        BY <3>2
      <4> HIDE DEF l, e
      <4>4. l \in (i + 1)..Len(b) /\ b[l] = "nl" /\ \A j \in (i + 1)..Len(b) : b[j] = "nl" => l <= j
        BY <4>2
      <4> QED
        BY <2>3, <4>3, <4>4
    <3> QED
      BY <3>1, <3>2
  <2> HIDE DEF e
  <2>5. i \in 1..Len(b) /\ e \in 1..Len(b) /\ FirstDataLine(b, i, e)
    BY <2>1, <2>3, <2>4 DEF FirstDataLine
  <2> QED
    BY <2>2, <2>5
<1> QED
  BY <1>1, <1>2

\* The line that is being read, behind k symbols of a block.
LineSoFar(r, b, k) ==
  \E l \in 0..k :
    /\ r.line = SubSeq(b, l + 1, k)
    /\ l = 0 \/ b[l] = "nl"
    /\ \A j \in (l + 1)..k : b[j] # "nl"

\* What is known of a block when its data line, if any, is not over, and when it is.
Before(r, out) == ~r.seen /\ ~r.done /\ r.out = out

Behind(r, out, b) == r.seen /\ r.done = IsDone(b) /\ r.out = out \o ChunkOf(b)

\* A line that is no data line changes nothing before the data line.
LEMMA OtherLine ==
  ASSUME NEW r \in Readings, NEW out, Before(r, out), r.line = << >> \/ r.line[1] # "data:"
  PROVE  Before(LineEnds(r), out)
BY DEF Before, LineEnds

\* Nor does any line behind it.
LEMMA LaterLine ==
  ASSUME NEW r \in Readings, r.seen
  PROVE  /\ LineEnds(r).out = r.out /\ LineEnds(r).done = r.done
         /\ r.line # << >> => LineEnds(r).seen
<1>1. r.done \in BOOLEAN
  BY DEF Readings
<1>2. LineEnds(r).out = r.out
  BY DEF LineEnds
<1>3. LineEnds(r).done <=> r.done
  BY DEF LineEnds
<1>4. LineEnds(r).done \in BOOLEAN
  BY LineEndsType DEF Readings
<1>5. r.line # << >> => LineEnds(r).seen
  BY DEF LineEnds
<1> QED
  BY <1>1, <1>2, <1>3, <1>4, <1>5

\* The data line makes the chunk of the block.
LEMMA TheDataLine ==
  ASSUME NEW r \in Readings, NEW out \in Seq(Symbols), Before(r, out), NEW b,
         r.line = DataLine(b), r.line # << >>, r.line[1] = "data:"
  PROVE  Behind(LineEnds(r), out, b)
<1>1. /\ LineEnds(r).seen
      /\ LineEnds(r).done = (r.line = <<"data:", "[DONE]">>)
      /\ LineEnds(r).out = IF Len(r.line) = 2 /\ r.line[2] \notin Markup
                            THEN Append(r.out, r.line[2]) ELSE r.out
  BY DEF Before, LineEnds
<1>2. LineEnds(r).done = IsDone(b)
  BY <1>1 DEF IsDone
<1>3. r.line \in Seq(Symbols)
  BY DEF Readings
<1>4. CASE Len(r.line) = 2 /\ r.line[2] \notin Markup
  <2>1. ChunkOf(b) = <<r.line[2]>>
    BY <1>4 DEF ChunkOf
  <2>2. r.line[2] \in Symbols
    <3>1. 2 \in 1..Len(r.line)
      BY <1>4
    <3> QED
      BY <1>3, <3>1, ElementOfSeq
  <2>3. LineEnds(r).out = Append(out, r.line[2])
    BY <1>1, <1>4 DEF Before
  <2>4. Append(out, r.line[2]) = out \o <<r.line[2]>>
    BY <2>2, AppendIsConcat
  <2> QED
    BY <1>1, <1>2, <2>1, <2>3, <2>4 DEF Behind
<1>5. CASE ~(Len(r.line) = 2 /\ r.line[2] \notin Markup)
  <2>1. ChunkOf(b) = << >>
    BY <1>5 DEF ChunkOf
  <2>2. LineEnds(r).out = out \o << >>
    BY <1>1, <1>5, ConcatEmptySeq DEF Before
  <2> QED
    BY <1>1, <1>2, <2>1, <2>2 DEF Behind
<1> QED
  BY <1>4, <1>5

\* s holds what is known behind each symbol of the block b.
ReadsBlock(s, b, out) ==
  /\ s \in [0..Len(b) -> Readings]
  /\ s[0] = Clean(out)
  /\ \A k \in 1..Len(b) : s[k] = OneMore(s[k - 1], b[k])

\* Throughout a block the line is what came since the latest newline.
LEMMA LinesOfBlock ==
  ASSUME NEW b \in Seq(Symbols), NEW out, NEW s, ReadsBlock(s, b, out)
  PROVE  \A k \in 0..Len(b) : LineSoFar(s[k], b, k)
<1> DEFINE T == {k \in Nat : k <= Len(b) => LineSoFar(s[k], b, k)}
<1>1. 0 \in T
  <2>1. s[0].line = << >> /\ SubSeq(b, 0 + 1, 0) = << >>
    BY DEF ReadsBlock, Clean
  <2>2. 0 \in 0..0 /\ s[0].line = SubSeq(b, 0 + 1, 0) /\ \A j \in (0 + 1)..0 : b[j] # "nl"
    BY <2>1
  <2>3. LineSoFar(s[0], b, 0)
    BY <2>2 DEF LineSoFar
  <2> QED
    BY <2>3
<1>2. ASSUME NEW k \in Nat, k \in T PROVE k + 1 \in T
  <2> SUFFICES ASSUME k + 1 <= Len(b) PROVE LineSoFar(s[k + 1], b, k + 1)
    OBVIOUS
  <2>1. s[k + 1] = OneMore(s[k], b[k + 1])
    BY DEF ReadsBlock
  <2>2. CASE b[k + 1] = "nl"
    <3>1. s[k + 1].line = << >> /\ SubSeq(b, (k + 1) + 1, k + 1) = << >>
      BY <2>1, <2>2 DEF OneMore, LineEnds
    <3> QED
      BY <2>2, <3>1 DEF LineSoFar
  <2>3. CASE b[k + 1] # "nl"
    <3>0. LineSoFar(s[k], b, k)
      BY <1>2
    <3>1. PICK l \in 0..k :
            /\ s[k].line = SubSeq(b, l + 1, k)
            /\ l = 0 \/ b[l] = "nl"
            /\ \A j \in (l + 1)..k : b[j] # "nl"
      BY <3>0 DEF LineSoFar
    <3>2. s[k + 1].line = Append(s[k].line, b[k + 1])
      <4>1. s[k] \in Readings
        BY DEF ReadsBlock
      <4> QED
        BY <2>1, <2>3, <4>1 DEF OneMore, Readings
    <3>3. Append(SubSeq(b, l + 1, k), b[k + 1]) = SubSeq(b, l + 1, k + 1)
      <4> DEFINE u == SubSeq(b, l + 1, k)
                 v == SubSeq(b, l + 1, k + 1)
                 w == Append(u, b[k + 1])
      <4>1. u \in Seq(Symbols) /\ Len(u) = k - l /\ \A j \in 1..(k - l) : u[j] = b[l + j]
        OBVIOUS
      <4>2. v \in Seq(Symbols) /\ Len(v) = k - l + 1 /\ \A j \in 1..(k - l + 1) : v[j] = b[l + j]
        OBVIOUS
      <4> HIDE DEF u, v
      <4>3. w \in Seq(Symbols) /\ Len(w) = k - l + 1 /\ w[k - l + 1] = b[k + 1]
            /\ \A j \in 1..(k - l) : w[j] = u[j]
        BY <4>1, AppendProperties
      <4> HIDE DEF w
      <4>4. ASSUME NEW j \in 1..(k - l + 1) PROVE w[j] = v[j]
        <5>1. CASE j = k - l + 1
          BY <4>2, <4>3, <5>1
        <5>2. CASE j \in 1..(k - l)
          BY <4>1, <4>2, <4>3, <5>2
        <5> QED
          BY <5>1, <5>2
      <4>5. w = v
        BY <4>2, <4>3, <4>4, SeqEqual
      <4> QED
        BY <4>5 DEF u, v, w
    <3>4. /\ l \in 0..(k + 1)
          /\ s[k + 1].line = SubSeq(b, l + 1, k + 1)
          /\ \A j \in (l + 1)..(k + 1) : b[j] # "nl"
      BY <2>3, <3>1, <3>2, <3>3
    <3> QED
      BY <3>1, <3>4 DEF LineSoFar
  <2> QED
    BY <2>2, <2>3
<1> HIDE DEF T
<1>3. \A k \in Nat : k \in T
  BY <1>1, <1>2, InductionInSet
<1> QED
  BY <1>3 DEF T

\* A line that begins a data line begins at one of the Starts; an empty one is
\* behind a newline, or at the begin of the block.
LEMMA LineFacts ==
  ASSUME NEW b \in Seq(Symbols), NEW k \in 0..Len(b), NEW r, LineSoFar(r, b, k)
  PROVE  /\ r.line # << >> /\ r.line[1] = "data:" =>
              \E i \in 1..k : i \in Starts(b) /\ r.line = SubSeq(b, i, k) /\ \A j \in i..k : b[j] # "nl"
         /\ r.line = << >> => k = 0 \/ b[k] = "nl"
<1>1. PICK l \in 0..k :
        /\ r.line = SubSeq(b, l + 1, k)
        /\ l = 0 \/ b[l] = "nl"
        /\ \A j \in (l + 1)..k : b[j] # "nl"
  BY DEF LineSoFar
<1>2. Len(r.line) = k - l /\ \A j \in 1..(k - l) : r.line[j] = b[l + j]
  BY <1>1
<1>3. ASSUME r.line = << >> PROVE k = 0 \/ b[k] = "nl"
  <2>1. l = k
    BY <1>2, <1>3
  <2> QED
    BY <1>1, <2>1
<1>4. ASSUME r.line # << >>, r.line[1] = "data:"
      PROVE  \E i \in 1..k : i \in Starts(b) /\ r.line = SubSeq(b, i, k) /\ \A j \in i..k : b[j] # "nl"
  <2>1. l < k
    <3> SUFFICES ASSUME l = k PROVE FALSE
      OBVIOUS
    <3>1. r.line = << >>
      BY <1>1
    <3> QED
      BY <1>4, <3>1
  <2>2. l + 1 \in 1..k /\ b[l + 1] = "data:"
    BY <1>2, <1>4, <2>1
  <2>3. l + 1 \in Starts(b)
    BY <1>1, <2>2 DEF Starts
  <2> QED
    BY <1>1, <2>2, <2>3
<1> QED
  BY <1>3, <1>4

\* What is known at the end of a block without an empty line inside.
LEMMA BlockIsRead ==
  ASSUME NEW b \in Seq(Symbols), Breaks(b) = {}, NEW out \in Seq(Symbols),
         NEW s, ReadsBlock(s, b, out)
  PROVE  LET r == LineEnds(s[Len(b)])
         IN  r.line = << >> /\ r.out = out \o ChunkOf(b) /\ r.done = IsDone(b)
<1> DEFINE m == Len(b)
<1>1. /\ m \in Nat /\ \A k \in 0..m : s[k] \in Readings /\ LineSoFar(s[k], b, k)
      /\ \A k \in 1..m : s[k] = OneMore(s[k - 1], b[k])
      /\ Before(s[0], out) /\ s[0].line = << >>
  <2>1. m \in Nat /\ \A k \in 0..m : s[k] \in Readings
    BY DEF ReadsBlock
  <2>2. \A k \in 0..m : LineSoFar(s[k], b, k)
    BY LinesOfBlock
  <2>3. \A k \in 1..m : s[k] = OneMore(s[k - 1], b[k])
    BY DEF ReadsBlock
  <2>4. Before(s[0], out) /\ s[0].line = << >>
    BY DEF ReadsBlock, Before, Clean
  <2> QED
    BY <2>1, <2>2, <2>3, <2>4
<1>2. LineEnds(s[m]).line = << >>
  BY DEF LineEnds
<1>3. CASE Starts(b) = {} /\ DataLine(b) = << >>
  <2>1. \A k \in 0..m : s[k].line = << >> \/ s[k].line[1] # "data:"
    BY <1>1, <1>3, LineFacts
  <2> DEFINE T == {k \in Nat : k <= m => Before(s[k], out)}
  <2>2. 0 \in T
    BY <1>1
  <2>3. ASSUME NEW k \in Nat, k \in T PROVE k + 1 \in T
    <3> SUFFICES ASSUME k + 1 <= m PROVE Before(s[k + 1], out)
      OBVIOUS
    <3>1. /\ Before(s[k], out) /\ s[k] \in Readings /\ s[k + 1] = OneMore(s[k], b[k + 1])
          /\ s[k].line = << >> \/ s[k].line[1] # "data:"
      BY <1>1, <2>1, <2>3
    <3>2. CASE b[k + 1] = "nl"
      BY <3>1, <3>2, OtherLine DEF OneMore
    <3>3. CASE b[k + 1] # "nl"
      BY <3>1, <3>3 DEF OneMore, Before, Readings
    <3> QED
      BY <3>2, <3>3
  <2> HIDE DEF T
  <2>4. \A k \in Nat : k \in T
    BY <2>2, <2>3, InductionInSet
  <2>5. Before(s[m], out)
    BY <1>1, <2>4 DEF T
  <2>6. Before(LineEnds(s[m]), out)
    BY <1>1, <2>1, <2>5, OtherLine
  <2>7. ChunkOf(b) = << >> /\ IsDone(b) = FALSE
    BY <1>3 DEF ChunkOf, IsDone
  <2>8. out \o ChunkOf(b) = out
    BY <2>7, ConcatEmptySeq
  <2>9. LineEnds(s[m]).done = FALSE /\ LineEnds(s[m]).out = out
    <3>1. LineEnds(s[m]).done \in BOOLEAN
      BY <1>1, LineEndsType DEF Readings
    <3> QED
      BY <2>6, <3>1 DEF Before
  <2> QED
    BY <1>2, <2>7, <2>8, <2>9
<1>4. ASSUME NEW i \in 1..m, NEW e \in 1..m, FirstDataLine(b, i, e), DataLine(b) = SubSeq(b, i, e)
      PROVE  LineEnds(s[m]).out = out \o ChunkOf(b) /\ LineEnds(s[m]).done = IsDone(b)
  <2> DEFINE Known(r, k) == IF k <= e THEN Before(r, out) ELSE Behind(r, out, b)
  <2>1. b[i] = "data:" /\ (i = 1 \/ b[i - 1] = "nl") /\ \A j \in Starts(b) : i <= j
    BY <1>4 DEF FirstDataLine, Starts
  <2>2. i <= e /\ (\A j \in i..e : b[j] # "nl") /\ (e = m \/ b[e + 1] = "nl")
    BY <1>4 DEF FirstDataLine
  \* The end of a line before the end of the data line.
  <2>3. ASSUME NEW k \in 0..m, k < e, Before(s[k], out), b[k + 1] = "nl"
        PROVE  Before(LineEnds(s[k]), out)
    <3>1. s[k].line = << >> \/ s[k].line[1] # "data:"
      <4> SUFFICES ASSUME s[k].line # << >>, s[k].line[1] = "data:" PROVE FALSE
        OBVIOUS
      <4>1. PICK j \in 1..k : j \in Starts(b)
        BY <1>1, LineFacts
      <4>2. i <= k + 1 /\ k + 1 <= e
        BY <2>1, <2>3, <4>1
      <4> QED
        BY <2>2, <2>3, <4>2
    <3> QED
      BY <1>1, <2>3, <3>1, OtherLine
  \* Its own end.
  <2>4. ASSUME Before(s[e], out)
        PROVE  Behind(LineEnds(s[e]), out, b)
    <3>1. s[e].line = DataLine(b)
      <4>0. LineSoFar(s[e], b, e)
        BY <1>1
      <4>1. PICK l \in 0..e :
              /\ s[e].line = SubSeq(b, l + 1, e)
              /\ l = 0 \/ b[l] = "nl"
              /\ \A j \in (l + 1)..e : b[j] # "nl"
        BY <4>0 DEF LineSoFar
      <4>2. l + 1 = i
        BY <2>1, <2>2, <4>1
      <4> QED
        BY <1>4, <4>1, <4>2
    <3>2. DataLine(b) # << >> /\ DataLine(b)[1] = "data:"
      <4> DEFINE d == SubSeq(b, i, e)
      <4>1. Len(d) = e - i + 1 /\ \A j \in 1..(e - i + 1) : d[j] = b[i + j - 1]
        BY <2>2
      <4> HIDE DEF d
      <4>2. Len(d) > 0 /\ d[1] = b[i]
        BY <2>2, <4>1
      <4>3. d = DataLine(b)
        BY <1>4 DEF d
      <4> QED
        BY <2>1, <4>2, <4>3
    <3> QED
      BY <1>1, <2>4, <3>1, <3>2, TheDataLine
  \* The end of a line behind it, which is not empty.
  <2>5. ASSUME NEW k \in 0..m, k > e, Behind(s[k], out, b), s[k].line # << >>
        PROVE  Behind(LineEnds(s[k]), out, b)
    <3>1. s[k] \in Readings
      BY <1>1
    <3> QED
      BY <2>5, <3>1, LaterLine DEF Behind
  <2> DEFINE T == {k \in Nat : k <= m => Known(s[k], k)}
  <2>6. 0 \in T
    BY <1>1
  <2>7. ASSUME NEW k \in Nat, k \in T PROVE k + 1 \in T
    <3> SUFFICES ASSUME k + 1 <= m PROVE Known(s[k + 1], k + 1)
      OBVIOUS
    <3>1. /\ Known(s[k], k) /\ s[k] \in Readings /\ s[k + 1] = OneMore(s[k], b[k + 1])
          /\ k \in 0..m
      BY <1>1, <2>7
    <3>2. CASE b[k + 1] # "nl"
      <4>1. /\ s[k + 1].seen = s[k].seen /\ s[k + 1].done = s[k].done
            /\ s[k + 1].out = s[k].out
        BY <3>1, <3>2 DEF OneMore, Readings
      <4>2. k <= e <=> k + 1 <= e
        BY <2>2, <3>2
      <4> QED
        BY <3>1, <4>1, <4>2 DEF Before, Behind
    <3>3. CASE b[k + 1] = "nl"
      <4>1. s[k + 1] = LineEnds(s[k])
        BY <3>1, <3>3 DEF OneMore
      <4>2. CASE k < e
        BY <2>3, <3>1, <3>3, <4>1, <4>2
      <4>3. CASE k = e
        BY <2>4, <3>1, <4>1, <4>3
      <4>4. CASE k > e
        <5>1. s[k].line # << >>
          <6> SUFFICES ASSUME s[k].line = << >> PROVE FALSE
            OBVIOUS
          <6>1. b[k] = "nl" /\ k \in 1..(m - 1)
            BY <1>1, <3>1, <4>4, LineFacts
          <6>2. k \in Breaks(b)
            BY <3>3, <6>1 DEF Breaks
          <6> QED
            BY <6>2
        <5> QED
          BY <2>5, <3>1, <4>1, <4>4, <5>1
      <4> QED
        BY <4>2, <4>3, <4>4
    <3> QED
      BY <3>2, <3>3
  <2> HIDE DEF T
  <2>8. \A k \in Nat : k \in T
    BY <2>6, <2>7, InductionInSet
  <2>9. Known(s[m], m)
    BY <1>1, <2>8 DEF T
  <2>10. CASE m = e
    BY <2>4, <2>9, <2>10 DEF Behind
  <2>11. CASE m > e
    <3>1. s[m] \in Readings /\ Behind(s[m], out, b)
      BY <1>1, <2>9, <2>11
    <3> QED
      BY <3>1, LaterLine DEF Behind
  <2> QED
    BY <2>10, <2>11
<1> QED
  BY <1>2, <1>3, <1>4, DataLineShape

\* Where the parser is: behind c symbols of the text, at the begin of a block,
\* with what has arrived since in its buffer; or at the end.
ParserInvariant ==
  /\ text \in Seq(Symbols) /\ arrived \in 0..Len(text)
  /\ chunks \in Seq(Symbols) /\ over \in BOOLEAN
  /\ ~over => \E c \in 0..arrived : /\ buffer = SubSeq(text, c + 1, arrived)
                                     /\ Reading(text)[c] = Clean(chunks)
  /\ over => chunks = Meaning(text)

\* A parser begins well.
LEMMA ParserBegins ==
  ASSUME NEW r \in Texts, SseBegin(r)
  PROVE  ParserInvariant' /\ chunks' = << >> /\ ~over'
<1>1. r \in Seq(Symbols)
  BY TextsAssumption DEF Symbols
<1>2. /\ text' = r /\ arrived' = 0 /\ buffer' = << >> /\ chunks' = << >> /\ over' = FALSE
  BY DEF SseBegin
<1>3. Reading(r)[0] = Clean(<< >>)
  BY <1>1, ReadingSteps
<1>4. SubSeq(r, 0 + 1, 0) = << >> /\ 0 \in 0..0 /\ 0 \in 0..Len(r)
  BY <1>1
<1>5. \E c \in 0..arrived' : /\ buffer' = SubSeq(text', c + 1, arrived')
                             /\ Reading(text')[c] = Clean(chunks')
  BY <1>2, <1>3, <1>4
<1>6. text' \in Seq(Symbols) /\ arrived' \in 0..Len(text') /\ chunks' \in Seq(Symbols)
  BY <1>1, <1>2, <1>4
<1> QED
  BY <1>2, <1>5, <1>6 DEF ParserInvariant

\* A piece that arrives joins the buffer.
LEMMA ReceiveKeeps == ParserInvariant /\ Receive => ParserInvariant' /\ chunks' = chunks
<1> SUFFICES ASSUME ParserInvariant, Receive PROVE ParserInvariant' /\ chunks' = chunks
  OBVIOUS
<1>1. PICK n \in (arrived + 1)..Len(text) :
        arrived' = n /\ buffer' = buffer \o SubSeq(text, arrived + 1, n)
  BY DEF Receive
<1>2. ~over /\ UNCHANGED <<text, chunks, over>>
  BY DEF Receive
<1>3. PICK c \in 0..arrived : buffer = SubSeq(text, c + 1, arrived) /\ Reading(text)[c] = Clean(chunks)
  BY <1>2 DEF ParserInvariant
<1>4. text \in Seq(Symbols) /\ arrived \in 0..Len(text)
  BY DEF ParserInvariant
<1>5. buffer' = SubSeq(text, c + 1, n)
  <2> DEFINE u == SubSeq(text, c + 1, arrived)
             v == SubSeq(text, arrived + 1, n)
             w == SubSeq(text, c + 1, n)
  <2>1. u \in Seq(Symbols) /\ Len(u) = arrived - c /\ \A j \in 1..(arrived - c) : u[j] = text[c + j]
    BY <1>4
  <2>2. v \in Seq(Symbols) /\ Len(v) = n - arrived /\ \A j \in 1..(n - arrived) : v[j] = text[arrived + j]
    BY <1>4
  <2>3. w \in Seq(Symbols) /\ Len(w) = n - c /\ \A j \in 1..(n - c) : w[j] = text[c + j]
    BY <1>4
  <2> HIDE DEF u, v, w
  <2> DEFINE x == u \o v
  <2>4. /\ x \in Seq(Symbols) /\ Len(x) = Len(u) + Len(v)
        /\ \A j \in 1..(Len(u) + Len(v)) : x[j] = IF j <= Len(u) THEN u[j] ELSE v[j - Len(u)]
    BY <2>1, <2>2, ConcatProperties
  <2> HIDE DEF x
  <2>5. Len(x) = n - c
    BY <1>4, <2>1, <2>2, <2>4
  <2>6. ASSUME NEW j \in 1..(n - c) PROVE x[j] = w[j]
    <3>1. CASE j <= arrived - c
      BY <1>4, <2>1, <2>2, <2>3, <2>4, <3>1
    <3>2. CASE j > arrived - c
      <4>1. j - (arrived - c) \in 1..(n - arrived) /\ arrived + (j - (arrived - c)) = c + j
        BY <1>4, <3>2
      <4>2. x[j] = v[j - (arrived - c)]
        <5>1. j \in 1..(Len(u) + Len(v)) /\ ~(j <= Len(u)) /\ Len(u) = arrived - c
          BY <1>4, <2>1, <2>2, <3>2
        <5> QED
          BY <2>4, <5>1
      <4> QED
        BY <2>2, <2>3, <4>1, <4>2
    <3> QED
      BY <1>4, <3>1, <3>2
  <2>7. x = w
    BY <2>3, <2>4, <2>5, <2>6, SeqEqual
  <2> QED
    BY <1>1, <1>3, <2>7 DEF u, v, w, x
<1>6. c \in 0..n /\ n \in 0..Len(text)
  BY <1>4
<1> QED
  BY <1>1, <1>2, <1>3, <1>4, <1>5, <1>6 DEF ParserInvariant

\* The chunk of a block is one symbol or none.
LEMMA ChunkOfType ==
  ASSUME NEW b \in Seq(Symbols)
  PROVE  ChunkOf(b) \in Seq(Symbols)
<1>1. DataLine(b) \in Seq(Symbols)
  <2>1. CASE DataLine(b) = << >>
    BY <2>1
  <2>2. CASE \E i, e \in 1..Len(b) : DataLine(b) = SubSeq(b, i, e)
    BY <2>2
  <2> QED
    BY <2>1, <2>2, DataLineShape
<1>2. CASE Len(DataLine(b)) = 2
  <2>1. 2 \in 1..Len(DataLine(b))
    BY <1>2
  <2>2. DataLine(b)[2] \in Symbols
    BY <1>1, <2>1, ElementOfSeq
  <2> HIDE DEF Symbols
  <2> QED
    BY <2>2 DEF ChunkOf
<1>3. CASE Len(DataLine(b)) # 2
  BY <1>3 DEF ChunkOf
<1> QED
  BY <1>2, <1>3

\* Behind c symbols of t, with the chunks out so far, follow m symbols b without an
\* empty line between.
BlockAt(t, c, m, b, out) ==
  /\ t \in Seq(Symbols) /\ c \in 0..Len(t) /\ m \in Nat /\ c + m <= Len(t)
  /\ out \in Seq(Symbols) /\ Reading(t)[c] = Clean(out)
  /\ b = SubSeq(t, c + 1, c + m) /\ Breaks(b) = {}

\* Reading on behind such a block.
LEMMA ReadingOfBlock ==
  ASSUME NEW t, NEW c, NEW m, NEW b, NEW out, BlockAt(t, c, m, b, out)
  PROVE  /\ b \in Seq(Symbols) /\ out \o ChunkOf(b) \in Seq(Symbols)
         /\ LineEnds(Reading(t)[c + m]).line = << >>
         /\ LineEnds(Reading(t)[c + m]).out = out \o ChunkOf(b)
         /\ LineEnds(Reading(t)[c + m]).done = IsDone(b)
<1> DEFINE R == Reading(t)
           s == [k \in 0..m |-> R[c + k]]
<1>0. /\ t \in Seq(Symbols) /\ c \in 0..Len(t) /\ m \in Nat /\ c + m <= Len(t)
      /\ out \in Seq(Symbols) /\ R[c] = Clean(out) /\ Breaks(b) = {}
  BY DEF BlockAt
<1>1. b \in Seq(Symbols) /\ Len(b) = m /\ \A j \in 1..m : b[j] = t[c + j]
  <2>1. b = SubSeq(t, c + 1, c + m)
    BY DEF BlockAt
  <2>2. \A j \in (c + 1)..(c + m) : t[j] \in Symbols
    BY <1>0
  <2>3. c + 1 \in Int /\ c + m \in Int
    BY <1>0
  <2> HIDE DEF R, s
  <2>4. b \in Seq(Symbols)
    BY <2>1, <2>2, <2>3, SubSeqProperties
  <2>5. Len(b) = m
    BY <1>0, <2>1
  <2>6. ASSUME NEW j \in 1..m PROVE b[j] = t[c + j]
    BY <1>0, <2>1
  <2> QED
    BY <2>4, <2>5, <2>6
<1>2. /\ \A i \in 1..Len(t) : R[i] = OneMore(R[i - 1], t[i])
      /\ \A i \in 0..Len(t) : R[i] \in Readings
  BY <1>0, ReadingSteps
<1> HIDE DEF R
<1>3. ReadsBlock(s, b, out)
  <2>1. s \in [0..m -> Readings]
    BY <1>0, <1>2
  <2>2. s[0] = Clean(out)
    BY <1>0
  <2>3. ASSUME NEW k \in 1..m PROVE s[k] = OneMore(s[k - 1], b[k])
    <3>1. c + k \in 1..Len(t) /\ (c + k) - 1 = c + (k - 1) /\ k - 1 \in 0..m /\ k \in 0..m
      BY <1>0
    <3>2. s[k] = R[c + k] /\ s[k - 1] = R[c + (k - 1)]
      BY <3>1
    <3> QED
      BY <1>1, <1>2, <3>1, <3>2
  <2> QED
    BY <1>1, <2>1, <2>2, <2>3 DEF ReadsBlock
<1>4. s[m] = R[c + m]
  BY <1>0
<1> HIDE DEF s
<1>5. LET r == LineEnds(s[Len(b)])
      IN  r.line = << >> /\ r.out = out \o ChunkOf(b) /\ r.done = IsDone(b)
  BY <1>0, <1>1, <1>3, BlockIsRead
<1>6. out \o ChunkOf(b) \in Seq(Symbols)
  BY <1>0, <1>1, ChunkOfType, ConcatProperties
<1> QED
  BY <1>1, <1>4, <1>5, <1>6 DEF R

\* The trailing block ends the text.
LEMMA FlushKeeps ==
  ParserInvariant /\ Flush => ParserInvariant' /\ \E u \in Seq(Symbols) : chunks' = chunks \o u
<1> SUFFICES ASSUME ParserInvariant, Flush
             PROVE  ParserInvariant' /\ \E u \in Seq(Symbols) : chunks' = chunks \o u
  OBVIOUS
<1>1. /\ ~over /\ Breaks(buffer) = {} /\ arrived = Len(text) /\ chunks' = chunks \o ChunkOf(buffer)
      /\ over' = TRUE /\ UNCHANGED <<text, arrived, buffer>>
  BY DEF Flush, Parse
<1>2. PICK c \in 0..arrived : buffer = SubSeq(text, c + 1, arrived) /\ Reading(text)[c] = Clean(chunks)
  BY <1>1 DEF ParserInvariant
<1>3. text \in Seq(Symbols) /\ arrived \in 0..Len(text) /\ chunks \in Seq(Symbols)
  BY DEF ParserInvariant
<1> DEFINE m == arrived - c
<1>4. /\ m \in Nat /\ c + m = Len(text) /\ c + m <= Len(text) /\ c \in 0..Len(text)
      /\ buffer = SubSeq(text, c + 1, c + m)
  BY <1>1, <1>2, <1>3
<1> HIDE DEF m
<1>5. /\ buffer \in Seq(Symbols) /\ chunks \o ChunkOf(buffer) \in Seq(Symbols)
      /\ LineEnds(Reading(text)[c + m]).out = chunks \o ChunkOf(buffer)
  <2>1. BlockAt(text, c, m, buffer, chunks)
    BY <1>1, <1>2, <1>3, <1>4 DEF BlockAt
  <2> QED
    BY <2>1, ReadingOfBlock
<1>6. chunks' = Meaning(text) /\ chunks' \in Seq(Symbols)
  BY <1>1, <1>4, <1>5 DEF Meaning
<1>7. ChunkOf(buffer) \in Seq(Symbols)
  BY <1>5, ChunkOfType
<1> QED
  BY <1>1, <1>3, <1>6, <1>7 DEF ParserInvariant

\* A whole block of the buffer is parsed, and the empty line behind it dropped.
LEMMA BlockKeeps ==
  ParserInvariant /\ Block => ParserInvariant' /\ \E u \in Seq(Symbols) : chunks' = chunks \o u
<1> SUFFICES ASSUME ParserInvariant, Block
             PROVE  ParserInvariant' /\ \E u \in Seq(Symbols) : chunks' = chunks \o u
  OBVIOUS
<1> DEFINE i == Least(Breaks(buffer))
           b == SubSeq(buffer, 1, i - 1)
<1>1. /\ ~over /\ Breaks(buffer) # {} /\ UNCHANGED <<text, arrived>>
      /\ buffer' = SubSeq(buffer, i + 2, Len(buffer))
      /\ chunks' = chunks \o ChunkOf(b) /\ over' = IsDone(b)
  BY DEF Block, Parse
<1>2. PICK c \in 0..arrived : buffer = SubSeq(text, c + 1, arrived) /\ Reading(text)[c] = Clean(chunks)
  BY <1>1 DEF ParserInvariant
<1>3. text \in Seq(Symbols) /\ arrived \in 0..Len(text) /\ chunks \in Seq(Symbols)
  BY DEF ParserInvariant
<1>4. /\ buffer \in Seq(Symbols) /\ Len(buffer) = arrived - c
      /\ \A j \in 1..(arrived - c) : buffer[j] = text[c + j]
  BY <1>2, <1>3
<1>5. i \in Breaks(buffer) /\ \A j \in Breaks(buffer) : i <= j
  <2>1. Breaks(buffer) \subseteq Nat
    BY DEF Breaks
  <2>2. \E n \in Breaks(buffer) : \A j \in Breaks(buffer) : n <= j
    BY <1>1, <2>1, LeastNatural
  <2> QED
    BY <2>2 DEF Least
<1> HIDE DEF i
<1>6. /\ i \in 1..(arrived - c - 1) /\ text[c + i] = "nl" /\ text[c + i + 1] = "nl"
      /\ c + i + 1 \in 1..Len(text) /\ c + i \in 1..Len(text)
  BY <1>3, <1>4, <1>5 DEF Breaks
<1>7. b = SubSeq(text, c + 1, c + (i - 1))
  <2> DEFINE v == SubSeq(text, c + 1, c + (i - 1))
  <2>1. v \in Seq(Symbols) /\ Len(v) = i - 1 /\ \A j \in 1..(i - 1) : v[j] = text[c + j]
    BY <1>3, <1>6
  <2>2. b \in Seq(Symbols) /\ Len(b) = i - 1 /\ \A j \in 1..(i - 1) : b[j] = buffer[j]
    BY <1>3, <1>4, <1>6
  <2>3. \A j \in 1..(i - 1) : buffer[j] = text[c + j]
    BY <1>4, <1>6
  <2> HIDE DEF b, v
  <2>4. b = v
    BY <2>1, <2>2, <2>3, SeqEqual
  <2> QED
    BY <2>4 DEF v
<1>8. Breaks(b) = {}
  <2> SUFFICES ASSUME NEW j \in Breaks(b) PROVE FALSE
    OBVIOUS
  <2>1. Len(b) = i - 1 /\ \A k \in 1..(i - 1) : b[k] = buffer[k]
    BY <1>3, <1>4, <1>6
  <2> HIDE DEF b
  <2>2. j \in 1..(i - 2) /\ b[j] = "nl" /\ b[j + 1] = "nl"
    BY <1>6, <2>1 DEF Breaks
  <2>3. j \in Breaks(buffer)
    BY <1>4, <1>6, <2>1, <2>2 DEF Breaks
  <2> QED
    BY <1>5, <1>6, <2>2, <2>3
<1> HIDE DEF b
<1> DEFINE r == LineEnds(Reading(text)[c + (i - 1)])
<1>9. /\ b \in Seq(Symbols) /\ chunks \o ChunkOf(b) \in Seq(Symbols)
      /\ r.line = << >> /\ r.out = chunks \o ChunkOf(b) /\ r.done = IsDone(b)
  <2>1. i - 1 \in Nat /\ c + (i - 1) <= Len(text) /\ c \in 0..Len(text)
    BY <1>3, <1>6
  <2> QED
    <3>1. BlockAt(text, c, i - 1, b, chunks)
      BY <1>2, <1>3, <1>7, <1>8, <2>1 DEF BlockAt
    <3> QED
      BY <3>1, ReadingOfBlock
\* The two newlines: the end of the last line of the block, and an empty line.
<1>10. Reading(text)[c + i] = r
  <2>1. (c + i) - 1 = c + (i - 1)
    BY <1>6
  <2>2. Reading(text)[c + i] = OneMore(Reading(text)[(c + i) - 1], text[c + i])
    BY <1>3, <1>6, ReadingSteps
  <2> QED
    BY <1>6, <2>1, <2>2 DEF OneMore
<1>11. Reading(text)[c + i + 1] = LineEnds(r)
  <2>1. (c + i + 1) - 1 = c + i
    BY <1>6
  <2>2. Reading(text)[c + i + 1] = OneMore(Reading(text)[(c + i + 1) - 1], text[c + i + 1])
    BY <1>3, <1>6, ReadingSteps
  <2> QED
    BY <1>6, <1>10, <2>1, <2>2 DEF OneMore
<1>12. r \in Readings /\ LineEnds(r) \in Readings
  <2>1. c + i \in 0..Len(text) /\ c + i + 1 \in 0..Len(text)
    BY <1>6
  <2> QED
    BY <1>3, <1>10, <1>11, <2>1, ReadingSteps
<1> HIDE DEF r
<1>13. /\ LineEnds(r).line = << >> /\ LineEnds(r).seen = FALSE
       /\ LineEnds(r).out = r.out /\ (LineEnds(r).done <=> r.done)
  BY <1>9 DEF LineEnds
<1>14. ASSUME ~over' PROVE ParserInvariant'
  <2>1. LineEnds(r).done = FALSE
    BY <1>1, <1>9, <1>12, <1>13, <1>14 DEF Readings
  <2>2. Reading(text)[c + i + 1] = Clean(chunks')
    BY <1>1, <1>9, <1>11, <1>12, <1>13, <2>1 DEF Clean, Readings
  <2>3. c + i + 1 \in 0..arrived
    BY <1>3, <1>6
  <2>4. buffer' = SubSeq(text, (c + i + 1) + 1, arrived)
    <3> DEFINE u == SubSeq(buffer, i + 2, Len(buffer))
               v == SubSeq(text, (c + i + 1) + 1, arrived)
    <3>1. u \in Seq(Symbols) /\ Len(u) = arrived - c - i - 1
          /\ \A j \in 1..(arrived - c - i - 1) : u[j] = buffer[i + 1 + j]
      BY <1>3, <1>4, <1>6
    <3>2. v \in Seq(Symbols) /\ Len(v) = arrived - c - i - 1
          /\ \A j \in 1..(arrived - c - i - 1) : v[j] = text[c + i + 1 + j]
      BY <1>3, <1>6
    <3>3. ASSUME NEW j \in 1..(arrived - c - i - 1) PROVE buffer[i + 1 + j] = text[c + i + 1 + j]
      <4>1. i + 1 + j \in 1..(arrived - c) /\ c + (i + 1 + j) = c + i + 1 + j
        BY <1>3, <1>6
      <4> QED
        BY <1>4, <4>1
    <3> HIDE DEF u, v
    <3>4. u = v
      BY <3>1, <3>2, <3>3, SeqEqual
    <3> QED
      BY <1>1, <3>4 DEF u, v
  <2>5. over' \in BOOLEAN /\ chunks' \in Seq(Symbols)
    BY <1>1, <1>9 DEF IsDone
  <2>6. \E d \in 0..arrived : /\ buffer' = SubSeq(text, d + 1, arrived)
                             /\ Reading(text)[d] = Clean(chunks')
    BY <2>2, <2>3, <2>4
  <2>7. text' = text /\ arrived' = arrived
    BY <1>1
  <2> QED
    BY <1>3, <1>14, <2>5, <2>6, <2>7 DEF ParserInvariant
<1>15. ASSUME over' PROVE ParserInvariant'
  <2>1. Reading(text)[c + i + 1].done /\ Reading(text)[c + i + 1].out = chunks'
    BY <1>1, <1>9, <1>11, <1>13, <1>15
  <2>2. c + i + 1 \in 0..Len(text)
    BY <1>6
  <2>3. chunks' = Meaning(text)
    BY <1>3, <2>1, <2>2, MeaningExtends
  <2>4. over' \in BOOLEAN /\ chunks' \in Seq(Symbols)
    BY <1>1, <1>9 DEF IsDone
  <2>5. text' = text /\ arrived' = arrived
    BY <1>1
  <2> QED
    BY <1>3, <1>15, <2>3, <2>4, <2>5 DEF ParserInvariant
<1>16. ChunkOf(b) \in Seq(Symbols)
  BY <1>9, ChunkOfType
<1> QED
  BY <1>1, <1>14, <1>15, <1>16

\* A step of the parser adds to its chunks.
LEMMA SseStepKeeps ==
  ParserInvariant /\ SseStep => ParserInvariant' /\ \E u \in Seq(Symbols) : chunks' = chunks \o u
<1>1. ASSUME ParserInvariant, Receive
      PROVE  ParserInvariant' /\ \E u \in Seq(Symbols) : chunks' = chunks \o u
  <2>1. ParserInvariant' /\ chunks' = chunks
    BY <1>1, ReceiveKeeps
  <2>2. << >> \in Seq(Symbols) /\ chunks \o << >> = chunks
    BY <1>1 DEF ParserInvariant
  <2> QED
    BY <2>1, <2>2
<1> QED
  BY <1>1, BlockKeeps, FlushKeeps DEF SseStep

\* The first of a sequence moves to the end of another.
LEMMA HeadMoves ==
  ASSUME NEW S, NEW g \in Seq(S), NEW c \in Seq(S), c # << >>
  PROVE  /\ Head(c) \in S /\ Tail(c) \in Seq(S) /\ Append(g, Head(c)) \in Seq(S)
         /\ Append(g, Head(c)) \o Tail(c) = g \o c
<1>1. Head(c) \in S /\ Tail(c) \in Seq(S) /\ Len(c) \in Nat \ {0} /\ Len(Tail(c)) = Len(c) - 1
      /\ \A j \in 1..(Len(c) - 1) : Tail(c)[j] = c[j + 1]
  OBVIOUS
<1>2. /\ Append(g, Head(c)) \in Seq(S) /\ Len(Append(g, Head(c))) = Len(g) + 1
      /\ \A j \in 1..Len(g) : Append(g, Head(c))[j] = g[j]
      /\ Append(g, Head(c))[Len(g) + 1] = c[1]
  BY <1>1
<1> DEFINE u == Append(g, Head(c)) \o Tail(c)
           v == g \o c
<1>3. u \in Seq(S) /\ v \in Seq(S) /\ Len(u) = Len(g) + Len(c) /\ Len(v) = Len(g) + Len(c)
  BY <1>1, <1>2
<1>4. ASSUME NEW i \in 1..(Len(g) + Len(c)) PROVE u[i] = v[i]
  <2>1. CASE i <= Len(g)
    BY <1>1, <1>2, <2>1
  <2>2. CASE i = Len(g) + 1
    BY <1>1, <1>2, <2>2
  <2>3. CASE i > Len(g) + 1
    BY <1>1, <1>2, <2>3
  <2> QED
    BY <2>1, <2>2, <2>3
<1> HIDE DEF u, v
<1>5. u = v
  BY <1>3, <1>4, SeqEqual
<1> QED
  BY <1>1, <1>2, <1>5 DEF u, v

\* So it does when the sequence has something behind it.
LEMMA HeadOfBoth ==
  ASSUME NEW S, NEW c \in Seq(S), NEW m \in Seq(S), c # << >>
  PROVE  c \o m # << >> /\ Head(c \o m) = Head(c) /\ Tail(c \o m) = Tail(c) \o m
<1> DEFINE u == Tail(c \o m)
           v == Tail(c) \o m
<1>1. c \o m \in Seq(S) /\ Len(c \o m) = Len(c) + Len(m) /\ Len(c) \in Nat \ {0} /\ Len(m) \in Nat
  OBVIOUS
<1>2. c \o m # << >> /\ Head(c \o m) = Head(c)
  BY <1>1
<1>3. u \in Seq(S) /\ Len(u) = Len(c) + Len(m) - 1
      /\ \A i \in 1..(Len(c) + Len(m) - 1) : u[i] = (c \o m)[i + 1]
  BY <1>1, <1>2
<1>4. Tail(c) \in Seq(S) /\ Len(Tail(c)) = Len(c) - 1
      /\ \A i \in 1..(Len(c) - 1) : Tail(c)[i] = c[i + 1]
  BY <1>1
<1>5. v \in Seq(S) /\ Len(v) = Len(c) + Len(m) - 1
  BY <1>1, <1>4
<1>6. ASSUME NEW i \in 1..(Len(c) + Len(m) - 1) PROVE u[i] = v[i]
  <2>1. CASE i <= Len(c) - 1
    BY <1>1, <1>3, <1>4, <2>1
  <2>2. CASE i > Len(c) - 1
    BY <1>1, <1>3, <1>4, <2>2
  <2> QED
    BY <1>1, <2>1, <2>2
<1> HIDE DEF u, v
<1>7. u = v
  BY <1>3, <1>5, <1>6, SeqEqual
<1> QED
  BY <1>2, <1>7 DEF u, v

\* The begin of a prefix is a prefix.
LEMMA PrefixOfPrefix ==
  ASSUME NEW S, NEW g \in Seq(S), NEW c \in Seq(S), NEW t \in Seq(S), IsPrefix(g \o c, t)
  PROVE  IsPrefix(g, t)
<1> DEFINE both == g \o c
<1>1. both \in Seq(S) /\ Len(g) \in Nat /\ Len(g) <= Len(both)
      /\ \A i \in 1..Len(g) : i \in 1..Len(both) /\ both[i] = g[i]
  OBVIOUS
<1>2. IsPrefix(both, t)
  OBVIOUS
<1> HIDE DEF both
<1>3. Len(both) <= Len(t) /\ \A i \in 1..Len(both) : both[i] = t[i]
  BY <1>1, <1>2, PrefixMeans
<1>4. Len(g) <= Len(t) /\ \A i \in 1..Len(g) : g[i] = t[i]
  BY <1>1, <1>3
<1> QED
  BY <1>4, PrefixMeans

\* A whole sequence is a prefix of itself, and an empty one of any.
LEMMA TrivialPrefixes ==
  ASSUME NEW S, NEW t \in Seq(S)
  PROVE  IsPrefix(t, t) /\ IsPrefix(<< >>, t)
<1>1. IsPrefix(t, t)
  BY PrefixMeans
<1> DEFINE e == << >>
<1>2. e \in Seq(S) /\ Len(e) = 0 /\ Len(t) \in Nat
  OBVIOUS
<1> HIDE DEF e
<1>3. Len(e) <= Len(t) /\ \A i \in 1..Len(e) : e[i] = t[i]
  BY <1>2
<1>4. IsPrefix(e, t)
  BY <1>2, <1>3, PrefixMeans
<1> QED
  BY <1>1, <1>4 DEF e

\* What the parser has yielded begins the meaning of its text, and is all of it
\* when the parser is over.
LEMMA ParserIsRight ==
  ASSUME ParserInvariant
  PROVE  /\ Meaning(text) \in Seq(Symbols) /\ IsPrefix(chunks, Meaning(text))
         /\ over => chunks = Meaning(text)
<1>1. text \in Seq(Symbols) /\ 0 \in 0..Len(text)
  BY DEF ParserInvariant
<1>2. Meaning(text) \in Seq(Symbols)
  BY <1>1, MeaningExtends
<1>3. CASE over
  BY <1>2, <1>3, PrefixMeans DEF ParserInvariant
<1>4. CASE ~over
  <2>1. PICK c \in 0..arrived : Reading(text)[c] = Clean(chunks)
    BY <1>4 DEF ParserInvariant
  <2>2. c \in 0..Len(text)
    BY DEF ParserInvariant
  <2>3. Reading(text)[c].out = chunks
    BY <2>1 DEF Clean
  <2> QED
    BY <1>1, <1>2, <1>4, <2>2, <2>3, MeaningExtends
<1> QED
  BY <1>2, <1>3, <1>4

-----------------------------------------------------------------------------
(* From the parser to the caller of stream(). *)

\* What the thread has not taken yet completes what it has got: the chunks that
\* are still to come, the error if the stream broke, and the sentinel.
Pending ==
  \E c \in Seq(Symbols) :
    /\ IsPrefix(got \o c, Meaning(text))
    /\ \/ queue = c \o <<Raise, Sentinel>>
       \/ queue = c \o <<Sentinel>> /\ got \o c = Meaning(text)

\* A stream until its coroutine begins, while it runs, and when it is done.
Scheduled == job[Streamer] = "scheduled" /\ queue = << >> /\ got = << >>

Producing == job[Streamer] = "streaming" /\ ParserInvariant /\ queue = chunks /\ got = << >>

Produced ==
  /\ job[Streamer] = "done"
  /\ IF place[Streamer] = "idle" THEN error[Streamer] = "none" => got = Meaning(text) ELSE Pending

\* Only one thread streams, and it takes nothing before its coroutine is done.
StreamState ==
  /\ text \in Seq(Symbols)
  /\ \A t \in Threads : call[t] = "stream" => t = Streamer
  /\ call[Streamer] = "stream" =>
       /\ place[Streamer] \in {"blocked", "yielding", "failed", "idle"}
       /\ place[Streamer] \in {"yielding", "idle"} => job[Streamer] = "done"
       /\ got \in Seq(Symbols) /\ IsPrefix(got, Meaning(text))
       /\ Scheduled \/ Producing \/ Produced

\* The thread takes one item of the queue: a chunk, the error or the sentinel.
LEMMA YieldKeeps ==
  ASSUME StreamState, FacadeTypeOK, JobOfCall, NEW t \in Threads, Yield(t)
  PROVE  StreamState'
<1>1. call[t] = "stream" /\ t = Streamer
  BY DEF Yield, JobOfCall, StreamState
<1>2. /\ place[Streamer] = "yielding" /\ queue # << >> /\ job[Streamer] = "done"
      /\ text \in Seq(Symbols) /\ got \in Seq(Symbols)
  BY <1>1 DEF Yield, StreamState
<1>3. Pending
  BY <1>1, <1>2 DEF StreamState, Scheduled, Producing, Produced
<1>4. PICK c \in Seq(Symbols) :
        /\ IsPrefix(got \o c, Meaning(text))
        /\ \/ queue = c \o <<Raise, Sentinel>>
           \/ queue = c \o <<Sentinel>> /\ got \o c = Meaning(text)
  BY <1>3 DEF Pending
<1>5. UNCHANGED <<text, call, job>>
  BY DEF Yield, sse
<1>6. Meaning(text) \in Seq(Symbols)
  <2>1. 0 \in 0..Len(text)
    BY <1>2
  <2> QED
    BY <1>2, <2>1, MeaningExtends
<1>7. CASE c = << >>
  <2>1. got \o c = got
    BY <1>2, <1>7
  <2>2. \/ queue = <<Raise, Sentinel>>
        \/ queue = <<Sentinel>> /\ got = Meaning(text)
    BY <1>4, <1>7, <2>1
  <2>3. \/ Head(queue) = Raise
        \/ Head(queue) = Sentinel /\ got = Meaning(text)
    BY <2>2
  <2>4. /\ place' = [place EXCEPT ![t] = "idle"] /\ got' = got
        /\ error' = [error EXCEPT ![t] = IF Head(queue) = Raise THEN "raised" ELSE @]
    BY <2>3 DEF Yield
  <2>5. place'[Streamer] = "idle" /\ (error'[Streamer] = "none" => got = Meaning(text))
    <3>1. place'[Streamer] = "idle"
      BY <1>1, <2>4 DEF FacadeTypeOK
    <3>2. Head(queue) = Raise => error'[Streamer] = "raised"
      BY <1>1, <2>4 DEF FacadeTypeOK
    <3> QED
      BY <2>3, <3>1, <3>2
  <2>6. Produced'
    BY <1>2, <1>5, <2>4, <2>5 DEF Produced
  <2>7. IsPrefix(got, Meaning(text))
    BY <1>4, <2>1
  <2> QED
    BY <1>2, <1>5, <2>4, <2>5, <2>6, <2>7 DEF StreamState
<1>8. CASE c # << >>
  <2> DEFINE m == IF queue = c \o <<Raise, Sentinel>> THEN <<Raise, Sentinel>> ELSE <<Sentinel>>
  <2> DEFINE Items == Symbols \cup {Raise, Sentinel}
  <2>1. queue = c \o m /\ m \in Seq(Items) /\ c \in Seq(Items)
    <3>1. queue = c \o m
      BY <1>4
    <3>2. Raise \in Items /\ Sentinel \in Items /\ Symbols \subseteq Items
      OBVIOUS
    <3> HIDE DEF Items
    <3>3. <<Raise, Sentinel>> \in Seq(Items) /\ <<Sentinel>> \in Seq(Items)
      BY <3>2
    <3>4. c \in Seq(Items)
      BY <3>2, SeqMonotonic
    <3> QED
      BY <3>1, <3>3, <3>4
  <2> HIDE DEF Items
  <2>2. m = <<Raise, Sentinel>> \/ (m = <<Sentinel>> /\ got \o c = Meaning(text))
    BY <1>4
  <2> HIDE DEF m
  <2>3. Head(queue) = Head(c) /\ Tail(queue) = Tail(c) \o m
    BY <1>8, <2>1, HeadOfBoth
  <2>4. /\ Head(c) \in Symbols /\ Tail(c) \in Seq(Symbols) /\ Append(got, Head(c)) \in Seq(Symbols)
        /\ Append(got, Head(c)) \o Tail(c) = got \o c
    BY <1>2, <1>8, HeadMoves
  <2>5. /\ got' = Append(got, Head(c)) /\ queue' = Tail(c) \o m
        /\ UNCHANGED <<place, error>>
    BY <2>3, <2>4 DEF Yield, Symbols
  <2>6. got' \in Seq(Symbols) /\ got' \o Tail(c) = got \o c
    BY <2>4, <2>5
  <2>7. Pending'
    <3>1. IsPrefix(got' \o Tail(c), Meaning(text'))
      BY <1>4, <1>5, <2>6
    <3>2. \/ queue' = Tail(c) \o <<Raise, Sentinel>>
          \/ queue' = Tail(c) \o <<Sentinel>> /\ got' \o Tail(c) = Meaning(text')
      BY <1>5, <2>2, <2>5, <2>6
    <3> QED
      BY <2>4, <3>1, <3>2 DEF Pending
  <2>8. Produced'
    BY <1>2, <1>5, <2>5, <2>7 DEF Produced
  <2>9. IsPrefix(got', Meaning(text'))
    <3>1. IsPrefix(got' \o Tail(c), Meaning(text))
      BY <1>4, <2>6
    <3> QED
      BY <1>5, <1>6, <2>4, <2>6, <3>1, PrefixOfPrefix
  <2> QED
    BY <1>2, <1>5, <2>5, <2>6, <2>8, <2>9 DEF StreamState
<1> QED
  BY <1>7, <1>8

\* What a stream has yielded is the begin of its text's meaning, and its queue
\* too; behind it come the error and the sentinel.
LEMMA FailsWith ==
  ASSUME StreamState, FacadeTypeOK, JobOfCall, NEW t \in Threads, Runs(t, "scheduled") \/ Runs(t, "streaming"),
         call[t] = "stream", StreamFails(t)
  PROVE  StreamState'
<1>1. t = Streamer /\ (Scheduled \/ Producing)
  BY DEF StreamState, Scheduled, Producing, Produced, Runs
<1>2. /\ text \in Seq(Symbols) /\ got = << >>
      /\ queue \in Seq(Symbols) /\ IsPrefix(queue, Meaning(text)) /\ Meaning(text) \in Seq(Symbols)
  <2>1. text \in Seq(Symbols) /\ got = << >> /\ 0 \in 0..Len(text)
    BY <1>1 DEF StreamState, Scheduled, Producing
  <2>2. Meaning(text) \in Seq(Symbols)
    BY <2>1, MeaningExtends
  <2>3. ASSUME Scheduled PROVE queue \in Seq(Symbols) /\ IsPrefix(queue, Meaning(text))
    BY <2>2, <2>3, TrivialPrefixes DEF Scheduled
  <2>4. ASSUME Producing PROVE queue \in Seq(Symbols) /\ IsPrefix(queue, Meaning(text))
    BY <2>4, ParserIsRight DEF Producing, ParserInvariant
  <2> QED
    BY <1>1, <2>1, <2>2, <2>3, <2>4
<1>3. /\ job' = [job EXCEPT ![t] = "done"] /\ queue' = queue \o <<Raise, Sentinel>>
      /\ UNCHANGED <<text, call, place, got>>
  BY DEF StreamFails, Proceed, SseEnd
<1>4. job'[Streamer] = "done" /\ place'[Streamer] \in {"blocked", "failed"}
  <2>1. place[Streamer] \in {"blocked", "failed"}
    BY <1>1 DEF StreamState, Runs
  <2> QED
    BY <1>1, <1>3, <2>1 DEF FacadeTypeOK
<1>5. Pending'
  <2>1. got \o queue = queue
    BY <1>2
  <2> QED
    BY <1>2, <1>3, <2>1 DEF Pending
<1>6. Produced'
  BY <1>4, <1>5 DEF Produced
<1>7. got' \in Seq(Symbols) /\ IsPrefix(got', Meaning(text'))
  BY <1>2, <1>3, TrivialPrefixes
<1> QED
  BY <1>2, <1>3, <1>4, <1>6, <1>7 DEF StreamState

\* A stream begins on a text of the server, or fails at once.
LEMMA BeginsWell ==
  ASSUME StreamState, FacadeTypeOK, JobOfCall, NEW t \in Threads, StreamBegins(t)
  PROVE  StreamState'
<1>1. t = Streamer /\ Scheduled /\ place[Streamer] \in {"blocked", "failed"}
  BY DEF StreamState, Scheduled, Producing, Produced, Runs, StreamBegins
<1>2. CASE StreamFails(t)
  BY <1>2, FailsWith DEF StreamBegins
<1>3. CASE Proceed(t, "streaming", "none") /\ (\E r \in Texts : SseBegin(r)) /\ UNCHANGED thread
  <2>1. PICK r \in Texts : SseBegin(r)
    BY <1>3
  <2>2. ParserInvariant' /\ chunks' = << >>
    BY <2>1, ParserBegins
  <2>3. /\ UNCHANGED <<place, call, queue, got>> /\ job'[Streamer] = "streaming"
    BY <1>1, <1>3 DEF Proceed, thread, FacadeTypeOK
  <2>4. Producing'
    BY <1>1, <2>2, <2>3 DEF Scheduled, Producing
  <2>5. text' \in Seq(Symbols) /\ got' = << >> /\ 0 \in 0..Len(text')
    BY <1>1, <2>2, <2>3 DEF ParserInvariant, Scheduled
  <2>6. Meaning(text') \in Seq(Symbols)
    BY <2>5, MeaningExtends
  <2>7. got' \in Seq(Symbols) /\ IsPrefix(got', Meaning(text'))
    BY <2>5, <2>6, TrivialPrefixes
  <2> QED
    BY <1>1, <2>3, <2>4, <2>5, <2>7 DEF StreamState
<1> QED
  BY <1>2, <1>3 DEF StreamBegins

\* The parser goes on, and the queue with it.
LEMMA GoesOnWell ==
  ASSUME StreamState, FacadeTypeOK, JobOfCall, NEW t \in Threads, StreamGoesOn(t)
  PROVE  StreamState'
<1>1. call[t] = "stream" /\ t = Streamer /\ Producing
  BY DEF StreamState, Scheduled, Producing, Produced, Runs, StreamGoesOn, JobOfCall
<1>2. SseStep /\ queue' = queue \o SubSeq(chunks', Len(chunks) + 1, Len(chunks'))
      /\ UNCHANGED <<place, call, job, error, got>>
  BY DEF StreamGoesOn
<1>3. ParserInvariant'
  BY <1>1, <1>2, SseStepKeeps DEF Producing
<1>4. PICK u \in Seq(Symbols) : chunks' = chunks \o u
  BY <1>1, <1>2, SseStepKeeps DEF Producing
<1>5. queue' = chunks'
  <2>1. chunks \in Seq(Symbols) /\ queue = chunks
    BY <1>1 DEF Producing, ParserInvariant
  <2> DEFINE v == SubSeq(chunks \o u, Len(chunks) + 1, Len(chunks \o u))
  <2>2. v \in Seq(Symbols) /\ Len(v) = Len(u) /\ \A i \in 1..Len(v) : v[i] = u[i]
    BY <2>1
  <2> HIDE DEF v
  <2>3. v = u
    BY <2>2, SeqEqual
  <2>4. queue' = queue \o v
    BY <1>2, <1>4 DEF v
  <2> QED
    BY <1>4, <2>1, <2>3, <2>4
<1>6. text' = text
  BY <1>2 DEF SseStep, Receive, Block, Flush
<1>7. Producing'
  BY <1>1, <1>2, <1>3, <1>5 DEF Producing
<1> QED
  BY <1>1, <1>2, <1>6, <1>7 DEF StreamState

\* The parser is over: its chunks are the whole meaning, the sentinel follows.
LEMMA EndsWell ==
  ASSUME StreamState, FacadeTypeOK, JobOfCall, NEW t \in Threads, StreamEnds(t)
  PROVE  StreamState'
<1>1. call[t] = "stream" /\ t = Streamer /\ Producing /\ place[Streamer] \in {"blocked", "failed"}
  BY DEF StreamState, Scheduled, Producing, Produced, Runs, StreamEnds, JobOfCall
<1>2. /\ job' = [job EXCEPT ![t] = "done"] /\ queue' = Append(queue, Sentinel)
      /\ UNCHANGED <<text, call, place, got>> /\ over
  BY DEF StreamEnds, Proceed, SseEnd
<1>3. /\ queue \in Seq(Symbols) /\ queue = Meaning(text) /\ got = << >>
      /\ IsPrefix(queue, Meaning(text))
  BY <1>1, <1>2, ParserIsRight DEF Producing, ParserInvariant
<1>4. job'[Streamer] = "done" /\ place'[Streamer] \in {"blocked", "failed"}
  BY <1>1, <1>2 DEF FacadeTypeOK
<1>5. Pending'
  <2>1. got \o queue = queue /\ Append(queue, Sentinel) = queue \o <<Sentinel>>
    <3>1. queue \in Seq(STRING)
      BY <1>3, SeqMonotonic DEF Symbols
    <3>2. Append(queue, Sentinel) = queue \o <<Sentinel>>
      BY <3>1, AppendIsConcat DEF Sentinel
    <3> QED
      BY <1>3, <3>2
  <2> QED
    BY <1>2, <1>3, <2>1 DEF Pending
<1>6. Produced'
  BY <1>4, <1>5 DEF Produced
<1> QED
  BY <1>1, <1>2, <1>4, <1>6 DEF StreamState

\* The other steps leave the stream, its queue and its text as they are.
LEMMA StreamUntouched ==
  ASSUME StreamState, UNCHANGED <<sse, queue, got>>,
         \A t \in Threads : call'[t] = "stream" => call[t] = "stream",
         call'[Streamer] = "stream" =>
           /\ job'[Streamer] = job[Streamer] /\ error'[Streamer] = error[Streamer]
           /\ place'[Streamer] = place[Streamer]
  PROVE  StreamState'
<1>1. UNCHANGED <<text, arrived, buffer, chunks, over>>
  BY DEF sse
<1>2. CASE call'[Streamer] # "stream"
  BY <1>1, <1>2 DEF StreamState
<1>3. CASE call'[Streamer] = "stream"
  <2>1. call[Streamer] = "stream"
    BY <1>3, ThreadsAssumption
  <2>2. ParserInvariant => ParserInvariant'
    BY <1>1 DEF ParserInvariant
  <2>3. Pending => Pending'
    BY <1>1 DEF Pending
  <2>4. (Scheduled \/ Producing \/ Produced)'
    BY <1>1, <1>3, <2>1, <2>2, <2>3 DEF StreamState, Scheduled, Producing, Produced
  <2> QED
    BY <1>1, <1>3, <2>1, <2>4 DEF StreamState
<1> QED
  BY <1>2, <1>3

-----------------------------------------------------------------------------

\* Only the constructing thread has a call, and there is no client yet.
LEMMA InitInvariant == Init => FacadeInvariant
<1> SUFFICES ASSUME Init PROVE FacadeInvariant
  OBVIOUS
<1>1. FacadeTypeOK
  BY DEF Init, FacadeTypeOK, Places, CallKinds, Jobs
<1>2. JobOfCall
  BY DEF Init, JobOfCall
<1>3. OpenedOnce /\ WarmUp
  BY ThreadsAssumption DEF Init, OpenedOnce, WarmUp
<1>4. ClosedBeforeStopping /\ ClosedBeforeStopped
  BY DEF Init, ClosedBeforeStopping, ClosedBeforeStopped, NothingOpen
<1> QED
  BY <1>1, <1>2, <1>3, <1>4 DEF FacadeInvariant

\* One step for each action, and under it one for each part.
LEMMA InvariantPreserved == FacadeInvariant /\ [Next]_vars => FacadeInvariant'
<1> SUFFICES ASSUME FacadeInvariant, [Next]_vars PROVE FacadeInvariant'
  OBVIOUS
<1> USE ThreadsAssumption DEF FacadeInvariant
<1>1. ASSUME NEW t \in Threads, NEW what \in {"complete", "stream", "close"}, Submit(t, what) PROVE FacadeInvariant'
  <2>1. FacadeTypeOK'
    BY <1>1 DEF Submit, Proceed, FacadeTypeOK, Places, CallKinds, Jobs
  <2>2. JobOfCall'
    BY <1>1 DEF Submit, Proceed, FacadeTypeOK, JobOfCall
  <2>3. OpenedOnce'
    BY <1>1 DEF Submit, Proceed, FacadeTypeOK, JobOfCall, OpenedOnce
  <2>4. WarmUp'
    BY <1>1 DEF Submit, Proceed, FacadeTypeOK, JobOfCall, OpenedOnce, WarmUp
  <2>5. ClosedBeforeStopping' /\ ClosedBeforeStopped'
    BY <1>1 DEF Submit, Proceed, FacadeTypeOK, JobOfCall, OpenedOnce, WarmUp, ClosedBeforeStopping, ClosedBeforeStopped, NothingOpen
  <2> QED
    BY <2>1, <2>2, <2>3, <2>4, <2>5
<1>2. ASSUME NEW t \in Threads, Return(t) PROVE FacadeInvariant'
  <2>1. FacadeTypeOK'
    BY <1>2 DEF Return, FacadeTypeOK, Places, CallKinds, Jobs
  <2>2. JobOfCall'
    BY <1>2 DEF Return, FacadeTypeOK, JobOfCall
  <2>3. OpenedOnce'
    BY <1>2 DEF Return, FacadeTypeOK, JobOfCall, OpenedOnce
  <2>4. WarmUp'
    BY <1>2 DEF Return, FacadeTypeOK, JobOfCall, OpenedOnce, WarmUp
  <2>5. ClosedBeforeStopping' /\ ClosedBeforeStopped'
    BY <1>2 DEF Return, FacadeTypeOK, JobOfCall, OpenedOnce, WarmUp, ClosedBeforeStopping, ClosedBeforeStopped, NothingOpen
  <2> QED
    BY <2>1, <2>2, <2>3, <2>4, <2>5
<1>3. ASSUME NEW t \in Threads, Yield(t) PROVE FacadeInvariant'
  <2>1. FacadeTypeOK'
    BY <1>3 DEF Yield, FacadeTypeOK, Places, CallKinds, Jobs
  <2>2. JobOfCall'
    BY <1>3 DEF Yield, FacadeTypeOK, JobOfCall
  <2>3. OpenedOnce'
    BY <1>3 DEF Yield, FacadeTypeOK, JobOfCall, OpenedOnce
  <2>4. WarmUp'
    BY <1>3 DEF Yield, FacadeTypeOK, JobOfCall, OpenedOnce, WarmUp
  <2>5. ClosedBeforeStopping' /\ ClosedBeforeStopped'
    BY <1>3 DEF Yield, FacadeTypeOK, JobOfCall, OpenedOnce, WarmUp, ClosedBeforeStopping, ClosedBeforeStopped, NothingOpen
  <2> QED
    BY <2>1, <2>2, <2>3, <2>4, <2>5
<1>4. ASSUME NEW t \in Threads, Shutdown(t) PROVE FacadeInvariant'
  <2>1. FacadeTypeOK'
    BY <1>4 DEF Shutdown, FacadeTypeOK, Places, CallKinds, Jobs
  <2>2. JobOfCall'
    BY <1>4 DEF Shutdown, FacadeTypeOK, JobOfCall
  <2>3. OpenedOnce'
    BY <1>4 DEF Shutdown, FacadeTypeOK, JobOfCall, OpenedOnce
  <2>4. WarmUp'
    BY <1>4 DEF Shutdown, FacadeTypeOK, JobOfCall, OpenedOnce, WarmUp
  <2>5. ClosedBeforeStopping' /\ ClosedBeforeStopped'
    BY <1>4 DEF Shutdown, FacadeTypeOK, JobOfCall, OpenedOnce, WarmUp, ClosedBeforeStopping, ClosedBeforeStopped, NothingOpen
  <2> QED
    BY <2>1, <2>2, <2>3, <2>4, <2>5
<1>5. ASSUME NEW t \in Threads, Join(t) PROVE FacadeInvariant'
  <2>1. FacadeTypeOK'
    BY <1>5 DEF Join, FacadeTypeOK, Places, CallKinds, Jobs
  <2>2. JobOfCall'
    BY <1>5 DEF Join, FacadeTypeOK, JobOfCall
  <2>3. OpenedOnce'
    BY <1>5 DEF Join, FacadeTypeOK, JobOfCall, OpenedOnce
  <2>4. WarmUp'
    BY <1>5 DEF Join, FacadeTypeOK, JobOfCall, OpenedOnce, WarmUp
  <2>5. ClosedBeforeStopping' /\ ClosedBeforeStopped'
    BY <1>5 DEF Join, FacadeTypeOK, JobOfCall, OpenedOnce, WarmUp, ClosedBeforeStopping, ClosedBeforeStopped, NothingOpen
  <2> QED
    BY <2>1, <2>2, <2>3, <2>4, <2>5
<1>6. ASSUME NEW t \in Threads, OpenBegins(t) PROVE FacadeInvariant'
  <2>1. FacadeTypeOK'
    BY <1>6 DEF OpenBegins, Runs, Proceed, OpenClient, thread, FacadeTypeOK, Places, CallKinds, Jobs
  <2>2. JobOfCall'
    BY <1>6 DEF OpenBegins, Runs, Proceed, OpenClient, thread, FacadeTypeOK, JobOfCall
  <2>3. OpenedOnce'
    BY <1>6 DEF OpenBegins, Runs, Proceed, OpenClient, thread, FacadeTypeOK, JobOfCall, OpenedOnce
  <2>4. WarmUp'
    BY <1>6 DEF OpenBegins, Runs, Proceed, OpenClient, thread, FacadeTypeOK, JobOfCall, OpenedOnce, WarmUp
  <2>5. ClosedBeforeStopping' /\ ClosedBeforeStopped'
    BY <1>6 DEF OpenBegins, Runs, Proceed, OpenClient, thread, FacadeTypeOK, JobOfCall, OpenedOnce, WarmUp, ClosedBeforeStopping, ClosedBeforeStopped, NothingOpen
  <2> QED
    BY <2>1, <2>2, <2>3, <2>4, <2>5
<1>7. ASSUME NEW t \in Threads, OpenEnds(t) PROVE FacadeInvariant'
  <2>1. FacadeTypeOK'
    BY <1>7 DEF OpenEnds, Runs, Proceed, thread, FacadeTypeOK, Places, CallKinds, Jobs
  <2>2. JobOfCall'
    BY <1>7 DEF OpenEnds, Runs, Proceed, thread, FacadeTypeOK, JobOfCall
  <2>3. OpenedOnce'
    BY <1>7 DEF OpenEnds, Runs, Proceed, thread, FacadeTypeOK, JobOfCall, OpenedOnce
  <2>4. WarmUp'
    BY <1>7 DEF OpenEnds, Runs, Proceed, thread, FacadeTypeOK, JobOfCall, OpenedOnce, WarmUp
  <2>5. ClosedBeforeStopping' /\ ClosedBeforeStopped'
    BY <1>7 DEF OpenEnds, Runs, Proceed, thread, FacadeTypeOK, JobOfCall, OpenedOnce, WarmUp, ClosedBeforeStopping, ClosedBeforeStopped, NothingOpen
  <2> QED
    BY <2>1, <2>2, <2>3, <2>4, <2>5
<1>8. ASSUME NEW t \in Threads, Post(t) PROVE FacadeInvariant'
  <2>1. FacadeTypeOK'
    BY <1>8 DEF Post, Runs, Proceed, thread, FacadeTypeOK, Places, CallKinds, Jobs
  <2>2. JobOfCall'
    BY <1>8 DEF Post, Runs, Proceed, thread, FacadeTypeOK, JobOfCall
  <2>3. OpenedOnce'
    BY <1>8 DEF Post, Runs, Proceed, thread, FacadeTypeOK, JobOfCall, OpenedOnce
  <2>4. WarmUp'
    BY <1>8 DEF Post, Runs, Proceed, thread, FacadeTypeOK, JobOfCall, OpenedOnce, WarmUp
  <2>5. ClosedBeforeStopping' /\ ClosedBeforeStopped'
    BY <1>8 DEF Post, Runs, Proceed, thread, FacadeTypeOK, JobOfCall, OpenedOnce, WarmUp, ClosedBeforeStopping, ClosedBeforeStopped, NothingOpen
  <2> QED
    BY <2>1, <2>2, <2>3, <2>4, <2>5
<1>9. ASSUME NEW t \in Threads, Answered(t) PROVE FacadeInvariant'
  <2>1. FacadeTypeOK'
    BY <1>9 DEF Answered, Runs, Proceed, thread, FacadeTypeOK, Places, CallKinds, Jobs
  <2>2. JobOfCall'
    BY <1>9 DEF Answered, Runs, Proceed, thread, FacadeTypeOK, JobOfCall
  <2>3. OpenedOnce'
    BY <1>9 DEF Answered, Runs, Proceed, thread, FacadeTypeOK, JobOfCall, OpenedOnce
  <2>4. WarmUp'
    BY <1>9 DEF Answered, Runs, Proceed, thread, FacadeTypeOK, JobOfCall, OpenedOnce, WarmUp
  <2>5. ClosedBeforeStopping' /\ ClosedBeforeStopped'
    BY <1>9 DEF Answered, Runs, Proceed, thread, FacadeTypeOK, JobOfCall, OpenedOnce, WarmUp, ClosedBeforeStopping, ClosedBeforeStopped, NothingOpen
  <2> QED
    BY <2>1, <2>2, <2>3, <2>4, <2>5
<1>10. ASSUME NEW t \in Threads, StreamBegins(t) PROVE FacadeInvariant'
  <2>1. FacadeTypeOK'
    BY <1>10 DEF StreamBegins, StreamFails, Runs, Proceed, thread, FacadeTypeOK, Places, CallKinds, Jobs
  <2>2. JobOfCall'
    BY <1>10 DEF StreamBegins, StreamFails, Runs, Proceed, thread, FacadeTypeOK, JobOfCall
  <2>3. OpenedOnce'
    BY <1>10 DEF StreamBegins, StreamFails, Runs, Proceed, thread, FacadeTypeOK, JobOfCall, OpenedOnce
  <2>4. WarmUp'
    BY <1>10 DEF StreamBegins, StreamFails, Runs, Proceed, thread, FacadeTypeOK, JobOfCall, OpenedOnce, WarmUp
  <2>5. ClosedBeforeStopping' /\ ClosedBeforeStopped'
    BY <1>10 DEF StreamBegins, StreamFails, Runs, Proceed, thread, FacadeTypeOK, JobOfCall, OpenedOnce, WarmUp, ClosedBeforeStopping, ClosedBeforeStopped, NothingOpen
  <2> QED
    BY <2>1, <2>2, <2>3, <2>4, <2>5
<1>11. ASSUME NEW t \in Threads, StreamGoesOn(t) PROVE FacadeInvariant'
  <2>1. FacadeTypeOK'
    BY <1>11 DEF StreamGoesOn, Runs, FacadeTypeOK, Places, CallKinds, Jobs
  <2>2. JobOfCall'
    BY <1>11 DEF StreamGoesOn, Runs, FacadeTypeOK, JobOfCall
  <2>3. OpenedOnce'
    BY <1>11 DEF StreamGoesOn, Runs, FacadeTypeOK, JobOfCall, OpenedOnce
  <2>4. WarmUp'
    BY <1>11 DEF StreamGoesOn, Runs, FacadeTypeOK, JobOfCall, OpenedOnce, WarmUp
  <2>5. ClosedBeforeStopping' /\ ClosedBeforeStopped'
    BY <1>11 DEF StreamGoesOn, Runs, FacadeTypeOK, JobOfCall, OpenedOnce, WarmUp, ClosedBeforeStopping, ClosedBeforeStopped, NothingOpen
  <2> QED
    BY <2>1, <2>2, <2>3, <2>4, <2>5
<1>12. ASSUME NEW t \in Threads, StreamBreaks(t) PROVE FacadeInvariant'
  <2>1. FacadeTypeOK'
    BY <1>12 DEF StreamBreaks, StreamFails, Runs, Proceed, FacadeTypeOK, Places, CallKinds, Jobs
  <2>2. JobOfCall'
    BY <1>12 DEF StreamBreaks, StreamFails, Runs, Proceed, FacadeTypeOK, JobOfCall
  <2>3. OpenedOnce'
    BY <1>12 DEF StreamBreaks, StreamFails, Runs, Proceed, FacadeTypeOK, JobOfCall, OpenedOnce
  <2>4. WarmUp'
    BY <1>12 DEF StreamBreaks, StreamFails, Runs, Proceed, FacadeTypeOK, JobOfCall, OpenedOnce, WarmUp
  <2>5. ClosedBeforeStopping' /\ ClosedBeforeStopped'
    BY <1>12 DEF StreamBreaks, StreamFails, Runs, Proceed, FacadeTypeOK, JobOfCall, OpenedOnce, WarmUp, ClosedBeforeStopping, ClosedBeforeStopped, NothingOpen
  <2> QED
    BY <2>1, <2>2, <2>3, <2>4, <2>5
<1>13. ASSUME NEW t \in Threads, StreamEnds(t) PROVE FacadeInvariant'
  <2>1. FacadeTypeOK'
    BY <1>13 DEF StreamEnds, Runs, Proceed, FacadeTypeOK, Places, CallKinds, Jobs
  <2>2. JobOfCall'
    BY <1>13 DEF StreamEnds, Runs, Proceed, FacadeTypeOK, JobOfCall
  <2>3. OpenedOnce'
    BY <1>13 DEF StreamEnds, Runs, Proceed, FacadeTypeOK, JobOfCall, OpenedOnce
  <2>4. WarmUp'
    BY <1>13 DEF StreamEnds, Runs, Proceed, FacadeTypeOK, JobOfCall, OpenedOnce, WarmUp
  <2>5. ClosedBeforeStopping' /\ ClosedBeforeStopped'
    BY <1>13 DEF StreamEnds, Runs, Proceed, FacadeTypeOK, JobOfCall, OpenedOnce, WarmUp, ClosedBeforeStopping, ClosedBeforeStopped, NothingOpen
  <2> QED
    BY <2>1, <2>2, <2>3, <2>4, <2>5
<1>14. ASSUME NEW t \in Threads, CloseJobBegins(t) PROVE FacadeInvariant'
  <2>1. FacadeTypeOK'
    BY <1>14 DEF CloseJobBegins, Runs, Proceed, CloseBegins, thread, FacadeTypeOK, Places, CallKinds, Jobs
  <2>2. JobOfCall'
    BY <1>14 DEF CloseJobBegins, Runs, Proceed, CloseBegins, thread, FacadeTypeOK, JobOfCall
  <2>3. OpenedOnce'
    BY <1>14 DEF CloseJobBegins, Runs, Proceed, CloseBegins, thread, FacadeTypeOK, JobOfCall, OpenedOnce
  <2>4. WarmUp'
    BY <1>14 DEF CloseJobBegins, Runs, Proceed, CloseBegins, thread, FacadeTypeOK, JobOfCall, OpenedOnce, WarmUp
  <2>5. ClosedBeforeStopping' /\ ClosedBeforeStopped'
    BY <1>14 DEF CloseJobBegins, Runs, Proceed, CloseBegins, thread, FacadeTypeOK, JobOfCall, OpenedOnce, WarmUp, ClosedBeforeStopping, ClosedBeforeStopped, NothingOpen
  <2> QED
    BY <2>1, <2>2, <2>3, <2>4, <2>5
<1>15. ASSUME NEW t \in Threads, CloseJobEnds(t) PROVE FacadeInvariant'
  <2>1. FacadeTypeOK'
    BY <1>15 DEF CloseJobEnds, Runs, Proceed, CloseEnds, thread, FacadeTypeOK, Places, CallKinds, Jobs
  <2>2. JobOfCall'
    BY <1>15 DEF CloseJobEnds, Runs, Proceed, CloseEnds, thread, FacadeTypeOK, JobOfCall
  <2>3. OpenedOnce'
    BY <1>15 DEF CloseJobEnds, Runs, Proceed, CloseEnds, thread, FacadeTypeOK, JobOfCall, OpenedOnce
  <2>4. WarmUp'
    BY <1>15 DEF CloseJobEnds, Runs, Proceed, CloseEnds, thread, FacadeTypeOK, JobOfCall, OpenedOnce, WarmUp
  <2>5. ClosedBeforeStopping' /\ ClosedBeforeStopped'
    BY <1>15 DEF CloseJobEnds, Runs, Proceed, CloseEnds, thread, FacadeTypeOK, JobOfCall, OpenedOnce, WarmUp, ClosedBeforeStopping, ClosedBeforeStopped, NothingOpen
  <2> QED
    BY <2>1, <2>2, <2>3, <2>4, <2>5
<1>16. ASSUME Interrupt PROVE FacadeInvariant'
  <2>1. FacadeTypeOK'
    BY <1>16 DEF Interrupt, FacadeTypeOK, Places, CallKinds, Jobs
  <2>2. JobOfCall'
    BY <1>16 DEF Interrupt, FacadeTypeOK, JobOfCall
  <2>3. OpenedOnce'
    BY <1>16 DEF Interrupt, FacadeTypeOK, JobOfCall, OpenedOnce
  <2>4. WarmUp'
    BY <1>16 DEF Interrupt, FacadeTypeOK, JobOfCall, OpenedOnce, WarmUp
  <2>5. ClosedBeforeStopping' /\ ClosedBeforeStopped'
    BY <1>16 DEF Interrupt, FacadeTypeOK, JobOfCall, OpenedOnce, WarmUp, ClosedBeforeStopping, ClosedBeforeStopped, NothingOpen
  <2> QED
    BY <2>1, <2>2, <2>3, <2>4, <2>5
<1>17. ASSUME LoopStops PROVE FacadeInvariant'
  <2>1. FacadeTypeOK'
    BY <1>17 DEF LoopStops, FacadeTypeOK, Places, CallKinds, Jobs
  <2>2. JobOfCall'
    BY <1>17 DEF LoopStops, FacadeTypeOK, JobOfCall
  <2>3. OpenedOnce'
    BY <1>17 DEF LoopStops, FacadeTypeOK, JobOfCall, OpenedOnce
  <2>4. WarmUp'
    BY <1>17 DEF LoopStops, FacadeTypeOK, JobOfCall, OpenedOnce, WarmUp
  <2>5. ClosedBeforeStopping' /\ ClosedBeforeStopped'
    BY <1>17 DEF LoopStops, FacadeTypeOK, JobOfCall, OpenedOnce, WarmUp, ClosedBeforeStopping, ClosedBeforeStopped, NothingOpen
  <2> QED
    BY <2>1, <2>2, <2>3, <2>4, <2>5
<1>18. CASE UNCHANGED vars
  BY <1>18 DEF vars, facade, FacadeTypeOK, JobOfCall, OpenedOnce, WarmUp, ClosedBeforeStopping, ClosedBeforeStopped, NothingOpen
<1> QED
  BY <1>1, <1>2, <1>3, <1>4, <1>5, <1>6, <1>7, <1>8, <1>9, <1>10, <1>11, <1>12, <1>13, <1>14, <1>15, <1>16, <1>17, <1>18 DEF Next, ThreadStep, JobStep, Complete, Stream, CloseFacade

\* No thread streams yet.
LEMMA InitStream == Init => StreamState
<1> SUFFICES ASSUME Init PROVE StreamState
  OBVIOUS
<1>1. text \in Seq(Symbols)
  BY DEF Init
<1>2. \A t \in Threads : call[t] # "stream"
  BY DEF Init
<1> QED
  BY <1>1, <1>2, ThreadsAssumption DEF StreamState

\* Every step but those of a stream leaves the streams alone.
LEMMA StreamPreserved == FacadeInvariant /\ StreamState /\ [Next]_vars => StreamState'
<1> SUFFICES ASSUME FacadeInvariant, StreamState, [Next]_vars PROVE StreamState'
  OBVIOUS
<1> USE ThreadsAssumption
<1>0. FacadeTypeOK /\ JobOfCall /\ OpenedOnce
  BY DEF FacadeInvariant
<1>1. ASSUME NEW t \in Threads, Complete(t) \/ CloseFacade(t) PROVE StreamState'
  <2>1. UNCHANGED <<sse, queue, got>>
    BY <1>1 DEF Complete, CloseFacade, Submit
  <2>2. \A u \in Threads : call'[u] = "stream" => call[u] = "stream" /\ u # t
    BY <1>0, <1>1 DEF Complete, CloseFacade, Submit, FacadeTypeOK
  <2>3. Streamer # t => /\ job'[Streamer] = job[Streamer] /\ error'[Streamer] = error[Streamer]
                        /\ place'[Streamer] = place[Streamer]
    BY <1>0, <1>1 DEF Complete, CloseFacade, Submit, Proceed, FacadeTypeOK
  <2> QED
    BY <2>1, <2>2, <2>3, StreamUntouched
<1>2. ASSUME NEW t \in Threads, Stream(t) PROVE StreamState'
  <2>1. /\ t = Streamer /\ queue' = << >> /\ got' = << >> /\ text' = text
        /\ job' = [job EXCEPT ![t] = "scheduled"] /\ place' = [place EXCEPT ![t] = "blocked"]
        /\ call' = [call EXCEPT ![t] = "stream"]
    BY <1>2 DEF Stream, Submit, Proceed, sse
  <2>2. job'[Streamer] = "scheduled" /\ place'[Streamer] = "blocked"
        /\ \A u \in Threads : call'[u] = "stream" => u = Streamer
    BY <1>0, <2>1 DEF FacadeTypeOK, StreamState
  <2>3. text \in Seq(Symbols) /\ 0 \in 0..Len(text)
    BY DEF StreamState
  <2>4. Meaning(text) \in Seq(Symbols)
    BY <2>3, MeaningExtends
  <2>5. IsPrefix(got', Meaning(text')) /\ got' \in Seq(Symbols)
    BY <2>1, <2>4, TrivialPrefixes
  <2> QED
    BY <2>1, <2>2, <2>3, <2>5 DEF StreamState, Scheduled
<1>3. ASSUME NEW t \in Threads, Return(t) PROVE StreamState'
  <2>1. CASE call[t] = "stream"
    <3>1. t = Streamer /\ Produced /\ job[Streamer] = "done" /\ place[Streamer] = "blocked"
      BY <1>3, <2>1 DEF StreamState, Scheduled, Producing, Produced, Return
    <3>2. Pending /\ UNCHANGED <<text, queue, got, call, job, error>>
      BY <1>3, <3>1 DEF Produced, Return, sse
    <3>3. Pending'
      BY <3>2 DEF Pending
    <3>4. place'[Streamer] = "yielding"
      BY <1>0, <1>3, <2>1, <3>1 DEF Return, FacadeTypeOK
    <3> QED
      BY <3>1, <3>2, <3>3, <3>4 DEF StreamState, Produced
  <2>2. CASE call[t] # "stream"
    <3>1. UNCHANGED <<sse, queue, got, call, job, error>>
      BY <1>3 DEF Return
    <3>2. call[Streamer] = "stream" => place'[Streamer] = place[Streamer]
      BY <1>0, <1>3, <2>2 DEF Return, FacadeTypeOK
    <3> QED
      BY <3>1, <3>2, StreamUntouched
  <2> QED
    BY <2>1, <2>2
<1>4. ASSUME NEW t \in Threads, Yield(t) PROVE StreamState'
  BY <1>0, <1>4, YieldKeeps
<1>5. ASSUME NEW t \in Threads, Shutdown(t) \/ Join(t) PROVE StreamState'
  <2>1. UNCHANGED <<sse, queue, got, call, job, error>>
    BY <1>5 DEF Shutdown, Join
  <2>2. call[Streamer] = "stream" => t # Streamer
    BY <1>5 DEF Shutdown, Join, StreamState
  <2>3. call[Streamer] = "stream" => place'[Streamer] = place[Streamer]
    BY <1>0, <1>5, <2>2 DEF Shutdown, Join, FacadeTypeOK
  <2> QED
    BY <2>1, <2>3, StreamUntouched
<1>6. ASSUME NEW t \in Threads,
             \/ OpenBegins(t) \/ OpenEnds(t) \/ Post(t) \/ Answered(t)
             \/ CloseJobBegins(t) \/ CloseJobEnds(t)
      PROVE  StreamState'
  <2>1. call[t] # "stream"
    BY <1>0, <1>6 DEF JobOfCall, Runs, OpenBegins, OpenEnds, Post, Answered, CloseJobBegins, CloseJobEnds
  <2>2. UNCHANGED <<sse, queue, got, call, place>>
    BY <1>6 DEF thread, OpenBegins, OpenEnds, Post, Answered, CloseJobBegins, CloseJobEnds
  <2>3. call[Streamer] = "stream" =>
          job'[Streamer] = job[Streamer] /\ error'[Streamer] = error[Streamer]
    BY <1>0, <1>6, <2>1 DEF FacadeTypeOK, Proceed, OpenBegins, OpenEnds, Post, Answered, CloseJobBegins, CloseJobEnds
  <2> QED
    BY <2>2, <2>3, StreamUntouched
<1>7. ASSUME NEW t \in Threads, StreamBegins(t) PROVE StreamState'
  BY <1>0, <1>7, BeginsWell
<1>8. ASSUME NEW t \in Threads, StreamGoesOn(t) PROVE StreamState'
  BY <1>0, <1>8, GoesOnWell
<1>9. ASSUME NEW t \in Threads, StreamBreaks(t) PROVE StreamState'
  <2>1. Runs(t, "streaming") /\ call[t] = "stream" /\ StreamFails(t)
    BY <1>0, <1>9 DEF StreamBreaks, JobOfCall, Runs
  <2> QED
    BY <1>0, <2>1, FailsWith
<1>10. ASSUME NEW t \in Threads, StreamEnds(t) PROVE StreamState'
  BY <1>0, <1>10, EndsWell
<1>11. ASSUME Interrupt PROVE StreamState'
  <2>1. UNCHANGED <<sse, queue, got, call, job, error>>
    BY <1>11 DEF Interrupt
  <2>2. CASE Owner = Streamer /\ call[Streamer] = "stream"
    <3>1. place[Streamer] = "blocked" /\ place'[Streamer] = "failed"
      BY <1>0, <1>11, <2>2 DEF Interrupt, FacadeTypeOK
    <3>2. ParserInvariant => ParserInvariant'
      BY <2>1 DEF ParserInvariant, sse
    <3>3. Pending => Pending'
      BY <2>1 DEF Pending, sse
    <3>4. (Scheduled \/ Producing \/ Produced)'
      BY <2>1, <2>2, <3>1, <3>2, <3>3 DEF StreamState, Scheduled, Producing, Produced, sse
    <3> QED
      BY <2>1, <2>2, <3>1, <3>4 DEF StreamState, sse
  <2>3. CASE Owner # Streamer \/ call[Streamer] # "stream"
    <3>1. call[Streamer] = "stream" => place'[Streamer] = place[Streamer]
      BY <1>0, <1>11, <2>3 DEF Interrupt, FacadeTypeOK
    <3> QED
      BY <2>1, <3>1, StreamUntouched
  <2> QED
    BY <2>2, <2>3
<1>12. CASE LoopStops \/ UNCHANGED vars
  <2>1. UNCHANGED <<sse, queue, got, call, job, error, place>>
    BY <1>12 DEF LoopStops, vars, facade
  <2> QED
    BY <2>1, StreamUntouched
<1> QED
  BY <1>1, <1>2, <1>3, <1>4, <1>5, <1>6, <1>7, <1>8, <1>9, <1>10, <1>11, <1>12
     DEF Next, ThreadStep, JobStep

\* The inductive invariant of the facade's threads, calls, coroutines and loop.
THEOREM Invariance == Spec => []FacadeInvariant
BY InitInvariant, InvariantPreserved, PTL DEF Spec

\* The loop is not stopped over an open client, but after an interrupted warm-up.
THEOREM LoopClosedFirst == Spec => []ClosedBeforeStopped
BY Invariance, PTL DEF FacadeInvariant

\* The state of a stream, from its text to its caller.
THEOREM StreamInvariance == Spec => []StreamState
BY Invariance, InitStream, StreamPreserved, PTL DEF Spec

\* A stream yields what the response says, however it was cut.
THEOREM StreamIsRight == Spec => []StreamIsFaithful
<1>1. StreamState => StreamIsFaithful
  BY DEF StreamState, StreamIsFaithful, Scheduled, Producing, Produced
<1> QED
  BY <1>1, StreamInvariance, PTL
=============================================================================
