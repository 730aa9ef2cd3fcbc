---------------------------- MODULE AgentsProofs ----------------------------
(***************************************************************************)
(* Proofs about the agents.                                                *)
(*                                                                         *)
(* The news team, for every set of scouts and all feeds: each scout tells  *)
(* of its start and of its one end before the commander is asked, and what *)
(* it reports of a feed are the best of its entries.                       *)
(*                                                                         *)
(* The vision agent: its callback comes back, and the outcome a stream     *)
(* yields is its own.                                                      *)
(*                                                                         *)
(* What it makes of a reply, for replies of any length.  The scan for an   *)
(* object is compared, character by character, with what an object is:     *)
(* how many quotes precede a place, and how many braces were opened and    *)
(* closed outside of strings.  Of a delimited block, the lines that each   *)
(* field has so far are those that its latest header brings together.      *)
(***************************************************************************)
EXTENDS NewsTeam, VisionAgent, DiagnosisParser, Lemmas, SequenceTheorems

-----------------------------------------------------------------------------
(* The news team. *)

EventTypes == {"team_start", "scout_start", "scout_done", "scout_error",
               "commander_start", "commander_done", "team_done"}

Events == EventTypes \X (Scouts \cup {0})

NewsTypeOK ==
  /\ team \in {"idle", "scouting", "commanding", "done", "failed", "cancelled"}
  /\ scout \in [Scouts -> {"idle", "created", "feeds", "pages", "llm", "done"}]
  /\ events \in Seq(Events)

\* Where an event is in a sequence of them.
Where(es, type, s) == {i \in DOMAIN es : es[i] = <<type, s>>}

Ends(es, s) == Where(es, "scout_done", s) \cup Where(es, "scout_error", s)

\* What a sequence of events tells about a scout that is at a place.
Story(es, s, place) ==
  /\ place \in {"idle", "created"} =>
       Where(es, "scout_start", s) = {} /\ Ends(es, s) = {}
  /\ place \in {"feeds", "pages", "llm"} =>
       Where(es, "scout_start", s) # {} /\ Ends(es, s) = {}
  /\ place = "done" =>
       \E e \in Ends(es, s) : Ends(es, s) = {e} /\ \E b \in Where(es, "scout_start", s) : b < e

\* The commander is asked when all the scouts are done, and behind their ends.
Asked(es) ==
  \A c \in Where(es, "commander_start", 0) : \A s \in Scouts : \E e \in Ends(es, s) : e < c

NewsInvariant ==
  /\ NewsTypeOK
  /\ \A s \in Scouts : Story(events, s, scout[s])
  /\ Asked(events)
  /\ team = "idle" => events = << >> /\ \A s \in Scouts : scout[s] = "idle"
  /\ team \in {"idle", "scouting"} => Where(events, "commander_start", 0) = {}
  /\ team \in {"commanding", "done", "failed"} =>
       /\ Where(events, "commander_start", 0) # {}
       /\ \A s \in Scouts : scout[s] = "done"

\* One event more.
LEMMA Told ==
  ASSUME NEW es \in Seq(Events), NEW a \in EventTypes, NEW u \in Scouts \cup {0}
  PROVE  /\ es \o Tell(a, u) \in Seq(Events)
         /\ \A type \in EventTypes, s \in Scouts \cup {0} :
              Where(es \o Tell(a, u), type, s) =
                Where(es, type, s) \cup (IF type = a /\ s = u THEN {Len(es) + 1} ELSE {})
         /\ \A type \in EventTypes, s \in Scouts \cup {0} :
              \A i \in Where(es, type, s) : i < Len(es) + 1
<1> DEFINE e == <<a, u>>
           fs == es \o <<e>>
<1>1. e \in Events
  BY DEF Events
<1> HIDE DEF e
<1>2. /\ fs \in Seq(Events) /\ Len(fs) = Len(es) + 1 /\ Len(es) \in Nat
      /\ DOMAIN fs = 1..(Len(es) + 1) /\ DOMAIN es = 1..Len(es)
      /\ \A i \in 1..Len(es) : fs[i] = es[i]
      /\ fs[Len(es) + 1] = e
  BY <1>1
<1>3. fs = es \o Tell(a, u)
  BY DEF Tell, e
<1> HIDE DEF fs
<1>4. ASSUME NEW type \in EventTypes, NEW s \in Scouts \cup {0}
      PROVE  /\ Where(fs, type, s) =
                  Where(es, type, s) \cup (IF type = a /\ s = u THEN {Len(es) + 1} ELSE {})
             /\ \A i \in Where(es, type, s) : i < Len(es) + 1
  <2>1. e = <<type, s>> <=> type = a /\ s = u
    BY DEF e
  <2>2. \A i \in 1..Len(es) : i # Len(es) + 1 /\ i < Len(es) + 1 /\ i \in 1..(Len(es) + 1)
    BY <1>2
  <2>3. \A i \in 1..(Len(es) + 1) : i \in 1..Len(es) \/ i = Len(es) + 1
    BY <1>2
  <2>4. Len(es) + 1 \in 1..(Len(es) + 1)
    BY <1>2
  <2> QED
    BY <1>2, <2>1, <2>2, <2>3, <2>4 DEF Where
<1> QED
  BY <1>2, <1>3, <1>4

\* An event of no scout leaves the stories as they are.
LEMMA StoriesGoOn ==
  ASSUME NEW es \in Seq(Events), NEW fs \in Seq(Events), NEW s \in Scouts, NEW place,
         Story(es, s, place),
         \A type \in {"scout_start", "scout_done", "scout_error"} : Where(fs, type, s) = Where(es, type, s)
  PROVE  Story(fs, s, place) /\ Ends(fs, s) = Ends(es, s)
BY DEF Story, Ends

\* A scout starts.
LEMMA StoryBegins ==
  ASSUME NEW es \in Seq(Events), NEW s \in Scouts, Story(es, s, "created"), NEW place \in {"feeds", "pages", "llm"}
  PROVE  Story(es \o Tell("scout_start", s), s, place)
<1> DEFINE fs == es \o Tell("scout_start", s)
<1>1. /\ Where(fs, "scout_start", s) = Where(es, "scout_start", s) \cup {Len(es) + 1}
      /\ Where(fs, "scout_done", s) = Where(es, "scout_done", s)
      /\ Where(fs, "scout_error", s) = Where(es, "scout_error", s)
  <2>1. {"scout_start", "scout_done", "scout_error"} \subseteq EventTypes
    BY DEF EventTypes
  <2>2. s \in Scouts \cup {0} /\ "scout_start" \in EventTypes
    BY <2>1
  <2>3. \A type \in EventTypes :
          Where(fs, type, s) = Where(es, type, s) \cup (IF type = "scout_start" /\ s = s THEN {Len(es) + 1} ELSE {})
    BY <2>2, Told
  <2> HIDE DEF fs
  <2> QED
    BY <2>1, <2>3
<1> HIDE DEF fs
<1>2. Story(fs, s, place)
  BY <1>1 DEF Story, Ends
<1> QED
  BY <1>2 DEF fs

\* A scout that has started tells of its end.
LEMMA StoryEnds ==
  ASSUME NEW es \in Seq(Events), NEW s \in Scouts, NEW place \in {"feeds", "pages", "llm"},
         Story(es, s, place), NEW a \in {"scout_done", "scout_error"}
  PROVE  Story(es \o Tell(a, s), s, "done")
<1> DEFINE fs == es \o Tell(a, s)
<1>1. {"scout_start", "scout_done", "scout_error"} \subseteq EventTypes /\ a \in EventTypes
  BY DEF EventTypes
<1>2. /\ Where(fs, "scout_start", s) = Where(es, "scout_start", s)
      /\ Where(fs, "scout_done", s) = Where(es, "scout_done", s) \cup (IF a = "scout_done" THEN {Len(es) + 1} ELSE {})
      /\ Where(fs, "scout_error", s) = Where(es, "scout_error", s) \cup (IF a = "scout_error" THEN {Len(es) + 1} ELSE {})
      /\ \A i \in Where(es, "scout_start", s) : i < Len(es) + 1
  <2>1. s \in Scouts \cup {0}
    OBVIOUS
  <2>2. \A type \in EventTypes :
          /\ Where(fs, type, s) = Where(es, type, s) \cup (IF type = a /\ s = s THEN {Len(es) + 1} ELSE {})
          /\ \A i \in Where(es, type, s) : i < Len(es) + 1
    BY <1>1, <2>1, Told
  <2> HIDE DEF fs
  <2> QED
    BY <1>1, <2>2
<1> HIDE DEF fs
<1>3. Ends(fs, s) = {Len(es) + 1}
  BY <1>2 DEF Story, Ends
<1>4. PICK b \in Where(fs, "scout_start", s) : b < Len(es) + 1
  BY <1>2 DEF Story
<1>5. Story(fs, s, "done")
  BY <1>3, <1>4 DEF Story
<1> QED
  BY <1>5 DEF fs
\* What is told of other things changes no story, and only the commander asks.
LEMMA OthersTold ==
  ASSUME NEW es \in Seq(Events), NEW a \in EventTypes, NEW u \in Scouts \cup {0}
  PROVE  /\ \A s \in Scouts : \A place :
              Story(es, s, place) /\ (s # u \/ a \notin {"scout_start", "scout_done", "scout_error"})
                => Story(es \o Tell(a, u), s, place)
         /\ a # "commander_start" =>
              Where(es \o Tell(a, u), "commander_start", 0) = Where(es, "commander_start", 0)
         /\ a # "commander_start" /\ Asked(es) => Asked(es \o Tell(a, u))
<1> DEFINE fs == es \o Tell(a, u)
<1>1. {"scout_start", "scout_done", "scout_error", "commander_start"} \subseteq EventTypes
  BY DEF EventTypes
<1>2. \A type \in EventTypes, s \in Scouts \cup {0} :
        Where(fs, type, s) = Where(es, type, s) \cup (IF type = a /\ s = u THEN {Len(es) + 1} ELSE {})
  BY Told
<1> HIDE DEF fs
<1>3. \A type \in EventTypes, s \in Scouts \cup {0} :
        type # a \/ s # u => Where(fs, type, s) = Where(es, type, s)
  <2> SUFFICES ASSUME NEW type \in EventTypes, NEW s \in Scouts \cup {0}, type # a \/ s # u
               PROVE  Where(fs, type, s) = Where(es, type, s)
    OBVIOUS
  <2> DEFINE new == IF type = a /\ s = u THEN {Len(es) + 1} ELSE {}
  <2>1. Where(fs, type, s) = Where(es, type, s) \cup new
    BY <1>2
  <2>2. new = {}
    OBVIOUS
  <2> HIDE DEF new
  <2> QED
    BY <2>1, <2>2
<1>4. ASSUME NEW s \in Scouts, s # u \/ a \notin {"scout_start", "scout_done", "scout_error"}
      PROVE  /\ Where(fs, "scout_start", s) = Where(es, "scout_start", s)
             /\ Where(fs, "scout_done", s) = Where(es, "scout_done", s)
             /\ Where(fs, "scout_error", s) = Where(es, "scout_error", s)
  <2>1. s \in Scouts \cup {0}
    OBVIOUS
  <2>2. \A type \in {"scout_start", "scout_done", "scout_error"} : type \in EventTypes /\ (type # a \/ s # u)
    BY <1>1, <1>4
  <2> QED
    BY <1>3, <2>1, <2>2
<1>5. ASSUME NEW s \in Scouts, NEW place, Story(es, s, place),
             s # u \/ a \notin {"scout_start", "scout_done", "scout_error"}
      PROVE  Story(fs, s, place)
  BY <1>4, <1>5 DEF Story, Ends
<1>6. a # "commander_start" => Where(fs, "commander_start", 0) = Where(es, "commander_start", 0)
  <2>1. 0 \in Scouts \cup {0}
    OBVIOUS
  <2> QED
    BY <1>1, <1>3, <2>1
<1>7. \A s \in Scouts : Ends(es, s) \subseteq Ends(fs, s)
  BY <1>1, <1>2 DEF Ends
<1>8. a # "commander_start" /\ Asked(es) => Asked(fs)
  BY <1>6, <1>7 DEF Asked
<1>9. /\ \A s \in Scouts : \A place :
           Story(es, s, place) /\ (s # u \/ a \notin {"scout_start", "scout_done", "scout_error"})
             => Story(fs, s, place)
      /\ a # "commander_start" => Where(fs, "commander_start", 0) = Where(es, "commander_start", 0)
      /\ a # "commander_start" /\ Asked(es) => Asked(fs)
  BY <1>5, <1>6, <1>8
<1> QED
  BY <1>9 DEF fs

\* When all the scouts are done, the commander is asked behind their ends.
LEMMA AskedInTheEnd ==
  ASSUME NEW es \in Seq(Events), \A s \in Scouts : Story(es, s, "done"),
         Where(es, "commander_start", 0) = {}
  PROVE  /\ Asked(es \o Tell("commander_start", 0))
         /\ Where(es \o Tell("commander_start", 0), "commander_start", 0) # {}
<1> DEFINE fs == es \o Tell("commander_start", 0)
<1>1. {"scout_start", "scout_done", "scout_error", "commander_start"} \subseteq EventTypes
  BY DEF EventTypes
<1>2. \A type \in EventTypes, s \in Scouts \cup {0} :
        /\ Where(fs, type, s) =
             Where(es, type, s) \cup (IF type = "commander_start" /\ s = 0 THEN {Len(es) + 1} ELSE {})
        /\ \A i \in Where(es, type, s) : i < Len(es) + 1
  <2>1. "commander_start" \in EventTypes /\ 0 \in Scouts \cup {0}
    BY <1>1
  <2> QED
    BY <2>1, Told
<1> HIDE DEF fs
<1>3. Where(fs, "commander_start", 0) = {Len(es) + 1}
  BY <1>1, <1>2
<1>4. ASSUME NEW s \in Scouts PROVE \E e \in Ends(fs, s) : e < Len(es) + 1
  <2>1. PICK e \in Ends(es, s) : TRUE
    BY DEF Story
  <2>2. e < Len(es) + 1 /\ e \in Ends(fs, s)
    BY <1>1, <1>2, <2>1 DEF Ends
  <2> QED
    BY <2>2
<1>5. Asked(fs) /\ Where(fs, "commander_start", 0) # {}
  BY <1>3, <1>4 DEF Asked
<1> QED
  BY <1>5 DEF fs

\* A step of a scout.
LEMMA ScoutSteps ==
  ASSUME NewsInvariant, team = "scouting", NEW s \in Scouts, NEW place, NEW fs \in Seq(Events),
         team' = team, scout' = [scout EXCEPT ![s] = place], events' = fs,
         place \in {"created", "feeds", "pages", "llm", "done"},
         Story(fs, s, place), \A u \in Scouts \ {s} : Story(fs, u, scout[u]),
         Where(fs, "commander_start", 0) = {}
  PROVE  NewsInvariant'
<1>1. NewsTypeOK'
  BY DEF NewsInvariant, NewsTypeOK
<1>2. \A u \in Scouts : Story(fs, u, scout'[u])
  BY DEF NewsInvariant, NewsTypeOK
<1>3. Asked(fs)
  BY DEF Asked
<1> QED
  BY <1>1, <1>2, <1>3 DEF NewsInvariant

\* A scout that starts, or goes on, or ends.
LEMMA ScoutTells ==
  ASSUME NewsInvariant, team = "scouting", NEW s \in Scouts, team' = team
  PROVE  /\ \A place \in {"feeds", "pages", "llm"} :
              /\ scout[s] = "created" /\ ScoutGoes(s, place) /\ events' = events \o Tell("scout_start", s)
                   => NewsInvariant'
              /\ scout[s] \in {"feeds", "pages", "llm"} /\ ScoutGoes(s, place) /\ events' = events
                   => NewsInvariant'
         /\ \A a \in {"scout_done", "scout_error"} :
              scout[s] \in {"feeds", "pages", "llm"} /\ ScoutGoes(s, "done") /\ events' = events \o Tell(a, s)
                => NewsInvariant'
         /\ scout[s] = "created" /\ ScoutGoes(s, "done")
              /\ events' = events \o Tell("scout_start", s) \o Tell("scout_done", s) => NewsInvariant'
<1>1. /\ events \in Seq(Events) /\ \A u \in Scouts : Story(events, u, scout[u])
      /\ Where(events, "commander_start", 0) = {}
  BY DEF NewsInvariant, NewsTypeOK
<1>2. {"scout_start", "scout_done", "scout_error"} \subseteq EventTypes \ {"commander_start"}
      /\ s \in Scouts \cup {0}
  BY DEF EventTypes
<1>3. ASSUME NEW es \in Seq(Events), Where(es, "commander_start", 0) = {},
             \A u \in Scouts \ {s} : Story(es, u, scout[u]),
             NEW a \in {"scout_start", "scout_done", "scout_error"}
      PROVE  /\ es \o Tell(a, s) \in Seq(Events) /\ Where(es \o Tell(a, s), "commander_start", 0) = {}
             /\ \A u \in Scouts \ {s} : Story(es \o Tell(a, s), u, scout[u])
  <2>1. es \o Tell(a, s) \in Seq(Events)
    BY <1>2, Told
  <2>2. Where(es \o Tell(a, s), "commander_start", 0) = {}
    BY <1>2, <1>3, OthersTold
  <2>3. \A u \in Scouts \ {s} : Story(es \o Tell(a, s), u, scout[u])
    BY <1>2, <1>3, OthersTold
  <2> QED
    BY <2>1, <2>2, <2>3
<1>4. ASSUME NEW place \in {"feeds", "pages", "llm"}, scout[s] = "created", ScoutGoes(s, place),
             events' = events \o Tell("scout_start", s)
      PROVE  NewsInvariant'
  <2> DEFINE fs == events \o Tell("scout_start", s)
  <2>1. /\ fs \in Seq(Events) /\ Where(fs, "commander_start", 0) = {}
        /\ \A u \in Scouts \ {s} : Story(fs, u, scout[u])
    BY <1>1, <1>3
  <2>2. Story(fs, s, place)
    BY <1>1, <1>4, StoryBegins
  <2>3. events' = fs
    BY <1>4
  <2> HIDE DEF fs
  <2> QED
    BY <1>4, <2>1, <2>2, <2>3, ScoutSteps DEF ScoutGoes
<1>5. ASSUME NEW place \in {"feeds", "pages", "llm"}, scout[s] \in {"feeds", "pages", "llm"},
             ScoutGoes(s, place), events' = events
      PROVE  NewsInvariant'
  <2>1. Story(events, s, scout[s]) /\ \A u \in Scouts \ {s} : Story(events, u, scout[u])
    BY <1>1
  <2>2. Story(events, s, place)
    BY <1>5, <2>1 DEF Story
  <2> QED
    BY <1>1, <1>5, <2>1, <2>2, ScoutSteps DEF ScoutGoes
<1>6. ASSUME NEW a \in {"scout_done", "scout_error"}, scout[s] \in {"feeds", "pages", "llm"},
             ScoutGoes(s, "done"), events' = events \o Tell(a, s)
      PROVE  NewsInvariant'
  <2> DEFINE fs == events \o Tell(a, s)
  <2>1. /\ fs \in Seq(Events) /\ Where(fs, "commander_start", 0) = {}
        /\ \A u \in Scouts \ {s} : Story(fs, u, scout[u])
    BY <1>1, <1>3
  <2>2. Story(fs, s, "done")
    BY <1>1, <1>6, StoryEnds
  <2>3. events' = fs
    BY <1>6
  <2> HIDE DEF fs
  <2> QED
    BY <1>6, <2>1, <2>2, <2>3, ScoutSteps DEF ScoutGoes
<1>7. ASSUME scout[s] = "created", ScoutGoes(s, "done"),
             events' = events \o Tell("scout_start", s) \o Tell("scout_done", s)
      PROVE  NewsInvariant'
  <2> DEFINE es == events \o Tell("scout_start", s)
  <2>1. /\ es \in Seq(Events) /\ Where(es, "commander_start", 0) = {}
        /\ \A u \in Scouts \ {s} : Story(es, u, scout[u])
    BY <1>1, <1>3
  <2>2. Story(es, s, "feeds")
    BY <1>1, <1>7, StoryBegins
  <2>3. events' = es \o Tell("scout_done", s)
    BY <1>7
  <2> HIDE DEF es
  <2> DEFINE fs == es \o Tell("scout_done", s)
  <2>4. /\ fs \in Seq(Events) /\ Where(fs, "commander_start", 0) = {}
        /\ \A u \in Scouts \ {s} : Story(fs, u, scout[u])
    BY <1>3, <2>1
  <2>5. Story(fs, s, "done")
    BY <2>1, <2>2, StoryEnds
  <2>6. events' = fs
    BY <2>3
  <2> HIDE DEF fs
  <2> QED
    BY <1>7, <2>4, <2>5, <2>6, ScoutSteps DEF ScoutGoes
<1> QED
  BY <1>4, <1>5, <1>6, <1>7

\* Nothing is told before the search.
LEMMA NewsBegins == NewsInit => NewsInvariant
<1> SUFFICES ASSUME NewsInit PROVE NewsInvariant
  OBVIOUS
<1>1. NewsTypeOK
  BY DEF NewsInit, NewsTypeOK
<1>2. \A type, s : Where(events, type, s) = {}
  BY DEF NewsInit, Where
<1> QED
  BY <1>1, <1>2 DEF NewsInit, NewsInvariant, Story, Ends, Asked

\* What the team tells changes no scout's story.
LEMMA TeamTells ==
  ASSUME NEW es \in Seq(Events), NEW a \in {"team_start", "commander_done", "team_done"},
         NEW place, \A s \in Scouts : Story(es, s, place), Asked(es)
  PROVE  /\ es \o Tell(a, 0) \in Seq(Events)
         /\ \A s \in Scouts : Story(es \o Tell(a, 0), s, place)
         /\ Asked(es \o Tell(a, 0))
         /\ Where(es \o Tell(a, 0), "commander_start", 0) = Where(es, "commander_start", 0)
<1>1. /\ a \in EventTypes /\ a \notin {"scout_start", "scout_done", "scout_error"}
      /\ a # "commander_start" /\ 0 \in Scouts \cup {0}
  BY DEF EventTypes
<1>2. es \o Tell(a, 0) \in Seq(Events)
  BY <1>1, Told
<1>3. \A s \in Scouts : Story(es \o Tell(a, 0), s, place)
  BY <1>1, OthersTold
<1>4. /\ Asked(es \o Tell(a, 0))
      /\ Where(es \o Tell(a, 0), "commander_start", 0) = Where(es, "commander_start", 0)
  BY <1>1, OthersTold
<1> QED
  BY <1>2, <1>3, <1>4

\* The scouts begin together, and the team goes on when they are done.
LEMMA NewsGoesOn == NewsInvariant /\ [NewsNext]_newsVars => NewsInvariant'
<1> SUFFICES ASSUME NewsInvariant, [NewsNext]_newsVars PROVE NewsInvariant'
  OBVIOUS
<1>0. /\ events \in Seq(Events) /\ \A s \in Scouts : Story(events, s, scout[s])
      /\ NewsTypeOK /\ Asked(events) /\ 0 \in Scouts \cup {0}
  BY DEF NewsInvariant, NewsTypeOK
<1>1. ASSUME Search PROVE NewsInvariant'
  <2> DEFINE es == << >>
             fs == es \o Tell("team_start", 0)
  <2>1. es \in Seq(Events) /\ \A s \in Scouts : Story(es, s, "created")
    <3>1. \A type, s : Where(es, type, s) = {}
      BY DEF Where
    <3> QED
      BY <3>1 DEF Story, Ends
  <2>2. Where(es, "commander_start", 0) = {} /\ Asked(es) /\ fs = Tell("team_start", 0)
    BY DEF Where, Asked, Tell
  <2> HIDE DEF es
  <2>3. /\ fs \in Seq(Events) /\ \A s \in Scouts : Story(fs, s, "created")
        /\ Where(fs, "commander_start", 0) = {} /\ Asked(fs)
    BY <2>1, <2>2, TeamTells
  <2>4. events' = fs /\ team' = "scouting" /\ scout' = [s \in Scouts |-> "created"]
    BY <1>1, <2>2 DEF Search
  <2> HIDE DEF fs
  <2>5. NewsTypeOK'
    BY <2>3, <2>4 DEF NewsTypeOK
  <2> QED
    BY <2>3, <2>4, <2>5 DEF NewsInvariant
<1>2. ASSUME NEW s \in Scouts, ScoutStart(s) PROVE NewsInvariant'
  BY <1>2, ScoutTells DEF ScoutStart
<1>3. ASSUME NEW s \in Scouts, FeedsArrive(s) PROVE NewsInvariant'
  <2>1. /\ team = "scouting" /\ team' = team /\ scout[s] = "feeds"
        /\ \/ ScoutGoes(s, "done") /\ events' = events \o Tell("scout_done", s)
           \/ ScoutGoes(s, "pages") /\ events' = events
    BY <1>3 DEF FeedsArrive
  <2> QED
    BY <2>1, ScoutTells
<1>4. ASSUME NEW s \in Scouts, PagesArrive(s) \/ ScoutAnswered(s) \/ ScoutFails(s) PROVE NewsInvariant'
  <2>1. /\ team = "scouting" /\ team' = team /\ scout[s] \in {"feeds", "pages", "llm"}
        /\ \/ ScoutGoes(s, "llm") /\ events' = events
           \/ \E a \in {"scout_done", "scout_error"} :
                ScoutGoes(s, "done") /\ events' = events \o Tell(a, s)
    BY <1>4 DEF PagesArrive, ScoutAnswered, ScoutFails
  <2> QED
    BY <2>1, ScoutTells
<1>5. ASSUME Synthesize PROVE NewsInvariant'
  <2> DEFINE fs == events \o Tell("commander_start", 0)
  <2>1. /\ \A s \in Scouts : Story(events, s, "done") /\ scout[s] = "done"
        /\ Where(events, "commander_start", 0) = {} /\ "commander_start" \in EventTypes
    BY <1>0, <1>5 DEF Synthesize, NewsInvariant, EventTypes
  <2>2. Asked(fs) /\ Where(fs, "commander_start", 0) # {}
    BY <1>0, <2>1, AskedInTheEnd
  <2>3. fs \in Seq(Events) /\ \A s \in Scouts : Story(fs, s, "done")
    BY <1>0, <2>1, Told, OthersTold
  <2>4. events' = fs /\ team' = "commanding" /\ scout' = scout
    BY <1>5 DEF Synthesize
  <2> HIDE DEF fs
  <2> QED
    BY <1>0, <2>1, <2>2, <2>3, <2>4 DEF NewsInvariant, NewsTypeOK
<1>6. ASSUME CommanderAnswered PROVE NewsInvariant'
  <2> DEFINE es == events \o Tell("commander_done", 0)
             fs == es \o Tell("team_done", 0)
  <2>1. /\ Where(events, "commander_start", 0) # {} /\ \A s \in Scouts : scout[s] = "done"
    BY <1>6 DEF CommanderAnswered, NewsInvariant
  <2>2. events \in Seq(Events) /\ Asked(events) /\ \A s \in Scouts : Story(events, s, "done")
    BY <1>0, <2>1
  <2>3. /\ es \in Seq(Events) /\ \A s \in Scouts : Story(es, s, "done")
        /\ Where(es, "commander_start", 0) # {} /\ Asked(es)
    BY <2>1, <2>2, TeamTells
  <2> HIDE DEF es
  <2>4. /\ fs \in Seq(Events) /\ \A s \in Scouts : Story(fs, s, "done")
        /\ Where(fs, "commander_start", 0) # {} /\ Asked(fs)
    BY <2>3, TeamTells
  <2>5. events' = fs /\ team' = "done" /\ scout' = scout
    BY <1>6 DEF CommanderAnswered, es
  <2> HIDE DEF fs
  <2> QED
    BY <1>0, <2>1, <2>4, <2>5 DEF NewsInvariant, NewsTypeOK
<1>7. ASSUME CommanderFails \/ CancelSearch \/ UNCHANGED newsVars PROVE NewsInvariant'
  BY <1>7 DEF CommanderFails, CancelSearch, newsVars, NewsInvariant, NewsTypeOK
<1> QED
  BY <1>1, <1>2, <1>3, <1>4, <1>5, <1>6, <1>7 DEF NewsNext, ScoutStep, TeamStep

\* The events that are out agree with where the team and its scouts are.
THEOREM NewsInvariance == NewsSpec => []NewsInvariant
BY NewsBegins, NewsGoesOn, PTL DEF NewsSpec

\* Each scout settles, once, before the commander is asked.
THEOREM ScoutsSettle == NewsSpec => []ScoutsSettleFirst
<1>1. NewsInvariant => ScoutsSettleFirst
  <2> SUFFICES ASSUME NewsInvariant, NEW s \in Scouts
               PROVE  LET ends == Ends(events, s)
                          asked == Where(events, "commander_start", 0)
                      IN  /\ \A i, j \in ends : i = j
                          /\ \A e \in ends : \E b \in Where(events, "scout_start", s) : b < e
                          /\ \A c \in asked : \E e \in ends : e < c
                          /\ team \in {"commanding", "done", "failed"} => asked # {}
    BY DEF ScoutsSettleFirst, Places, Ends, Where
  <2>1. Story(events, s, scout[s]) /\ scout[s] \in {"idle", "created", "feeds", "pages", "llm", "done"}
    BY DEF NewsInvariant, NewsTypeOK
  <2> QED
    BY <2>1 DEF NewsInvariant, Story, Asked
<1> QED
  BY <1>1, NewsInvariance, PTL

-----------------------------------------------------------------------------
(* The entries a scout reports about. *)

\* Entries of feeds one after the other are entries.
LEMMA FeedsFlattened ==
  ASSUME NEW n \in Nat, NEW feeds \in [1..n -> Seq(Entries)]
  PROVE  FlattenSeq(feeds) \in Seq(Entries)
<1> DEFINE flatten == CHOOSE f : f = [i \in 1..n |-> IF i = 1 THEN feeds[i] ELSE f[i - 1] \o feeds[i]]
           step == [i \in 1..n |-> [x \in Seq(Entries) |-> x \o feeds[i]]]
<1>1. Len(feeds) = n
  OBVIOUS
<1>2. CASE n = 0
  <2>1. FlattenSeq(feeds) = feeds
    BY <1>1, <1>2 DEF FlattenSeq
  <2> QED
    BY <1>1, <1>2, <2>1
<1>3. CASE n # 0
  <2>1. FlattenSeq(feeds) = flatten[n]
    BY <1>1, <1>3 DEF FlattenSeq
  <2>2. step \in [1..n -> [Seq(Entries) -> Seq(Entries)]]
    <3>1. \A i \in 1..n, x \in Seq(Entries) : x \o feeds[i] \in Seq(Entries)
      BY ConcatProperties
    <3> QED
      BY <3>1
  <2>3. PICK run : IsRun(run, n, Seq(Entries), << >>, step)
    <3>1. << >> \in Seq(Entries)
      OBVIOUS
    <3> HIDE DEF step
    <3> QED
      BY <2>2, <3>1, RunExists
  <2>4. run \in [0..n -> Seq(Entries)] /\ run[0] = << >> /\ \A i \in 1..n : run[i] = step[i][run[i - 1]]
    BY <2>3 DEF IsRun
  <2>5. \A i \in 1..n : run[i - 1] \in Seq(Entries) /\ run[i] = run[i - 1] \o feeds[i]
    <3> SUFFICES ASSUME NEW i \in 1..n PROVE run[i - 1] \in Seq(Entries) /\ run[i] = run[i - 1] \o feeds[i]
      OBVIOUS
    <3>1. i - 1 \in 0..n
      OBVIOUS
    <3>2. run[i - 1] \in Seq(Entries) /\ run[i] = step[i][run[i - 1]]
      BY <2>4, <3>1
    <3>3. step[i] = [x \in Seq(Entries) |-> x \o feeds[i]]
      OBVIOUS
    <3> HIDE DEF step
    <3> QED
      BY <3>2, <3>3
  <2>6. \A i \in 1..n : i = 1 => run[i] = feeds[i]
    <3>1. 1 \in 1..n /\ 1 - 1 = 0 /\ feeds[1] \in Seq(Entries)
      BY <1>3
    <3>2. run[1] = << >> \o feeds[1]
      BY <2>4, <2>5, <3>1
    <3>3. run[1] = feeds[1]
      BY <3>1, <3>2, ConcatEmptySeq
    <3> QED
      BY <3>3
  <2> DEFINE g == [i \in 1..n |-> run[i]]
  <2>7. g = [i \in 1..n |-> IF i = 1 THEN feeds[i] ELSE g[i - 1] \o feeds[i]]
    <3>1. ASSUME NEW i \in 1..n PROVE run[i] = IF i = 1 THEN feeds[i] ELSE g[i - 1] \o feeds[i]
      <4>1. i # 1 => i - 1 \in 1..n
        OBVIOUS
      <4> QED
        BY <2>5, <2>6, <4>1
    <3> QED
      BY <3>1
  <2> HIDE DEF g
  <2>8. flatten = [i \in 1..n |-> IF i = 1 THEN feeds[i] ELSE flatten[i - 1] \o feeds[i]]
    BY <2>7
  <2> HIDE DEF flatten
  <2> DEFINE T == {k \in 0..n : k = 0 \/ flatten[k] \in Seq(Entries)}
  <2>9. 0 \in T
    OBVIOUS
  <2>10. ASSUME NEW k \in 1..n, k - 1 \in T PROVE k \in T
    <3>1. k = 1 => flatten[k] = feeds[k]
      BY <2>8
    <3>2. k # 1 => flatten[k] = flatten[k - 1] \o feeds[k] /\ flatten[k - 1] \in Seq(Entries)
      <4>1. k # 1 => k - 1 # 0
        OBVIOUS
      <4> QED
        BY <2>8, <2>10, <4>1
    <3>3. feeds[k] \in Seq(Entries)
      OBVIOUS
    <3>4. flatten[k] \in Seq(Entries)
      BY <3>1, <3>2, <3>3, ConcatProperties
    <3> QED
      BY <3>4
  <2> HIDE DEF T
  <2>11. \A k \in 0..n : k \in T
    BY <2>9, <2>10, InductionUpTo
  <2>12. n \in T
    BY <2>11
  <2> QED
    BY <1>3, <2>1, <2>12 DEF T
<1> QED
  BY <1>2, <1>3

FirstWithLink(all, i) ==
  all[i].link = 0 \/ \A j \in DOMAIN all : all[j].link = all[i].link => i <= j

\* What is reported of some entries is the best of them, each link once.
BestOf(all, taken) ==
  /\ Len(taken) <= MaxArticles
  /\ \A k, l \in DOMAIN taken : taken[k].link = taken[l].link /\ taken[k].link # 0 => k = l
  /\ \A i \in DOMAIN all : FirstWithLink(all, i) /\ all[i] \notin ToSet(taken) =>
       \A k \in DOMAIN taken : all[i].score <= taken[k].score
  /\ \A k, l \in DOMAIN taken : k < l => taken[l].score <= taken[k].score

\* So is what a scout has of it when it fails over one of them.
LEMMA BeginningIsBest ==
  ASSUME NEW all \in Seq(Entries), NEW taken \in Seq(Entries), BestOf(all, taken),
         NEW n \in 0..Len(taken)
  PROVE  SubSeq(taken, 1, n) \in Seq(Entries) /\ BestOf(all, SubSeq(taken, 1, n))
<1> DEFINE part == SubSeq(taken, 1, n)
<1>1. n \in Nat /\ n <= Len(taken) /\ DOMAIN taken = 1..Len(taken) /\ MaxArticles \in Nat
  BY NewsAssumption
<1>2. /\ part \in Seq(Entries) /\ Len(part) = n /\ DOMAIN part = 1..n
      /\ \A k \in 1..n : part[k] = taken[k] /\ k \in DOMAIN taken
  BY <1>1
<1> HIDE DEF part
<1>3. \A e \in Entries : e.score \in Int
  BY DEF Entries
<1>4. ASSUME NEW i \in DOMAIN all, FirstWithLink(all, i), all[i] \notin ToSet(part), NEW k \in 1..n
      PROVE  all[i].score <= taken[k].score
  <2>1. CASE all[i] \notin ToSet(taken)
    BY <1>2, <1>4, <2>1 DEF BestOf
  <2>2. CASE all[i] \in ToSet(taken)
    <3>1. PICK l \in DOMAIN taken : taken[l] = all[i]
      BY <2>2 DEF ToSet
    <3>2. l \notin 1..n
      BY <1>2, <1>4, <3>1 DEF ToSet
    <3>3. k < l /\ k \in DOMAIN taken
      BY <1>1, <1>2, <3>1, <3>2
    <3> QED
      BY <3>1, <3>3 DEF BestOf
  <2> QED
    BY <2>1, <2>2
<1>5. Len(part) <= MaxArticles
  BY <1>1, <1>2 DEF BestOf
<1>6. \A k, l \in DOMAIN part : part[k].link = part[l].link /\ part[k].link # 0 => k = l
  BY <1>2 DEF BestOf
<1>7. \A k, l \in DOMAIN part : k < l => part[l].score <= part[k].score
  BY <1>2 DEF BestOf
<1>8. \A i \in DOMAIN all : FirstWithLink(all, i) /\ all[i] \notin ToSet(part) =>
        \A k \in DOMAIN part : all[i].score <= part[k].score
  BY <1>2, <1>4
<1>9. BestOf(all, part)
  BY <1>5, <1>6, <1>7, <1>8 DEF BestOf
<1> QED
  BY <1>2, <1>9 DEF part

LEMMA TopEntriesAreBest ==
  ASSUME NEW all \in Seq(Entries)
  PROVE  TopEntries(all) \in Seq(Entries) /\ BestOf(all, TopEntries(all))
<1> DEFINE n == Len(all)
           unique == {i \in 1..n : all[i].link = 0 \/ \A j \in 1..(i - 1) : all[j].link # all[i].link}
           key == [i \in unique |-> all[i].score]
           order == Descending(unique, key)
           c == Cardinality(unique)
           taken == TopEntries(all)
<1>1. n \in Nat /\ DOMAIN all = 1..n /\ \A i \in 1..n : all[i] \in Entries
  OBVIOUS
<1>2. \A e \in Entries : e.link \in Nat /\ e.score \in Int
  BY DEF Entries
<1>3. unique \subseteq 1..n /\ unique \subseteq Int /\ IsFiniteSet(unique)
  <2>1. unique \subseteq 1..n /\ unique \subseteq Int
    BY <1>1
  <2>2. IsFiniteSet(1..n)
    BY <1>1, FS_Interval
  <2> HIDE DEF unique
  <2> QED
    BY <2>1, <2>2, FS_Subset
<1>4. key \in [unique -> Int]
  BY <1>1, <1>2
<1>5. taken = [k \in 1..(IF Len(order) < MaxArticles THEN Len(order) ELSE MaxArticles) |-> all[order[k]]]
  BY <1>1 DEF TopEntries
<1>6. \A i \in unique, j \in 1..n : all[i].link # 0 /\ all[j].link = all[i].link => i <= j
  BY <1>1, <1>2
<1>7. \A i \in 1..n : FirstWithLink(all, i) => i \in unique
  BY <1>1, <1>2, SMTT(30) DEF FirstWithLink
<1> HIDE DEF n, unique
<1>8. \A i \in unique : key[i] = all[i].score
  OBVIOUS
<1> HIDE DEF key
<1>9. /\ c \in Nat /\ order \in [1..c -> unique]
      /\ \A i \in unique : \E k \in 1..c : order[k] = i
      /\ \A k, l \in 1..c :
           k < l => key[order[l]] < key[order[k]] \/ (key[order[l]] = key[order[k]] /\ order[k] < order[l])
  BY <1>3, <1>4, DescendingProperties
<1> HIDE DEF order, c
<1>10. Len(order) = c
  BY <1>9
<1>11. PICK m \in Nat : m = IF c < MaxArticles THEN c ELSE MaxArticles
  BY <1>9, NewsAssumption
<1>12. /\ m <= c /\ m <= MaxArticles /\ (m = c \/ m = MaxArticles) /\ MaxArticles \in Nat
  BY <1>9, <1>11, NewsAssumption
<1>13. taken = [k \in 1..m |-> all[order[k]]]
  BY <1>5, <1>10, <1>11
<1> HIDE DEF taken
<1>14. \A k \in 1..m : /\ k \in 1..c /\ taken[k] = all[order[k]] /\ order[k] \in unique
                       /\ order[k] \in 1..n /\ taken[k] \in Entries
  <2> SUFFICES ASSUME NEW k \in 1..m
               PROVE  /\ k \in 1..c /\ taken[k] = all[order[k]] /\ order[k] \in unique
                      /\ order[k] \in 1..n /\ taken[k] \in Entries
    OBVIOUS
  <2>1. k \in 1..c /\ taken[k] = all[order[k]]
    BY <1>9, <1>12, <1>13
  <2>2. order[k] \in unique
    BY <1>9, <2>1
  <2>3. order[k] \in 1..n
    BY <1>3, <2>2
  <2> QED
    BY <1>1, <2>1, <2>2, <2>3
<1>15. taken \in Seq(Entries) /\ Len(taken) = m /\ DOMAIN taken = 1..m
  <2>1. taken \in [1..m -> Entries]
    BY <1>13, <1>14
  <2> QED
    BY <1>11, <2>1
<1>16. ASSUME NEW k \in 1..m, NEW l \in 1..m, k < l, taken[k].link = taken[l].link, taken[k].link # 0
       PROVE  FALSE
  <2>1. order[k] <= order[l] /\ order[l] <= order[k]
    BY <1>6, <1>14, <1>16, SMTT(30)
  <2>2. order[k] = order[l] /\ order[k] \in 1..n
    BY <1>1, <1>14, <2>1
  <2>3. key[order[k]] \in Int
    BY <1>4, <1>14
  <2> QED
    BY <1>9, <1>14, <1>16, <2>2, <2>3
<1>17. ASSUME NEW i \in 1..n, FirstWithLink(all, i), all[i] \notin ToSet(taken), NEW k \in 1..m
       PROVE  all[i].score <= taken[k].score
  <2>1. i \in unique
    BY <1>7, <1>17
  <2>2. PICK p \in 1..c : order[p] = i
    BY <1>9, <2>1
  <2>3. p \notin 1..m
    <3>1. \A q \in 1..m : taken[q] \in ToSet(taken)
      BY <1>15 DEF ToSet
    <3> QED
      BY <1>14, <1>17, <2>2, <3>1
  <2>4. k < p
    BY <1>9, <1>11, <2>3
  <2>5. key[i] <= key[order[k]]
    <3>1. key[i] \in Int /\ key[order[k]] \in Int
      BY <1>4, <1>14, <2>1
    <3>2. k \in 1..c
      BY <1>14
    <3> QED
      BY <1>9, <2>2, <2>4, <3>1, <3>2
  <2> QED
    BY <1>8, <1>14, <2>1, <2>5
<1>18. \A k, l \in 1..m : taken[k].link = taken[l].link /\ taken[k].link # 0 => k = l
  BY <1>16
<1>19. ASSUME NEW k \in 1..m, NEW l \in 1..m, k < l PROVE taken[l].score <= taken[k].score
  <2>1. /\ k \in 1..c /\ l \in 1..c /\ order[k] \in unique /\ order[l] \in unique
        /\ taken[k] = all[order[k]] /\ taken[l] = all[order[l]]
    BY <1>14
  <2>2. key[order[k]] \in Int /\ key[order[l]] \in Int
    BY <1>4, <2>1
  <2>3. key[order[l]] <= key[order[k]]
    BY <1>9, <1>19, <2>1, <2>2
  <2> QED
    BY <1>8, <2>1, <2>3
<1>20. BestOf(all, taken)
  BY <1>1, <1>12, <1>15, <1>17, <1>18, <1>19 DEF BestOf
<1> QED
  BY <1>15, <1>20 DEF taken

ReportsAreBest ==
  /\ fetched \in [Scouts -> Seq(Entries)] /\ sources \in [Scouts -> Seq(Entries)]
  /\ \A s \in Scouts : BestOf(fetched[s], sources[s])

\* Whatever the feeds contain, every scout reports about the best of what it
\* got, and about no link twice (NewsScout.run).
THEOREM ScoutsReportTheBest == NewsSpec => []BestEntriesReported
<1>1. NewsInit => ReportsAreBest
  <2> SUFFICES ASSUME NewsInit PROVE ReportsAreBest
    OBVIOUS
  <2>1. << >> \in Seq(Entries) /\ Len(<< >>) = 0 /\ DOMAIN << >> = {} /\ MaxArticles \in Nat
    BY NewsAssumption
  <2>2. BestOf(<< >>, << >>)
    BY <2>1 DEF BestOf
  <2> QED
    BY <2>1, <2>2 DEF NewsInit, ReportsAreBest
<1>2. ReportsAreBest /\ [NewsNext]_newsVars => ReportsAreBest'
  <2> SUFFICES ASSUME ReportsAreBest, [NewsNext]_newsVars PROVE ReportsAreBest'
    OBVIOUS
  <2>1. CASE UNCHANGED <<fetched, sources>>
    BY <2>1 DEF ReportsAreBest, BestOf, FirstWithLink
  <2>2. ASSUME NEW s \in Scouts, FeedsArrive(s) PROVE ReportsAreBest'
    <3>1. PICK feeds \in [1..Feeds[s] -> Contents] :
            /\ fetched' = [fetched EXCEPT ![s] = FlattenSeq(feeds)]
            /\ sources' = [sources EXCEPT ![s] = TopEntries(FlattenSeq(feeds))]
      BY <2>2 DEF FeedsArrive
    <3>2. Feeds[s] \in Nat /\ feeds \in [1..Feeds[s] -> Seq(Entries)]
      BY NewsAssumption DEF Scouts
    <3>3. FlattenSeq(feeds) \in Seq(Entries)
      BY <3>2, FeedsFlattened
    <3>4. PICK all \in Seq(Entries) : all = FlattenSeq(feeds)
      BY <3>3
    <3>5. TopEntries(all) \in Seq(Entries) /\ BestOf(all, TopEntries(all))
      BY TopEntriesAreBest
    <3>6. /\ fetched' \in [Scouts -> Seq(Entries)] /\ sources' \in [Scouts -> Seq(Entries)]
          /\ \A t \in Scouts : fetched'[t] = IF t = s THEN all ELSE fetched[t]
          /\ \A t \in Scouts : sources'[t] = IF t = s THEN TopEntries(all) ELSE sources[t]
      BY <3>1, <3>4, <3>5 DEF ReportsAreBest
    <3>7. ASSUME NEW t \in Scouts PROVE BestOf(fetched'[t], sources'[t])
      BY <3>5, <3>6 DEF ReportsAreBest
    <3> QED
      BY <3>6, <3>7 DEF ReportsAreBest, BestOf, FirstWithLink
  <2>3. ASSUME NEW s \in Scouts, ScoutStart(s) \/ PagesArrive(s) \/ ScoutAnswered(s)
        PROVE  ReportsAreBest'
    BY <2>1, <2>3 DEF ScoutStart, PagesArrive, ScoutAnswered
  <2>4. ASSUME NEW s \in Scouts, ScoutFails(s) PROVE ReportsAreBest'
    <3>1. PICK n \in 0..Len(sources[s]) : sources' = [sources EXCEPT ![s] = SubSeq(@, 1, n)]
      BY <2>4 DEF ScoutFails
    <3>2. PICK part \in Seq(Entries) : part = SubSeq(sources[s], 1, n) /\ BestOf(fetched[s], part)
      <4>1. fetched[s] \in Seq(Entries) /\ sources[s] \in Seq(Entries) /\ BestOf(fetched[s], sources[s])
        BY DEF ReportsAreBest
      <4> QED
        BY <4>1, BeginningIsBest
    <3>3. /\ fetched' = fetched /\ sources' \in [Scouts -> Seq(Entries)]
          /\ \A t \in Scouts : sources'[t] = IF t = s THEN part ELSE sources[t]
      BY <2>4, <3>1, <3>2 DEF ReportsAreBest, ScoutFails
    <3>4. ASSUME NEW t \in Scouts PROVE BestOf(fetched'[t], sources'[t])
      BY <3>2, <3>3 DEF ReportsAreBest
    <3> QED
      BY <3>3, <3>4 DEF ReportsAreBest, BestOf, FirstWithLink
  <2>5. ASSUME Search \/ TeamStep \/ CancelSearch \/ UNCHANGED newsVars PROVE ReportsAreBest'
    BY <2>1, <2>5 DEF Search, TeamStep, Synthesize, CommanderAnswered, CommanderFails, CancelSearch, newsVars
  <2> QED
    BY <2>2, <2>3, <2>4, <2>5 DEF NewsNext, ScoutStep
<1>3. ReportsAreBest => BestEntriesReported
  BY DEF ReportsAreBest, BestOf, FirstWithLink, BestEntriesReported
<1> QED
  BY <1>1, <1>2, <1>3, PTL DEF NewsSpec

-----------------------------------------------------------------------------
(* The vision agent. *)

Phases == {"encoding", "sending", "received", "diagnosis"}

Messages == {"encoding", "sending", "received", "diagnosis", "failure"} \X Calls

VisionTypeOK ==
  /\ callback \in Streams \cup {Original}
  /\ analysis \in [Calls -> {"idle", "created", "opening", "asking", "ok", "failed"}]
  /\ stream \in [Streams -> {"off", "waiting", "timed_out", "yielded", "last", "ended"}]
  /\ saved \in [Streams -> Streams \cup {Original}]
  /\ inbox \in [Streams -> Seq(Messages)] /\ got \in [Streams -> Seq(Messages)]
  /\ overlapped \in BOOLEAN /\ crossed \in BOOLEAN

\* The open streams in the order of their begin: each has saved the callback of
\* the one before it, and the agent has that of the latest.
InOrder(o) ==
  /\ \A k, l \in DOMAIN o : o[k] = o[l] => k = l
  /\ OpenStreams = {o[k] : k \in DOMAIN o}
  /\ \A k \in DOMAIN o : saved[o[k]] = IF k = 1 THEN Original ELSE o[k - 1]
  /\ callback = IF o = << >> THEN Original ELSE o[Len(o)]

CallbacksStacked == ~crossed => \E o \in Seq(Streams) : InOrder(o)

\* The last event of a stream is the outcome of its own analysis, which has ended.
OutcomeIsLast ==
  \A s \in Streams : stream[s] = "last" =>
    /\ analysis[s] \in Ended
    /\ got[s] # << >> /\ got[s][Len(got[s])] = <<Outcome(s), s>>

\* The calls that are going on.
Active == OpenStreams \cup {c \in Calls : analysis[c] \notin {"idle"} \cup Ended}

\* The events of an analysis behind the first n, up to the m-th.
From(s, n, m) == [k \in 1..(m - n) |-> <<Kinds[n + k], s>>]

Body(s) == IF stream[s] = "last" THEN Front(got[s]) ELSE got[s]

\* An analysis has emitted m events, and its stream has yielded n of them.
OwnEvents(s) ==
  \E n, m \in 0..4 :
    /\ n <= m
    /\ analysis[s] = "created" => m = 0
    /\ analysis[s] \in {"opening", "asking"} => m = 2
    /\ Body(s) = From(s, 0, n) /\ inbox[s] = From(s, n, m)

\* As long as no call overlaps another one, the callback is that of the open
\* stream, and the events that come to it are those of its own analysis.
Undisturbed ==
  ~overlapped =>
    /\ \A c, d \in Active : c = d
    /\ OpenStreams = {} => callback = Original
    /\ \A s \in OpenStreams : callback = s /\ saved[s] = Original /\ OwnEvents(s)
    /\ \A s \in Streams \ OpenStreams : got[s] = << >> /\ inbox[s] = << >>

VisionInvariant == VisionTypeOK /\ CallbacksStacked /\ OutcomeIsLast /\ Undisturbed

OpenPlaces == {"waiting", "timed_out", "yielded", "last"}

\* How a step of a stream changes the set of the open ones.
LEMMA OpenSteps ==
  ASSUME VisionTypeOK, NEW s \in Streams, NEW place, StreamGoes(s, place)
  PROVE  /\ stream[s] \in OpenPlaces /\ place \in OpenPlaces => OpenStreams' = OpenStreams
         /\ stream[s] = "off" /\ place \in OpenPlaces => OpenStreams' = OpenStreams \cup {s}
         /\ stream[s] \in OpenPlaces /\ place = "ended" => OpenStreams' = OpenStreams \ {s}
         /\ stream[s] \in OpenPlaces <=> s \in OpenStreams
<1>1. \A u \in Streams : stream'[u] = IF u = s THEN place ELSE stream[u]
  BY DEF StreamGoes, VisionTypeOK
<1>2. stream[s] \in OpenPlaces <=> s \in OpenStreams
  BY DEF VisionTypeOK, OpenPlaces, OpenStreams
<1>3. ASSUME stream[s] \in OpenPlaces, place \in OpenPlaces PROVE OpenStreams' = OpenStreams
  BY <1>1, <1>3 DEF OpenPlaces, OpenStreams
<1>4. ASSUME stream[s] = "off", place \in OpenPlaces PROVE OpenStreams' = OpenStreams \cup {s}
  BY <1>1, <1>4 DEF OpenPlaces, OpenStreams
<1>5. ASSUME stream[s] \in OpenPlaces, place = "ended" PROVE OpenStreams' = OpenStreams \ {s}
  BY <1>1, <1>5 DEF OpenPlaces, OpenStreams
<1> QED
  BY <1>2, <1>3, <1>4, <1>5

\* Most steps leave the callbacks alone.
LEMMA StackKept ==
  ASSUME CallbacksStacked, UNCHANGED <<callback, saved, crossed>>, OpenStreams' = OpenStreams
  PROVE  CallbacksStacked'
<1> SUFFICES ASSUME ~crossed PROVE \E o \in Seq(Streams) : InOrder(o)'
  BY DEF CallbacksStacked
<1>1. PICK o \in Seq(Streams) : InOrder(o)
  BY DEF CallbacksStacked
<1>2. InOrder(o)'
  BY <1>1 DEF InOrder
<1> QED
  BY <1>2

\* A stream that begins is the latest one.
LEMMA StackPushed ==
  ASSUME VisionTypeOK, CallbacksStacked, NEW s \in Streams, StartStream(s)
  PROVE  CallbacksStacked'
<1> SUFFICES ASSUME ~crossed PROVE \E o \in Seq(Streams) : InOrder(o)'
  BY DEF CallbacksStacked, StartStream
<1>1. PICK o \in Seq(Streams) : InOrder(o)
  BY DEF CallbacksStacked
<1> DEFINE q == Append(o, s)
<1>2. /\ q \in Seq(Streams) /\ Len(q) = Len(o) + 1 /\ Len(o) \in Nat
      /\ \A k \in 1..Len(o) : q[k] = o[k] /\ o[k] \in Streams
      /\ q[Len(o) + 1] = s /\ q # << >>
      /\ DOMAIN o = 1..Len(o) /\ DOMAIN q = 1..(Len(o) + 1)
      /\ o = << >> <=> Len(o) = 0
  OBVIOUS
<1> HIDE DEF q
<1>3. /\ stream[s] = "off" /\ StreamGoes(s, "waiting")
      /\ saved' = [saved EXCEPT ![s] = callback] /\ callback' = s
  BY DEF StartStream
<1>4. OpenStreams' = OpenStreams \cup {s} /\ s \notin OpenStreams
  BY <1>3, OpenSteps DEF OpenPlaces, OpenStreams
<1>5. /\ \A k, l \in DOMAIN o : o[k] = o[l] => k = l
      /\ OpenStreams = {o[k] : k \in DOMAIN o}
      /\ \A k \in DOMAIN o : saved[o[k]] = IF k = 1 THEN Original ELSE o[k - 1]
      /\ callback = IF o = << >> THEN Original ELSE o[Len(o)]
  BY <1>1 DEF InOrder
<1>6. \A k \in 1..Len(o) : o[k] # s
  BY <1>2, <1>4, <1>5
<1>7. \A k \in 1..(Len(o) + 1) : k \in 1..Len(o) \/ k = Len(o) + 1
  BY <1>2
<1>8. \A k, l \in DOMAIN q : q[k] = q[l] => k = l
  BY <1>2, <1>5, <1>6, <1>7
<1>9. OpenStreams' = {q[k] : k \in DOMAIN q}
  <2>1. ASSUME NEW u \in OpenStreams' PROVE \E k \in DOMAIN q : q[k] = u
    <3>1. CASE u = s
      <4>1. Len(o) + 1 \in DOMAIN q
        BY <1>2
      <4> QED
        BY <1>2, <3>1, <4>1
    <3>2. CASE u # s
      <4>1. PICK k \in 1..Len(o) : o[k] = u
        BY <1>2, <1>4, <1>5, <2>1, <3>2
      <4>2. k \in DOMAIN q /\ q[k] = u
        BY <1>2, <4>1
      <4> QED
        BY <4>2
    <3> QED
      BY <3>1, <3>2
  <2>2. ASSUME NEW k \in DOMAIN q PROVE q[k] \in OpenStreams'
    <3>1. CASE k \in 1..Len(o)
      BY <1>2, <1>4, <1>5, <3>1
    <3>2. CASE k = Len(o) + 1
      BY <1>2, <1>4, <3>2
    <3> QED
      BY <1>2, <1>7, <3>1, <3>2
  <2> QED
    BY <2>1, <2>2
<1>10. \A k \in DOMAIN q : saved'[q[k]] = IF k = 1 THEN Original ELSE q[k - 1]
  <2> SUFFICES ASSUME NEW k \in DOMAIN q PROVE saved'[q[k]] = IF k = 1 THEN Original ELSE q[k - 1]
    OBVIOUS
  <2>1. CASE k \in 1..Len(o)
    <3>1. saved'[q[k]] = saved[o[k]]
      BY <1>2, <1>3, <1>6, <2>1 DEF VisionTypeOK
    <3>2. k # 1 => k - 1 \in 1..Len(o)
      BY <1>2, <2>1
    <3> QED
      BY <1>2, <1>5, <2>1, <3>1, <3>2
  <2>2. CASE k = Len(o) + 1
    <3>1. saved'[q[k]] = callback
      BY <1>2, <1>3, <2>2 DEF VisionTypeOK
    <3>2. k # 1 => Len(o) \in 1..Len(o) /\ k - 1 = Len(o) /\ o # << >>
      BY <1>2, <2>2
    <3>3. k = 1 => o = << >>
      BY <1>2, <2>2
    <3> QED
      BY <1>2, <1>5, <3>1, <3>2, <3>3
  <2> QED
    BY <1>2, <1>7, <2>1, <2>2
<1>11. InOrder(q)'
  BY <1>2, <1>3, <1>8, <1>9, <1>10 DEF InOrder
<1> QED
  BY <1>2, <1>11

\* The latest stream that is open ends; if it is another one, the order is lost.
LEMMA StackPopped ==
  ASSUME VisionTypeOK, CallbacksStacked, NEW s \in Streams, stream[s] \in OpenPlaces, Restore(s)
  PROVE  CallbacksStacked'
<1> SUFFICES ASSUME ~crossed, callback = s PROVE \E o \in Seq(Streams) : InOrder(o)'
  BY DEF CallbacksStacked, Restore
<1>1. PICK o \in Seq(Streams) : InOrder(o)
  BY DEF CallbacksStacked
<1>2. /\ \A k, l \in DOMAIN o : o[k] = o[l] => k = l
      /\ OpenStreams = {o[k] : k \in DOMAIN o}
      /\ \A k \in DOMAIN o : saved[o[k]] = IF k = 1 THEN Original ELSE o[k - 1]
      /\ callback = IF o = << >> THEN Original ELSE o[Len(o)]
  BY <1>1 DEF InOrder
<1>3. o # << >> /\ o[Len(o)] = s
  BY <1>2, CallsAssumption
<1> DEFINE n == Len(o) - 1
           q == SubSeq(o, 1, n)
<1>4. Len(o) \in Nat \ {0} /\ n \in Nat /\ n + 1 = Len(o) /\ DOMAIN o = 1..(n + 1)
  BY <1>3
<1>5. /\ q \in Seq(Streams) /\ Len(q) = n /\ DOMAIN q = 1..n
      /\ \A k \in 1..n : q[k] = o[k]
      /\ q = << >> <=> n = 0
  <2>1. /\ q \in Seq(Streams) /\ Len(q) = n /\ DOMAIN q = 1..n
        /\ \A k \in 1..n : q[k] = o[k]
    BY <1>4
  <2>2. q = << >> <=> Len(q) = 0
    <3> HIDE DEF q
    <3> QED
      BY <2>1
  <2> QED
    BY <2>1, <2>2
<1> HIDE DEF n, q
<1>6. \A k \in 1..n : k \in 1..(n + 1) /\ k # n + 1
  BY <1>4
<1>7. /\ OpenStreams' = OpenStreams \ {s}
      /\ saved' = saved /\ callback' = saved[s]
  BY OpenSteps DEF Restore
<1>8. \A k, l \in DOMAIN q : q[k] = q[l] => k = l
  BY <1>2, <1>4, <1>5, <1>6
<1>9. OpenStreams' = {q[k] : k \in DOMAIN q}
  <2>1. ASSUME NEW u \in OpenStreams' PROVE \E k \in DOMAIN q : q[k] = u
    <3>1. PICK k \in 1..(n + 1) : o[k] = u
      BY <1>2, <1>4, <1>7
    <3>2. k # n + 1
      BY <1>3, <1>4, <1>7, <3>1
    <3>3. k \in 1..n
      BY <1>4, <3>1, <3>2
    <3> QED
      BY <1>5, <3>1, <3>3
  <2>2. ASSUME NEW k \in DOMAIN q PROVE q[k] \in OpenStreams'
    <3>1. k \in 1..n /\ k \in DOMAIN o /\ n + 1 \in DOMAIN o
      BY <1>4, <1>5, <1>6
    <3>2. q[k] = o[k] /\ o[k] \in OpenStreams
      BY <1>2, <1>5, <3>1
    <3>3. q[k] # s
      <4>1. k # n + 1 /\ o[n + 1] = s
        BY <1>3, <1>4, <1>6, <3>1
      <4> QED
        BY <1>2, <3>1, <3>2, <4>1
    <3> QED
      BY <1>7, <3>2, <3>3
  <2> QED
    BY <2>1, <2>2
<1>10. \A k \in DOMAIN q : saved'[q[k]] = IF k = 1 THEN Original ELSE q[k - 1]
  <2> SUFFICES ASSUME NEW k \in DOMAIN q PROVE saved[q[k]] = IF k = 1 THEN Original ELSE q[k - 1]
    BY <1>7
  <2>1. k \in 1..n /\ k \in DOMAIN o /\ (k # 1 => k - 1 \in 1..n)
    BY <1>4, <1>5, <1>6
  <2> QED
    BY <1>2, <1>5, <2>1
<1>11. callback' = IF q = << >> THEN Original ELSE q[Len(q)]
  <2>1. n + 1 \in DOMAIN o /\ o[n + 1] = s /\ (n + 1) - 1 = n
    BY <1>3, <1>4
  <2>2. saved[s] = IF n + 1 = 1 THEN Original ELSE o[n]
    BY <1>2, <2>1
  <2>3. n # 0 => n \in 1..n
    BY <1>4
  <2>4. n = 0 <=> n + 1 = 1
    BY <1>4
  <2> QED
    BY <1>5, <1>7, <2>2, <2>3, <2>4
<1>12. InOrder(q)'
  BY <1>8, <1>9, <1>10, <1>11 DEF InOrder
<1> QED
  BY <1>5, <1>12

\* What a call emits are messages.
LEMMA EmitTypes ==
  ASSUME VisionTypeOK, NEW c \in Calls,
         NEW kinds \in Seq(Phases), Emit(kinds, c)
  PROVE  inbox' \in [Streams -> Seq(Messages)]
<1> DEFINE new == [k \in DOMAIN kinds |-> <<kinds[k], c>>]
<1>1. new \in Seq(Messages)
  <2>1. \A k \in 1..Len(kinds) : <<kinds[k], c>> \in Messages
    BY DEF Messages, Phases
  <2>2. DOMAIN kinds = 1..Len(kinds) /\ Len(kinds) \in Nat
    OBVIOUS
  <2> QED
    BY <2>1, <2>2
<1> HIDE DEF new
<1>2. CASE inbox' = inbox
  BY <1>2 DEF VisionTypeOK
<1>3. CASE callback # Original /\ inbox' = [inbox EXCEPT ![callback] = @ \o new]
  BY <1>1, <1>3 DEF VisionTypeOK
<1> QED
  BY <1>2, <1>3 DEF Emit, new

\* The events that an analysis can emit.
Own(s) == {<<Kinds[k], s>> : k \in 1..4}

Between(i, j) == i \in 0..4 /\ j \in 0..4 /\ i <= j

\* The events between two counts are a sequence, one for each count.
LEMMA FromIs ==
  ASSUME NEW s, NEW i, NEW j, Between(i, j)
  PROVE  /\ From(s, i, j) \in Seq(Own(s)) /\ Len(From(s, i, j)) = j - i
         /\ \A k \in 1..(j - i) : From(s, i, j)[k] = <<Kinds[i + k], s>>
<1>1. j - i \in Nat /\ \A k \in 1..(j - i) : <<Kinds[i + k], s>> \in Own(s)
  <2>1. j - i \in Nat /\ \A k \in 1..(j - i) : i + k \in 1..4
    BY DEF Between
  <2> QED
    BY <2>1 DEF Own
<1> QED
  BY <1>1 DEF From

\* The events of an analysis, when one is taken.
LEMMA FromFacts ==
  ASSUME NEW s, NEW n \in 0..4, NEW m \in 0..4, n <= m
  PROVE  /\ From(s, n, n) = << >>
         /\ From(s, n, m) # << >> =>
              /\ n < m
              /\ Append(From(s, 0, n), Head(From(s, n, m))) = From(s, 0, n + 1)
              /\ Tail(From(s, n, m)) = From(s, n + 1, m)
<1>2. From(s, n, n) = << >>
  <2>1. From(s, n, n) \in Seq(Own(s)) /\ Len(From(s, n, n)) = n - n
    <3>1. Between(n, n)
      BY DEF Between
    <3> QED
      BY <3>1, FromIs
  <2> QED
    BY <2>1
<1>3. ASSUME From(s, n, m) # << >>
      PROVE  /\ n < m
             /\ Append(From(s, 0, n), Head(From(s, n, m))) = From(s, 0, n + 1)
             /\ Tail(From(s, n, m)) = From(s, n + 1, m)
  <2>1. n < m
    BY <1>2, <1>3
  <2>2. Between(0, n) /\ Between(n, m) /\ Between(0, n + 1) /\ Between(n + 1, m)
    BY <2>1 DEF Between
  <2> DEFINE a == From(s, 0, n)
             b == From(s, n, m)
             u == From(s, 0, n + 1)
             v == From(s, n + 1, m)
  <2>3. /\ a \in Seq(Own(s)) /\ Len(a) = n /\ \A k \in 1..n : a[k] = <<Kinds[k], s>>
        /\ u \in Seq(Own(s)) /\ Len(u) = n + 1 /\ \A k \in 1..(n + 1) : u[k] = <<Kinds[k], s>>
    <3>1. /\ a \in Seq(Own(s)) /\ Len(a) = n - 0 /\ \A k \in 1..(n - 0) : a[k] = <<Kinds[0 + k], s>>
          /\ u \in Seq(Own(s)) /\ Len(u) = n + 1 - 0 /\ \A k \in 1..(n + 1 - 0) : u[k] = <<Kinds[0 + k], s>>
      BY <2>2, FromIs
    <3> HIDE DEF a, u
    <3> QED
      BY <3>1
  <2>4. /\ b \in Seq(Own(s)) /\ Len(b) = m - n /\ \A k \in 1..(m - n) : b[k] = <<Kinds[n + k], s>>
        /\ v \in Seq(Own(s)) /\ Len(v) = m - (n + 1) /\ \A k \in 1..(m - (n + 1)) : v[k] = <<Kinds[n + 1 + k], s>>
    BY <2>2, FromIs
  <2> HIDE DEF a, b, u, v
  <2>5. Head(b) \in Own(s) /\ Head(b) = <<Kinds[n + 1], s>>
    BY <2>1, <2>4
  <2>6. Append(a, Head(b)) = u
    <3>1. Append(a, Head(b)) \in Seq(Own(s)) /\ Len(Append(a, Head(b))) = n + 1
          /\ \A k \in 1..(n + 1) : Append(a, Head(b))[k] = <<Kinds[k], s>>
      BY <2>3, <2>5
    <3> QED
      BY <2>3, <3>1, SeqEqual
  <2>7. Tail(b) = v
    <3>1. Tail(b) \in Seq(Own(s)) /\ Len(Tail(b)) = m - (n + 1)
          /\ \A k \in 1..(m - (n + 1)) : Tail(b)[k] = b[k + 1]
      BY <2>1, <2>4
    <3>2. \A k \in 1..(m - (n + 1)) : k + 1 \in 1..(m - n) /\ n + (k + 1) = n + 1 + k
      OBVIOUS
    <3>3. \A k \in 1..(m - (n + 1)) : Tail(b)[k] = v[k]
      BY <2>4, <3>1, <3>2
    <3> QED
      BY <2>4, <3>1, <3>3, SeqEqual
  <2> QED
    BY <2>1, <2>6, <2>7 DEF a, b, u, v
<1> QED
  BY <1>2, <1>3

Emitted(kinds, s) == [k \in DOMAIN kinds |-> <<kinds[k], s>>]

\* What is emitted behind m events, so that there are q.
Follows(kinds, m, q) ==
  /\ kinds \in Seq(Phases) /\ q = m + Len(kinds) /\ q <= 4
  /\ \A k \in 1..Len(kinds) : kinds[k] = Kinds[m + k]

\* The events of an analysis, when some more are emitted.
LEMMA FromAdds ==
  ASSUME NEW s, NEW n, NEW m, Between(n, m), NEW kinds, NEW p, Follows(kinds, m, p)
  PROVE  From(s, n, m) \o Emitted(kinds, s) = From(s, n, p)
<1> DEFINE l == Len(kinds)
           new == Emitted(kinds, s)
           a == From(s, n, m)
           b == From(s, n, p)
<1>1. /\ l \in Nat /\ DOMAIN kinds = 1..l /\ Between(n, m) /\ Between(n, p) /\ p = m + l
      /\ n \in Nat /\ m \in Nat /\ n <= m
  BY DEF Between, Follows
<1>2. \A k \in 1..l : m + k \in 1..4 /\ kinds[k] = Kinds[m + k]
  BY <1>1 DEF Between, Follows
<1> HIDE DEF l
<1>3. /\ a \in Seq(Own(s)) /\ Len(a) = m - n /\ \A k \in 1..(m - n) : a[k] = <<Kinds[n + k], s>>
      /\ b \in Seq(Own(s)) /\ Len(b) = p - n /\ \A k \in 1..(p - n) : b[k] = <<Kinds[n + k], s>>
  <2>1. Between(n, m) /\ Between(n, p)
    BY <1>1
  <2> QED
    BY <2>1, FromIs
<1>4. new = [k \in 1..l |-> <<Kinds[m + k], s>>]
  BY <1>1, <1>2 DEF Emitted
<1>5. \A k \in 1..l : <<Kinds[m + k], s>> \in Own(s)
  BY <1>2 DEF Own
<1> HIDE DEF a, b, new
<1>6. new \in Seq(Own(s)) /\ Len(new) = l /\ \A k \in 1..l : new[k] = <<Kinds[m + k], s>>
  <2>1. new \in [1..l -> Own(s)] /\ \A k \in 1..l : new[k] = <<Kinds[m + k], s>>
    BY <1>4, <1>5
  <2>2. new \in Seq(Own(s)) /\ Len(new) = l
    BY <1>1, <2>1
  <2> QED
    BY <2>1, <2>2
<1>7. /\ a \o new \in Seq(Own(s)) /\ Len(a \o new) = (m - n) + l
      /\ \A k \in 1..((m - n) + l) :
           (a \o new)[k] = IF k <= m - n THEN a[k] ELSE new[k - (m - n)]
  <2>1. a \in Seq(Own(s)) /\ new \in Seq(Own(s))
    BY <1>3, <1>6
  <2>2. /\ a \o new \in Seq(Own(s)) /\ Len(a \o new) = Len(a) + Len(new)
        /\ \A k \in 1..(Len(a) + Len(new)) :
             (a \o new)[k] = IF k <= Len(a) THEN a[k] ELSE new[k - Len(a)]
    BY <2>1, ConcatProperties
  <2> QED
    BY <1>3, <1>6, <2>2
<1>8. ASSUME NEW k \in 1..(p - n) PROVE (a \o new)[k] = b[k]
  <2>1. k \in 1..((m - n) + l) /\ (k <= m - n => k \in 1..(m - n))
        /\ (k > m - n => k - (m - n) \in 1..l /\ m + (k - (m - n)) = n + k)
    BY <1>1
  <2>2. CASE k <= m - n
    BY <1>3, <1>7, <2>1, <2>2
  <2>3. CASE ~ (k <= m - n)
    <3>1. k - (m - n) \in 1..l /\ m + (k - (m - n)) = n + k
      BY <1>1, <2>1, <2>3
    <3>2. (a \o new)[k] = new[k - (m - n)]
      BY <1>7, <2>1, <2>3
    <3>3. new[k - (m - n)] = <<Kinds[n + k], s>>
      BY <1>6, <3>1
    <3> QED
      BY <1>3, <3>2, <3>3
  <2> QED
    BY <2>2, <2>3
<1>9. Len(a \o new) = p - n
  BY <1>1, <1>7
<1>10. a \o new = b
  BY <1>3, <1>7, <1>8, <1>9, SeqEqual
<1> QED
  BY <1>10 DEF a, b, new

\* Whoever begins alone is the only one that is going on.
LEMMA BeginsAlone ==
  ASSUME VisionInvariant, ~Overlap
  PROVE  OpenStreams = {} /\ Active = {}
BY DEF Overlap, Active

\* An analysis goes on by a step in which it emits something, behind the p events before.
LEMMA AnalysisUndisturbed ==
  ASSUME VisionInvariant, NEW c \in Calls, NEW place \in {"opening", "asking", "ok", "failed"},
         NEW p \in 0..4, NEW q \in 0..4, NEW kinds, Follows(kinds, p, q),
         AnalysisGoes(c, place), UNCHANGED <<stream, callback, saved, got, overlapped>>,
         Emit(kinds, c) \/ (inbox' = inbox /\ p = q),
         \/ analysis[c] = "created" /\ p = 0
         \/ analysis[c] \in {"opening", "asking"} /\ p = 2,
         place \in {"opening", "asking"} => q = 2
  PROVE  Undisturbed'
<1> SUFFICES ASSUME ~overlapped PROVE Undisturbed'
  BY DEF Undisturbed
<1>1. VisionTypeOK /\ Undisturbed
  BY DEF VisionInvariant
<1>2. OpenStreams' = OpenStreams
  BY DEF OpenStreams
<1>3. \A d \in Calls : analysis'[d] = IF d = c THEN place ELSE analysis[d]
  BY <1>1 DEF AnalysisGoes, VisionTypeOK
<1>4. c \in Active /\ Active' \subseteq Active
  BY <1>2, <1>3 DEF Active, Ended
<1>5. OpenStreams = {} \/ OpenStreams = {c}
  BY <1>1, <1>4 DEF Undisturbed, Active
<1>6. inbox' = inbox \/ inbox' = [inbox EXCEPT ![callback] = @ \o [k \in DOMAIN kinds |-> <<kinds[k], c>>]]
  BY DEF Emit
<1>7. OpenStreams = {} => inbox' = inbox
  BY <1>1 DEF Undisturbed, Emit
<1>8. ASSUME OpenStreams = {c} PROVE OwnEvents(c)' /\ \A s \in Streams \ {c} : inbox'[s] = inbox[s]
  <2>1. callback = c /\ c \in Streams /\ OwnEvents(c)
    BY <1>1, <1>8 DEF Undisturbed, OpenStreams
  <2>2. PICK n, m \in 0..4 :
          /\ n <= m
          /\ analysis[c] = "created" => m = 0
          /\ analysis[c] \in {"opening", "asking"} => m = 2
          /\ Body(c) = From(c, 0, n) /\ inbox[c] = From(c, n, m)
    BY <2>1 DEF OwnEvents
  <2>3. m = p
    BY <2>2
  <2>4. stream[c] # "ended" /\ callback # Original
    BY <1>8, <2>1, CallsAssumption DEF OpenStreams
  <2>5. inbox'[c] = From(c, n, q)
    <3>1. CASE Emit(kinds, c)
      <4>1. inbox' = [inbox EXCEPT ![c] = @ \o Emitted(kinds, c)]
        BY <2>1, <2>4, <3>1 DEF Emit, Emitted
      <4>2. inbox'[c] = From(c, n, m) \o Emitted(kinds, c)
        BY <1>1, <2>1, <2>2, <4>1 DEF VisionTypeOK
      <4>3. Between(n, m) /\ Follows(kinds, m, q)
        BY <2>2, <2>3 DEF Between
      <4> QED
        BY <4>2, <4>3, FromAdds
    <3>2. CASE inbox' = inbox /\ p = q
      BY <2>2, <2>3, <3>2
    <3> QED
      BY <3>1, <3>2
  <2>6. Body(c)' = Body(c)
    BY DEF Body
  <2>7. n <= q
    BY <2>2, <2>3 DEF Follows
  <2>8. analysis'[c] = place
    BY <1>3
  <2>9. OwnEvents(c)'
    BY <2>2, <2>3, <2>5, <2>6, <2>7, <2>8 DEF OwnEvents
  <2>10. \A s \in Streams \ {c} : inbox'[s] = inbox[s]
    BY <1>1, <1>6, <2>1 DEF VisionTypeOK
  <2> QED
    BY <2>9, <2>10
<1> QED
  BY <1>1, <1>2, <1>4, <1>5, <1>7, <1>8 DEF Undisturbed

\* A step of a stream that is open and stays so.
LEMMA StreamUndisturbed ==
  ASSUME VisionInvariant, NEW s \in Streams, NEW place \in OpenPlaces,
         stream[s] \in OpenPlaces, StreamGoes(s, place),
         UNCHANGED <<analysis, callback, saved, overlapped>>,
         \A u \in Streams \ {s} : inbox'[u] = inbox[u] /\ got'[u] = got[u],
         ~overlapped => OwnEvents(s)'
  PROVE  Undisturbed'
<1> SUFFICES ASSUME ~overlapped PROVE Undisturbed'
  BY DEF Undisturbed
<1>1. VisionTypeOK /\ Undisturbed
  BY DEF VisionInvariant
<1>2. OpenStreams' = OpenStreams /\ s \in OpenStreams
  BY <1>1, OpenSteps
<1>3. Active' = Active
  BY <1>2 DEF Active
<1>4. OpenStreams = {s}
  BY <1>1, <1>2 DEF Undisturbed, Active
<1> QED
  BY <1>1, <1>2, <1>3, <1>4 DEF Undisturbed

\* A stream ends, and there is no other.
LEMMA EndUndisturbed ==
  ASSUME VisionInvariant, NEW s \in Streams, stream[s] \in OpenPlaces, Restore(s)
  PROVE  Undisturbed'
<1> SUFFICES ASSUME ~overlapped PROVE Undisturbed'
  BY DEF Undisturbed, Restore
<1>1. VisionTypeOK /\ Undisturbed
  BY DEF VisionInvariant
<1>2. OpenStreams' = OpenStreams \ {s} /\ s \in OpenStreams
  BY <1>1, OpenSteps DEF Restore
<1>3. OpenStreams = {s}
  BY <1>1, <1>2 DEF Undisturbed, Active
<1>4. Active' \subseteq Active
  BY <1>2 DEF Active, Restore
<1>5. callback' = Original
  BY <1>1, <1>3 DEF Undisturbed, Restore
<1>6. \A u \in Streams : got'[u] = << >> /\ inbox'[u] = << >>
  BY <1>1, <1>3 DEF Undisturbed, Restore, VisionTypeOK
<1> QED
  BY <1>1, <1>2, <1>3, <1>4, <1>5, <1>6 DEF Undisturbed

\* An analysis that has emitted p events goes on, and has then emitted q.
EmitsNext(c, place, kinds, p, q) ==
  /\ place \in {"opening", "asking", "ok", "failed"} /\ p \in 0..4 /\ q \in 0..4
  /\ Follows(kinds, p, q) /\ AnalysisGoes(c, place)
  /\ Emit(kinds, c) \/ (inbox' = inbox /\ p = q)
  /\ \/ analysis[c] = "created" /\ p = 0
     \/ analysis[c] \in {"opening", "asking"} /\ p = 2
  /\ place \in {"opening", "asking"} => q = 2

\* The events that the steps of an analysis emit are the next ones of it.
LEMMA EmissionsFollow ==
  /\ Follows(<<"encoding", "sending">>, 0, 2)
  /\ Follows(<<"received", "diagnosis">>, 2, 4) /\ Follows(<<"received">>, 2, 3)
  /\ Follows(<< >>, 2, 2)
BY DEF Follows, Phases, Kinds

\* A step of an analysis.
LEMMA AnalysisStep ==
  ASSUME VisionInvariant, NEW c \in Calls, Analyze(c)
  PROVE  VisionInvariant'
<1>1. VisionTypeOK /\ CallbacksStacked /\ OutcomeIsLast
  BY DEF VisionInvariant
<1>2. UNCHANGED <<stream, callback, saved, got, overlapped, crossed>>
  BY DEF Analyze, Encode, Opened, Diagnose, RequestFails
<1> DEFINE sent == <<"encoding", "sending">>
           told == <<"received", "diagnosis">>
           heard == <<"received">>
           none == << >>
<1>3. PICK place, kinds, p, q : EmitsNext(c, place, kinds, p, q)
  <2>1. ASSUME Encode(c)
        PROVE  \E place \in {"opening", "asking", "failed"} :
                 EmitsNext(c, place, sent, 0, 2)
    BY <2>1, EmissionsFollow DEF Encode, EmitsNext
  <2>2. ASSUME Opened(c) PROVE EmitsNext(c, "asking", none, 2, 2)
    BY <2>2, EmissionsFollow DEF Opened, EmitsNext
  <2>3. ASSUME RequestFails(c) PROVE EmitsNext(c, "failed", none, 2, 2)
    BY <2>3, EmissionsFollow DEF RequestFails, EmitsNext
  <2>4. ASSUME Diagnose(c)
        PROVE  \/ EmitsNext(c, "ok", told, 2, 4)
               \/ EmitsNext(c, "failed", heard, 2, 3)
    BY <2>4, EmissionsFollow DEF Diagnose, EmitsNext
  <2> HIDE DEF sent, told, heard, none
  <2> QED
    BY <2>1, <2>2, <2>3, <2>4 DEF Analyze
<1> USE <1>3 DEF EmitsNext
<1>4. VisionTypeOK'
  <2>1. inbox' \in [Streams -> Seq(Messages)]
    <3>1. kinds \in Seq(Phases)
      BY <1>3 DEF Follows
    <3> QED
      BY <1>1, <1>3, <3>1, EmitTypes DEF VisionTypeOK
  <2> QED
    BY <1>1, <1>2, <1>3, <2>1 DEF VisionTypeOK, AnalysisGoes
<1>5. OpenStreams' = OpenStreams
  BY <1>2 DEF OpenStreams
<1>6. CallbacksStacked'
  BY <1>1, <1>2, <1>5, StackKept
<1>7. OutcomeIsLast'
  <2>1. \A d \in Calls : analysis[d] \in Ended => analysis'[d] = analysis[d]
    BY <1>1, <1>3 DEF VisionTypeOK, AnalysisGoes, Ended
  <2>2. Streams \subseteq Calls
    BY DEF Calls
  <2> QED
    BY <1>1, <1>2, <2>1, <2>2 DEF OutcomeIsLast, Outcome
<1>8. Undisturbed'
  BY <1>2, <1>3, AnalysisUndisturbed
<1> QED
  BY <1>4, <1>6, <1>7, <1>8 DEF VisionInvariant

\* A call that is just awaited begins.
LEMMA PlainStep ==
  ASSUME VisionInvariant, NEW c \in Plains, StartPlain(c)
  PROVE  VisionInvariant'
<1>1. VisionTypeOK /\ CallbacksStacked /\ OutcomeIsLast /\ Undisturbed /\ c \in Calls
  BY DEF VisionInvariant, Calls
<1>2. /\ UNCHANGED <<stream, callback, saved, inbox, got, crossed>>
      /\ analysis[c] = "idle" /\ analysis' = [analysis EXCEPT ![c] = "created"]
      /\ overlapped' = (overlapped \/ Overlap)
  BY DEF StartPlain, AnalysisGoes
<1>3. VisionTypeOK'
  <2>1. overlapped' \in BOOLEAN
    BY <1>2
  <2> QED
    BY <1>1, <1>2, <2>1 DEF VisionTypeOK
<1>4. OpenStreams' = OpenStreams
  BY <1>2 DEF OpenStreams
<1>5. CallbacksStacked'
  BY <1>1, <1>2, <1>4, StackKept
<1>6. OutcomeIsLast'
  <2>1. \A d \in Calls : analysis[d] \in Ended => analysis'[d] = analysis[d]
    BY <1>1, <1>2 DEF VisionTypeOK, Ended
  <2>2. Streams \subseteq Calls
    BY DEF Calls
  <2> QED
    BY <1>1, <1>2, <2>1, <2>2 DEF OutcomeIsLast, Outcome
<1>7. Undisturbed'
  <2> SUFFICES ASSUME ~overlapped, ~Overlap PROVE Undisturbed'
    BY <1>2 DEF Undisturbed
  <2>1. OpenStreams = {} /\ Active = {}
    BY BeginsAlone
  <2>2. Active' \subseteq {c}
    BY <1>1, <1>2, <1>4, <2>1 DEF Active, VisionTypeOK
  <2> QED
    BY <1>1, <1>2, <1>4, <2>1, <2>2 DEF Undisturbed
<1> QED
  BY <1>3, <1>5, <1>6, <1>7 DEF VisionInvariant

\* A stream begins.
LEMMA StreamStarts ==
  ASSUME VisionInvariant, NEW s \in Streams, StartStream(s)
  PROVE  VisionInvariant'
<1>1. VisionTypeOK /\ CallbacksStacked /\ OutcomeIsLast /\ Undisturbed /\ s \in Calls
  BY DEF VisionInvariant, Calls
<1>2. /\ UNCHANGED <<inbox, got, crossed>>
      /\ stream[s] = "off" /\ StreamGoes(s, "waiting")
      /\ analysis' = [analysis EXCEPT ![s] = "created"]
      /\ saved' = [saved EXCEPT ![s] = callback] /\ callback' = s
      /\ overlapped' = (overlapped \/ Overlap)
  BY DEF StartStream, AnalysisGoes
<1>3. VisionTypeOK'
  <2>1. overlapped' \in BOOLEAN
    BY <1>2
  <2> QED
    BY <1>1, <1>2, <2>1 DEF VisionTypeOK, StreamGoes
<1>4. OpenStreams' = OpenStreams \cup {s}
  BY <1>1, <1>2, OpenSteps DEF OpenPlaces
<1>5. CallbacksStacked'
  BY <1>1, StackPushed
<1>6. OutcomeIsLast'
  <2>1. \A u \in Streams : stream'[u] = "last" => u # s /\ stream[u] = "last" /\ analysis'[u] = analysis[u]
    BY <1>1, <1>2 DEF VisionTypeOK, StreamGoes, Calls
  <2> QED
    BY <1>1, <1>2, <2>1 DEF OutcomeIsLast, Outcome
<1>7. Undisturbed'
  <2> SUFFICES ASSUME ~overlapped, ~Overlap PROVE Undisturbed'
    BY <1>2 DEF Undisturbed
  <2>1. OpenStreams = {} /\ Active = {}
    BY BeginsAlone
  <2>2. Active' \subseteq {s}
    BY <1>1, <1>2, <1>4, <2>1 DEF Active, VisionTypeOK
  <2>3. got'[s] = << >> /\ inbox'[s] = << >> /\ stream'[s] = "waiting" /\ analysis'[s] = "created"
    BY <1>1, <1>2, <2>1 DEF Undisturbed, StreamGoes, VisionTypeOK
  <2>4. From(s, 0, 0) = << >> /\ 0 \in 0..4
    <3>1. 0 \in 0..4 /\ 0 <= 0
      OBVIOUS
    <3> QED
      BY <3>1, FromFacts
  <2>5. OwnEvents(s)'
    BY <2>3, <2>4 DEF OwnEvents, Body
  <2>6. callback' = s /\ saved'[s] = Original
    BY <1>1, <1>2, <2>1 DEF Undisturbed, VisionTypeOK
  <2> QED
    BY <1>1, <1>2, <1>4, <2>1, <2>2, <2>5, <2>6 DEF Undisturbed
<1> QED
  BY <1>3, <1>5, <1>6, <1>7 DEF VisionInvariant

\* A stream yields the next event of its queue.
LEMMA ReceiveStep ==
  ASSUME VisionInvariant, NEW s \in Streams, Receive(s)
  PROVE  VisionInvariant'
<1>1. VisionTypeOK /\ CallbacksStacked /\ OutcomeIsLast /\ Undisturbed
  BY DEF VisionInvariant
<1>2. /\ stream[s] = "waiting" /\ inbox[s] # << >> /\ StreamGoes(s, "yielded")
      /\ got' = [got EXCEPT ![s] = Append(@, Head(inbox[s]))]
      /\ inbox' = [inbox EXCEPT ![s] = Tail(@)]
      /\ UNCHANGED <<callback, analysis, saved, overlapped, crossed>>
  BY DEF Receive, Yield
<1>3. /\ inbox[s] \in Seq(Messages) /\ Head(inbox[s]) \in Messages /\ Tail(inbox[s]) \in Seq(Messages)
      /\ got[s] \in Seq(Messages) /\ Append(got[s], Head(inbox[s])) \in Seq(Messages)
  BY <1>1, <1>2 DEF VisionTypeOK
<1>4. VisionTypeOK'
  BY <1>1, <1>2, <1>3 DEF VisionTypeOK, StreamGoes
<1>5. OpenStreams' = OpenStreams /\ s \in OpenStreams
  BY <1>1, <1>2, OpenSteps DEF OpenPlaces
<1>6. CallbacksStacked'
  BY <1>1, <1>2, <1>5, StackKept
<1>7. OutcomeIsLast'
  <2>1. \A u \in Streams : stream'[u] = "last" => stream[u] = "last" /\ got'[u] = got[u]
    BY <1>1, <1>2 DEF VisionTypeOK, StreamGoes
  <2> QED
    BY <1>1, <1>2, <2>1 DEF OutcomeIsLast, Outcome
<1>8. Undisturbed'
  <2>1. ASSUME ~overlapped PROVE OwnEvents(s)'
    <3>1. PICK n, m \in 0..4 :
            /\ n <= m
            /\ analysis[s] = "created" => m = 0
            /\ analysis[s] \in {"opening", "asking"} => m = 2
            /\ Body(s) = From(s, 0, n) /\ inbox[s] = From(s, n, m)
      BY <1>1, <1>5, <2>1 DEF Undisturbed, OwnEvents
    <3>2. /\ n < m /\ Append(From(s, 0, n), Head(inbox[s])) = From(s, 0, n + 1)
          /\ Tail(inbox[s]) = From(s, n + 1, m)
      <4>1. From(s, n, m) # << >>
        BY <1>2, <3>1
      <4>2. /\ n < m /\ Append(From(s, 0, n), Head(From(s, n, m))) = From(s, 0, n + 1)
            /\ Tail(From(s, n, m)) = From(s, n + 1, m)
        BY <3>1, <4>1, FromFacts
      <4> QED
        BY <3>1, <4>2
    <3>3. got[s] = From(s, 0, n)
      BY <1>2, <3>1 DEF Body
    <3>4. stream'[s] = "yielded" /\ got'[s] = From(s, 0, n + 1) /\ inbox'[s] = From(s, n + 1, m)
      BY <1>1, <1>2, <3>2, <3>3 DEF VisionTypeOK, StreamGoes
    <3>5. n + 1 \in 0..4 /\ n + 1 <= m
      BY <3>2
    <3> QED
      BY <1>2, <3>1, <3>4, <3>5 DEF OwnEvents, Body
  <2>2. \A u \in Streams \ {s} : inbox'[u] = inbox[u] /\ got'[u] = got[u]
    BY <1>1, <1>2 DEF VisionTypeOK
  <2>3. "yielded" \in OpenPlaces /\ stream[s] \in OpenPlaces
    BY <1>2 DEF OpenPlaces
  <2> QED
    BY <1>2, <2>1, <2>2, <2>3, StreamUndisturbed
<1> QED
  BY <1>4, <1>6, <1>7, <1>8 DEF VisionInvariant

\* The reader goes on, a time without events is over, and was looked into in vain.
LEMMA WaitStep ==
  ASSUME VisionInvariant, NEW s \in Streams, NEW place \in {"waiting", "timed_out"},
         stream[s] \in {"yielded", "waiting", "timed_out"}, StreamGoes(s, place),
         UNCHANGED <<callback, analysis, saved, inbox, got, overlapped, crossed>>
  PROVE  VisionInvariant'
<1>1. VisionTypeOK /\ CallbacksStacked /\ OutcomeIsLast /\ Undisturbed
  BY DEF VisionInvariant
<1>2. VisionTypeOK'
  BY <1>1 DEF VisionTypeOK, StreamGoes
<1>3. OpenStreams' = OpenStreams /\ s \in OpenStreams
  BY <1>1, OpenSteps DEF OpenPlaces
<1>4. CallbacksStacked'
  BY <1>1, <1>3, StackKept
<1>5. \A u \in Streams : stream'[u] = "last" <=> stream[u] = "last"
  BY <1>1 DEF VisionTypeOK, StreamGoes
<1>6. OutcomeIsLast'
  BY <1>1, <1>5 DEF OutcomeIsLast, Outcome
<1>7. Undisturbed'
  <2>1. OwnEvents(s) => OwnEvents(s)'
    BY <1>5 DEF OwnEvents, Body
  <2>2. ~overlapped => OwnEvents(s)
    BY <1>1, <1>3 DEF Undisturbed
  <2>3. place \in OpenPlaces /\ stream[s] \in OpenPlaces
    BY DEF OpenPlaces
  <2> QED
    BY <2>1, <2>2, <2>3, StreamUndisturbed
<1> QED
  BY <1>2, <1>4, <1>6, <1>7 DEF VisionInvariant

\* The analysis is over: its outcome is the last event.
LEMMA LastStep ==
  ASSUME VisionInvariant, NEW s \in Streams, Check(s), analysis[s] \in Ended
  PROVE  VisionInvariant'
<1>1. VisionTypeOK /\ CallbacksStacked /\ OutcomeIsLast /\ Undisturbed
  BY DEF VisionInvariant
<1> DEFINE e == <<Outcome(s), s>>
<1>2. /\ stream[s] = "timed_out" /\ StreamGoes(s, "last")
      /\ got' = [got EXCEPT ![s] = Append(@, e)]
      /\ UNCHANGED <<callback, analysis, saved, inbox, overlapped, crossed>>
  BY DEF Check, Yield
<1>3. e \in Messages
  BY DEF Outcome, Messages, Calls
<1> HIDE DEF e
<1>4. /\ got[s] \in Seq(Messages) /\ Append(got[s], e) \in Seq(Messages)
      /\ Append(got[s], e) # << >> /\ Append(got[s], e)[Len(Append(got[s], e))] = e
      /\ Front(Append(got[s], e)) = got[s]
  <2>1. got[s] \in Seq(Messages)
    BY <1>1 DEF VisionTypeOK
  <2> DEFINE g == got[s]
             f == SubSeq(Append(g, e), 1, Len(Append(g, e)) - 1)
  <2> HIDE DEF g
  <2>2. g \in Seq(Messages)
    BY <2>1 DEF g
  <2>3. /\ Append(g, e) \in Seq(Messages) /\ Len(Append(g, e)) = Len(g) + 1 /\ Len(g) \in Nat
        /\ Append(g, e) # << >> /\ Append(g, e)[Len(g) + 1] = e
        /\ \A k \in 1..Len(g) : Append(g, e)[k] = g[k]
    BY <1>3, <2>2, AppendProperties
  <2>4. f \in Seq(Messages) /\ Len(f) = Len(g) /\ \A k \in 1..Len(g) : f[k] = g[k]
    BY <2>3
  <2>5. Front(Append(g, e)) = f
    BY DEF Front
  <2> HIDE DEF f
  <2>6. f = g
    BY <2>2, <2>4, SeqEqual
  <2> QED
    BY <2>2, <2>3, <2>5, <2>6 DEF g
<1>5. VisionTypeOK'
  BY <1>1, <1>2, <1>4 DEF VisionTypeOK, StreamGoes
<1>6. OpenStreams' = OpenStreams /\ s \in OpenStreams
  BY <1>1, <1>2, OpenSteps DEF OpenPlaces
<1>7. CallbacksStacked'
  BY <1>1, <1>2, <1>6, StackKept
<1>8. stream'[s] = "last" /\ got'[s] = Append(got[s], e)
  BY <1>1, <1>2 DEF VisionTypeOK, StreamGoes
<1>9. OutcomeIsLast'
  <2>1. \A u \in Streams \ {s} : stream'[u] = stream[u] /\ got'[u] = got[u]
    BY <1>1, <1>2 DEF VisionTypeOK, StreamGoes
  <2>2. \A u \in Streams : Outcome(u)' = Outcome(u)
    BY <1>2 DEF Outcome
  <2> QED
    BY <1>1, <1>2, <1>4, <1>8, <2>1, <2>2 DEF OutcomeIsLast, e
<1>10. Undisturbed'
  <2>1. Body(s)' = Body(s)
    BY <1>2, <1>4, <1>8 DEF Body
  <2>2. ~overlapped => OwnEvents(s)'
    BY <1>1, <1>2, <1>6, <2>1 DEF Undisturbed, OwnEvents
  <2>3. \A u \in Streams \ {s} : inbox'[u] = inbox[u] /\ got'[u] = got[u]
    BY <1>1, <1>2 DEF VisionTypeOK
  <2>4. "last" \in OpenPlaces /\ stream[s] \in OpenPlaces
    BY <1>2 DEF OpenPlaces
  <2> QED
    BY <1>2, <2>2, <2>3, <2>4, StreamUndisturbed
<1> QED
  BY <1>5, <1>7, <1>9, <1>10 DEF VisionInvariant

\* A stream ends, or its reader leaves it.
LEMMA EndStep ==
  ASSUME VisionInvariant, NEW s \in Streams, stream[s] \in OpenPlaces, Restore(s)
  PROVE  VisionInvariant'
<1>1. VisionTypeOK /\ CallbacksStacked /\ OutcomeIsLast
  BY DEF VisionInvariant
<1>2. VisionTypeOK'
  <2>1. crossed' \in BOOLEAN
    BY <1>1 DEF Restore, VisionTypeOK
  <2> QED
    BY <1>1, <2>1 DEF VisionTypeOK, Restore, StreamGoes
<1>3. CallbacksStacked'
  BY <1>1, StackPopped
<1>4. OutcomeIsLast'
  <2>1. \A u \in Streams : stream'[u] = "last" => stream[u] = "last" /\ got'[u] = got[u]
    BY <1>1 DEF VisionTypeOK, Restore, StreamGoes
  <2> QED
    BY <1>1, <2>1 DEF OutcomeIsLast, Outcome, Restore
<1>5. Undisturbed'
  BY EndUndisturbed
<1> QED
  BY <1>2, <1>3, <1>4, <1>5 DEF VisionInvariant

\* No call has begun.
LEMMA VisionBegins == VisionInit => VisionInvariant
<1> SUFFICES ASSUME VisionInit PROVE VisionInvariant
  OBVIOUS
<1>1. VisionTypeOK
  <2>1. << >> \in Seq(Messages)
    OBVIOUS
  <2> QED
    BY <2>1 DEF VisionInit, VisionTypeOK, Calls
<1>2. OpenStreams = {} /\ Active = {}
  BY DEF VisionInit, OpenStreams, Active, Calls
<1>3. CallbacksStacked
  <2> DEFINE o == << >>
  <2>1. o \in Seq(Streams) /\ DOMAIN o = {} /\ o = << >>
    OBVIOUS
  <2> HIDE DEF o
  <2>2. InOrder(o)
    BY <1>2, <2>1 DEF InOrder, VisionInit
  <2> QED
    BY <2>1, <2>2 DEF CallbacksStacked
<1>4. OutcomeIsLast
  BY DEF VisionInit, OutcomeIsLast
<1>5. Undisturbed
  BY <1>2 DEF Undisturbed, VisionInit
<1> QED
  BY <1>1, <1>3, <1>4, <1>5 DEF VisionInvariant

\* A step without any change.
LEMMA VisionRests == VisionInvariant /\ UNCHANGED visionVars => VisionInvariant'
<1> SUFFICES ASSUME VisionInvariant, UNCHANGED visionVars PROVE VisionInvariant'
  OBVIOUS
<1> USE DEF visionVars, VisionInvariant
<1>1. OpenStreams' = OpenStreams /\ Active' = Active
  BY DEF OpenStreams, Active
<1>2. VisionTypeOK'
  BY DEF VisionTypeOK
<1>3. CallbacksStacked'
  BY <1>1, StackKept
<1>4. OutcomeIsLast'
  BY DEF OutcomeIsLast, Outcome
<1>5. \A s \in Streams : OwnEvents(s) => OwnEvents(s)'
  BY DEF OwnEvents, Body
<1>6. Undisturbed'
  BY <1>1, <1>5 DEF Undisturbed, OpenStreams
<1> QED
  BY <1>2, <1>3, <1>4, <1>6

\* One step for each kind of action.
LEMMA VisionGoesOn == VisionInvariant /\ [VisionNext]_visionVars => VisionInvariant'
<1> SUFFICES ASSUME VisionInvariant, [VisionNext]_visionVars PROVE VisionInvariant'
  OBVIOUS
<1>1. ASSUME NEW c \in Plains, StartPlain(c) PROVE VisionInvariant'
  BY <1>1, PlainStep
<1>2. ASSUME NEW c \in Calls, Analyze(c) PROVE VisionInvariant'
  BY <1>2, AnalysisStep
<1>3. ASSUME NEW s \in Streams, StartStream(s) PROVE VisionInvariant'
  BY <1>3, StreamStarts
<1>4. ASSUME NEW s \in Streams, Receive(s) PROVE VisionInvariant'
  BY <1>4, ReceiveStep
<1>5. ASSUME NEW s \in Streams, GoOn(s) \/ TimeOut(s) \/ (Check(s) /\ analysis[s] \notin Ended)
      PROVE  VisionInvariant'
  BY <1>5, WaitStep DEF GoOn, TimeOut, Check
<1>6. ASSUME NEW s \in Streams, Check(s), analysis[s] \in Ended PROVE VisionInvariant'
  BY <1>6, LastStep
<1>7. ASSUME NEW s \in Streams, EndStream(s) \/ Abandon(s) PROVE VisionInvariant'
  <2>1. stream[s] \in OpenPlaces /\ Restore(s)
    BY <1>7 DEF EndStream, Abandon, OpenPlaces
  <2> QED
    BY <2>1, EndStep
<1> QED
  BY <1>1, <1>2, <1>3, <1>4, <1>5, <1>6, <1>7, VisionRests DEF VisionNext, StreamStep

\* The streams' callbacks, outcomes and events are in order.
THEOREM VisionInvariance == VisionSpec => []VisionInvariant
BY VisionBegins, VisionGoesOn, PTL DEF VisionSpec

\* The agent's own callback comes back.
THEOREM CallbackComesBack == VisionSpec => []CallbackRestored
<1>1. VisionInvariant => CallbackRestored
  <2> SUFFICES ASSUME VisionInvariant, OpenStreams = {}, ~crossed PROVE callback = Original
    BY DEF CallbackRestored
  <2>1. PICK o \in Seq(Streams) : InOrder(o)
    BY DEF VisionInvariant, CallbacksStacked
  <2>2. o = << >>
    <3>1. {o[k] : k \in DOMAIN o} = {}
      BY <2>1 DEF InOrder
    <3>2. DOMAIN o = {} /\ DOMAIN o = 1..Len(o) /\ Len(o) \in Nat
      BY <3>1
    <3>3. Len(o) = 0
      BY <3>2
    <3> QED
      BY <3>3
  <2> QED
    BY <2>1, <2>2 DEF InOrder
<1> QED
  BY <1>1, VisionInvariance, PTL

\* A stream's last event is its own outcome, and without overlaps the others are
\* its own events, in order.
THEOREM OwnOutcomes == VisionSpec => []OutcomeIsOwn
<1>1. VisionInvariant => OutcomeIsOwn
  <2> SUFFICES ASSUME VisionInvariant, NEW s \in Streams
               PROVE  /\ stream[s] = "last" => got[s][Len(got[s])] = <<Outcome(s), s>>
                      /\ ~overlapped => Body(s) = [k \in 1..Len(Body(s)) |-> <<Kinds[k], s>>]
    BY DEF OutcomeIsOwn, Outcome, Body
  <2>1. stream[s] = "last" => got[s][Len(got[s])] = <<Outcome(s), s>>
    BY DEF VisionInvariant, OutcomeIsLast
  <2>2. ASSUME ~overlapped PROVE \E n \in 0..4 : Body(s) = From(s, 0, n)
    <3>1. CASE s \in OpenStreams
      BY <2>2, <3>1 DEF VisionInvariant, Undisturbed, OwnEvents
    <3>2. CASE s \notin OpenStreams
      <4>1. got[s] = << >> /\ stream[s] # "last"
        BY <2>2, <3>2 DEF VisionInvariant, Undisturbed, OpenStreams
      <4>2. 0 \in 0..4 /\ From(s, 0, 0) = << >>
        <5>1. 0 \in 0..4 /\ 0 <= 0
          OBVIOUS
        <5> QED
          BY <5>1, FromFacts
      <4> QED
        BY <4>1, <4>2 DEF Body
    <3> QED
      BY <3>1, <3>2
  <2>3. ASSUME NEW n \in 0..4 PROVE From(s, 0, n) = [k \in 1..Len(From(s, 0, n)) |-> <<Kinds[k], s>>]
    <3>1. Between(0, n)
      BY DEF Between
    <3>2. Len(From(s, 0, n)) = n - 0
      BY <3>1, FromIs
    <3>3. From(s, 0, n) = [k \in 1..(n - 0) |-> <<Kinds[0 + k], s>>]
      BY DEF From
    <3>4. [k \in 1..(n - 0) |-> <<Kinds[0 + k], s>>] = [k \in 1..n |-> <<Kinds[k], s>>]
      OBVIOUS
    <3> QED
      BY <3>2, <3>3, <3>4
  <2> QED
    BY <2>1, <2>2, <2>3
<1> QED
  BY <1>1, VisionInvariance, PTL

-----------------------------------------------------------------------------
(* The delimited block. *)

Fields == {"summary", "severity", "root_cause"}

IsMark(lines, m) == lines[m] \in Headers \cup {"actions"}

\* The block goes as far as the first end.
InBlock(lines, k) == \A e \in 1..k : lines[e] # "end"

IsItem(lines, k) == lines[k] = "item" /\ \E a \in 1..(k - 1) : lines[a] = "actions"

\* m is the last mark up to k.
LastMark(lines, m, k) ==
  m \in 1..k /\ IsMark(lines, m) /\ \A l \in (m + 1)..k : ~ IsMark(lines, l)

\* Of the first k lines those that the latest header of a field brings together.
Part(lines, k, f) ==
  {j \in 1..k : /\ InBlock(lines, j) /\ ~ IsItem(lines, j)
                /\ \E m \in 1..j : /\ LastMark(lines, m, j) /\ FieldOf(lines[m]) = f
                                   /\ \A l \in (m + 1)..k :
                                        InBlock(lines, l) /\ IsMark(lines, l) => FieldOf(lines[l]) # f}

Items(lines, k) == {j \in 1..k : InBlock(lines, j) /\ IsItem(lines, j)}

ParserState ==
  [field : Fields \cup {"none"}, value : SUBSET Nat, inActions : BOOLEAN, over : BOOLEAN,
   actions : SUBSET Nat, result : [Fields -> SUBSET Nat]]

\* What the loop knows after k lines.
Parsed(lines, k, p) ==
  /\ p \in ParserState
  /\ p.over <=> ~ InBlock(lines, k)
  /\ p.over \/ (p.inActions <=> \E a \in 1..k : lines[a] = "actions")
  /\ p.over => p.field = "none"
  /\ p.over \/ p.field # "none" \/ \A m \in 1..k : LastMark(lines, m, k) => lines[m] = "actions"
  /\ p.field = "none" \/ \E m \in 1..k : LastMark(lines, m, k) /\ FieldOf(lines[m]) = p.field
  /\ p.actions = Items(lines, k)
  /\ \A f \in Fields : Flush(p).result[f] = Part(lines, k, f)

LEMMA FlushProperties ==
  ASSUME NEW p \in ParserState
  PROVE  /\ Flush(p) \in ParserState /\ Flush(p).field = "none" /\ Flush(Flush(p)) = Flush(p)
         /\ Flush(p).inActions = p.inActions /\ Flush(p).over = p.over /\ Flush(p).actions = p.actions
         /\ \A f \in Fields : Flush(p).result[f] = IF f = p.field THEN p.value ELSE p.result[f]
<1>1. /\ p.field \in Fields \cup {"none"} /\ p.value \in SUBSET Nat /\ p.inActions \in BOOLEAN
      /\ p.over \in BOOLEAN /\ p.actions \in SUBSET Nat /\ p.result \in [Fields -> SUBSET Nat]
      /\ "none" \notin Fields
  BY DEF ParserState, Fields
<1>2. CASE p.field = "none"
  BY <1>1, <1>2 DEF Flush
<1>3. CASE p.field # "none"
  <2> DEFINE r == [p.result EXCEPT ![p.field] = p.value]
  <2>1. r \in [Fields -> SUBSET Nat] /\ \A f \in Fields : r[f] = IF f = p.field THEN p.value ELSE p.result[f]
    BY <1>1, <1>3
  <2>2. Flush(p) = [p EXCEPT !.result = r, !.field = "none", !.value = {}]
    BY <1>3 DEF Flush
  <2> HIDE DEF r
  <2>3. /\ Flush(p) \in ParserState /\ Flush(p).field = "none" /\ Flush(p).result = r
        /\ Flush(p).inActions = p.inActions /\ Flush(p).over = p.over /\ Flush(p).actions = p.actions
    BY <2>1, <2>2 DEF ParserState
  <2>4. Flush(Flush(p)) = Flush(p)
    BY <2>3 DEF Flush
  <2> QED
    BY <2>1, <2>3, <2>4
<1> QED
  BY <1>2, <1>3

\* The next line changes the parts only if it belongs to one.
LEMMA PartGrows ==
  ASSUME NEW lines, NEW k \in Nat \ {0}, NEW f \in Fields
  PROVE  /\ Part(lines, k, f) \subseteq 1..k
         /\ ~ InBlock(lines, k) => Part(lines, k, f) = Part(lines, k - 1, f)
         /\ InBlock(lines, k) /\ ~ IsMark(lines, k)
              /\ (IsItem(lines, k) \/ \A m \in 1..(k - 1) : LastMark(lines, m, k - 1) => FieldOf(lines[m]) # f)
              => Part(lines, k, f) = Part(lines, k - 1, f)
         /\ InBlock(lines, k) /\ ~ IsMark(lines, k) /\ ~ IsItem(lines, k)
              /\ (\E m \in 1..(k - 1) : LastMark(lines, m, k - 1) /\ FieldOf(lines[m]) = f)
              => Part(lines, k, f) = Part(lines, k - 1, f) \cup {k}
         /\ InBlock(lines, k) /\ IsMark(lines, k) /\ FieldOf(lines[k]) # f
              => Part(lines, k, f) = Part(lines, k - 1, f)
         /\ InBlock(lines, k) /\ IsMark(lines, k) /\ FieldOf(lines[k]) = f /\ ~ IsItem(lines, k)
              => Part(lines, k, f) = {k}
<1> DEFINE Fits(j, n) ==
             /\ InBlock(lines, j) /\ ~ IsItem(lines, j)
             /\ \E m \in 1..j : /\ LastMark(lines, m, j) /\ FieldOf(lines[m]) = f
                                /\ \A l \in (m + 1)..n :
                                     InBlock(lines, l) /\ IsMark(lines, l) => FieldOf(lines[l]) # f
<1>1. /\ Part(lines, k, f) = {j \in 1..k : Fits(j, k)}
      /\ Part(lines, k - 1, f) = {j \in 1..(k - 1) : Fits(j, k - 1)}
  BY DEF Part
\* One line more rules out nothing, unless it is a header of the field.
<1>2. ASSUME ~ (InBlock(lines, k) /\ IsMark(lines, k) /\ FieldOf(lines[k]) = f), NEW j \in 1..(k - 1)
      PROVE  Fits(j, k) <=> Fits(j, k - 1)
  <2>1. ASSUME NEW m \in 1..j
        PROVE  (\A l \in (m + 1)..k : InBlock(lines, l) /\ IsMark(lines, l) => FieldOf(lines[l]) # f)
               <=> (\A l \in (m + 1)..(k - 1) : InBlock(lines, l) /\ IsMark(lines, l) => FieldOf(lines[l]) # f)
    <3>1. \A l \in (m + 1)..k : l \in (m + 1)..(k - 1) \/ l = k
      OBVIOUS
    <3>2. \A l \in (m + 1)..(k - 1) : l \in (m + 1)..k
      OBVIOUS
    <3> QED
      BY <1>2, <3>1, <3>2
  <2> QED
    BY <2>1
<1>3. Part(lines, k, f) \subseteq 1..k
  BY <1>1
<1>4. ASSUME ~ InBlock(lines, k) PROVE Part(lines, k, f) = Part(lines, k - 1, f)
  <2>1. ~ Fits(k, k)
    BY <1>4
  <2>2. \A j \in 1..(k - 1) : Fits(j, k) <=> Fits(j, k - 1)
    BY <1>2, <1>4
  <2> HIDE DEF Fits
  <2>3. \A j \in 1..k : j \in 1..(k - 1) \/ j = k
    OBVIOUS
  <2> QED
    BY <1>1, <2>1, <2>2, <2>3
\* The last mark up to a line that is none is the one before.
<1>5. ASSUME ~ IsMark(lines, k), NEW m \in 1..k
      PROVE  LastMark(lines, m, k) <=> m \in 1..(k - 1) /\ LastMark(lines, m, k - 1)
  <2>1. m = k => ~ LastMark(lines, m, k)
    BY <1>5 DEF LastMark
  <2>2. \A l \in (m + 1)..k : l \in (m + 1)..(k - 1) \/ l = k
    OBVIOUS
  <2>3. \A l \in (m + 1)..(k - 1) : l \in (m + 1)..k
    OBVIOUS
  <2> QED
    BY <1>5, <2>1, <2>2, <2>3 DEF LastMark
<1>6. ASSUME ~ IsMark(lines, k),
             IsItem(lines, k) \/ \A m \in 1..(k - 1) : LastMark(lines, m, k - 1) => FieldOf(lines[m]) # f
      PROVE  Part(lines, k, f) = Part(lines, k - 1, f)
  <2>1. ~ Fits(k, k)
    BY <1>5, <1>6
  <2>2. \A j \in 1..(k - 1) : Fits(j, k) <=> Fits(j, k - 1)
    BY <1>2, <1>6
  <2> HIDE DEF Fits
  <2>3. \A j \in 1..k : j \in 1..(k - 1) \/ j = k
    OBVIOUS
  <2> QED
    BY <1>1, <2>1, <2>2, <2>3
<1>7. ASSUME InBlock(lines, k), ~ IsMark(lines, k), ~ IsItem(lines, k),
             NEW m \in 1..(k - 1), LastMark(lines, m, k - 1), FieldOf(lines[m]) = f
      PROVE  Part(lines, k, f) = Part(lines, k - 1, f) \cup {k}
  <2>1. Fits(k, k)
    <3>1. m \in 1..k /\ LastMark(lines, m, k)
      BY <1>5, <1>7
    <3>2. \A l \in (m + 1)..k : ~ IsMark(lines, l)
      BY <3>1 DEF LastMark
    <3> QED
      BY <1>7, <3>1, <3>2
  <2>2. \A j \in 1..(k - 1) : Fits(j, k) <=> Fits(j, k - 1)
    BY <1>2, <1>7
  <2> HIDE DEF Fits
  <2>3. \A j \in 1..k : j \in 1..(k - 1) \/ j = k
    OBVIOUS
  <2>4. k \in 1..k /\ \A j \in 1..(k - 1) : j \in 1..k
    OBVIOUS
  <2> QED
    BY <1>1, <2>1, <2>2, <2>3, <2>4
<1>8. ASSUME IsMark(lines, k), FieldOf(lines[k]) # f
      PROVE  Part(lines, k, f) = Part(lines, k - 1, f)
  <2>1. ~ Fits(k, k)
    <3> SUFFICES ASSUME NEW m \in 1..k, LastMark(lines, m, k), FieldOf(lines[m]) = f PROVE FALSE
      OBVIOUS
    <3>1. m # k
      BY <1>8
    <3>2. k \in (m + 1)..k
      BY <3>1
    <3> QED
      BY <1>8, <3>2 DEF LastMark
  <2>2. \A j \in 1..(k - 1) : Fits(j, k) <=> Fits(j, k - 1)
    BY <1>2, <1>8
  <2> HIDE DEF Fits
  <2>3. \A j \in 1..k : j \in 1..(k - 1) \/ j = k
    OBVIOUS
  <2>4. \A j \in 1..(k - 1) : j \in 1..k
    OBVIOUS
  <2> QED
    BY <1>1, <2>1, <2>2, <2>3, <2>4
<1>9. ASSUME InBlock(lines, k), IsMark(lines, k), FieldOf(lines[k]) = f, ~ IsItem(lines, k)
      PROVE  Part(lines, k, f) = {k}
  <2>1. Fits(k, k)
    <3>1. k \in 1..k /\ LastMark(lines, k, k)
      BY <1>9 DEF LastMark
    <3> QED
      BY <1>9, <3>1
  <2>2. ASSUME NEW j \in 1..(k - 1) PROVE ~ Fits(j, k)
    <3>1. \A m \in 1..j : k \in (m + 1)..k
      OBVIOUS
    <3> QED
      BY <1>9, <3>1
  <2> HIDE DEF Fits
  <2>3. \A j \in 1..k : j \in 1..(k - 1) \/ j = k
    OBVIOUS
  <2>4. k \in 1..k
    OBVIOUS
  <2> QED
    BY <1>1, <2>1, <2>2, <2>3, <2>4
<1> HIDE DEF Fits
<1> QED
  BY <1>3, <1>4, <1>6, <1>7, <1>8, <1>9

\* What a turn of the loop makes of each kind of line.
LEMMA TurnIs ==
  ASSUME NEW p \in ParserState, NEW k \in Nat, NEW line \in Lines
  PROVE  LET q == ParseLine(p, k, line)
         IN  /\ q \in ParserState
             /\ p.over => q = p
             /\ ~ p.over /\ line = "end" =>
                  /\ q.over /\ q.field = "none" /\ q.actions = p.actions
                  /\ Flush(q).result = Flush(p).result
             /\ ~ p.over /\ line \in Headers =>
                  /\ ~ q.over /\ q.field = FieldOf(line) /\ q.value = {k} /\ q.inActions = p.inActions
                  /\ q.actions = p.actions /\ q.result = Flush(p).result
             /\ ~ p.over /\ line = "actions" =>
                  /\ ~ q.over /\ q.field = "none" /\ q.inActions /\ q.actions = p.actions
                  /\ Flush(q).result = Flush(p).result
             /\ ~ p.over /\ line = "item" /\ p.inActions =>
                  /\ ~ q.over /\ q.field = p.field /\ q.inActions = p.inActions
                  /\ q.actions = p.actions \cup {k} /\ q.value = p.value /\ q.result = p.result
             /\ ~ p.over /\ (line = "text" \/ (line = "item" /\ ~ p.inActions)) =>
                  /\ ~ q.over /\ q.field = p.field /\ q.inActions = p.inActions
                  /\ q.actions = p.actions /\ q.result = p.result
                  /\ q.value = IF p.field = "none" THEN p.value ELSE p.value \cup {k}
<1> DEFINE q == ParseLine(p, k, line)
           e == [Flush(p) EXCEPT !.over = TRUE]
           h == [Flush(p) EXCEPT !.field = FieldOf(line), !.value = {k}]
           a == [Flush(p) EXCEPT !.inActions = TRUE]
           i == [p EXCEPT !.actions = @ \cup {k}]
           v == IF p.field = "none" THEN p ELSE [p EXCEPT !.value = @ \cup {k}]
<1>1. /\ line \in Headers \cup {"actions", "item", "text", "end"}
      /\ {"actions", "item", "text", "end"} \cap Headers = {}
      /\ \A l \in Headers : FieldOf(l) \in Fields
  BY DEF Lines, Headers, FieldOf, Fields
<1>2. /\ p.over => q = p
      /\ ~ p.over /\ line = "end" => q = e
      /\ ~ p.over /\ line \in Headers => q = h
      /\ ~ p.over /\ line = "actions" => q = a
      /\ ~ p.over /\ line = "item" /\ p.inActions => q = i
      /\ ~ p.over /\ (line = "text" \/ (line = "item" /\ ~ p.inActions)) => q = v
  BY <1>1 DEF ParseLine
<1>3. /\ Flush(p) \in ParserState /\ Flush(p).field = "none" /\ Flush(Flush(p)) = Flush(p)
      /\ Flush(p).inActions = p.inActions /\ Flush(p).over = p.over /\ Flush(p).actions = p.actions
  BY FlushProperties
<1>4. /\ e \in ParserState /\ e.over /\ e.field = "none" /\ e.actions = p.actions
      /\ Flush(e).result = Flush(p).result
  <2>1. e \in ParserState /\ e.over /\ e.field = "none" /\ e.actions = p.actions /\ e.result = Flush(p).result
    BY <1>3 DEF ParserState
  <2> QED
    BY <2>1 DEF Flush
<1>5. /\ a \in ParserState /\ a.over = p.over /\ a.field = "none" /\ a.actions = p.actions
      /\ a.inActions /\ Flush(a).result = Flush(p).result
  <2>1. /\ a \in ParserState /\ a.over = p.over /\ a.field = "none" /\ a.actions = p.actions
        /\ a.inActions /\ a.result = Flush(p).result
    BY <1>3 DEF ParserState
  <2> QED
    BY <2>1 DEF Flush
<1>6. line \in Headers =>
        /\ h \in ParserState /\ h.over = p.over /\ h.field = FieldOf(line) /\ h.value = {k}
        /\ h.inActions = p.inActions /\ h.actions = p.actions /\ h.result = Flush(p).result
  BY <1>1, <1>3 DEF ParserState
<1>7. /\ i \in ParserState /\ i.over = p.over /\ i.field = p.field /\ i.inActions = p.inActions
      /\ i.actions = p.actions \cup {k} /\ i.value = p.value /\ i.result = p.result
  BY DEF ParserState
<1>8. /\ v \in ParserState /\ v.over = p.over /\ v.field = p.field /\ v.inActions = p.inActions
      /\ v.actions = p.actions /\ v.result = p.result
      /\ v.value = IF p.field = "none" THEN p.value ELSE p.value \cup {k}
  BY DEF ParserState
<1>9. p.over \in BOOLEAN /\ p.inActions \in BOOLEAN
  BY DEF ParserState
<1> HIDE DEF q, e, h, a, i, v
<1>10. q \in ParserState
  BY <1>1, <1>2, <1>4, <1>5, <1>6, <1>7, <1>8, <1>9
<1> QED
  BY <1>2, <1>4, <1>5, <1>6, <1>7, <1>8, <1>10 DEF q

LEMMA ItemsGrow ==
  ASSUME NEW lines, NEW k \in Nat \ {0}
  PROVE  /\ ~ (InBlock(lines, k) /\ IsItem(lines, k)) => Items(lines, k) = Items(lines, k - 1)
         /\ InBlock(lines, k) /\ IsItem(lines, k) => Items(lines, k) = Items(lines, k - 1) \cup {k}
<1>1. (\A j \in 1..k : j \in 1..(k - 1) \/ j = k) /\ (\A j \in 1..(k - 1) : j \in 1..k) /\ k \in 1..k
  OBVIOUS
<1> QED
  BY <1>1 DEF Items

\* Each turn keeps what the loop knows.
LEMMA TurnKeeps ==
  ASSUME NEW lines \in Seq(Lines), NEW k \in 1..Len(lines), NEW p, Parsed(lines, k - 1, p)
  PROVE  Parsed(lines, k, ParseLine(p, k, lines[k]))
<1> DEFINE line == lines[k]
           q == ParseLine(p, k, line)
<1>1. /\ line \in Lines /\ k \in Nat \ {0} /\ p \in ParserState
      /\ line \in Headers \cup {"actions", "item", "text", "end"}
      /\ {"actions", "item", "text", "end"} \cap Headers = {}
      /\ \A l \in Headers : FieldOf(l) \in Fields
      /\ FieldOf("actions") \notin Fields /\ "none" \notin Fields
      /\ p.over \in BOOLEAN /\ p.inActions \in BOOLEAN
  BY DEF Parsed, Lines, Headers, FieldOf, Fields, ParserState
<1>2. /\ q \in ParserState
      /\ p.over => q = p
      /\ ~ p.over /\ line = "end" =>
           /\ q.over /\ q.field = "none" /\ q.actions = p.actions
           /\ Flush(q).result = Flush(p).result
      /\ ~ p.over /\ line \in Headers =>
           /\ ~ q.over /\ q.field = FieldOf(line) /\ q.value = {k} /\ q.inActions = p.inActions
           /\ q.actions = p.actions /\ q.result = Flush(p).result
      /\ ~ p.over /\ line = "actions" =>
           /\ ~ q.over /\ q.field = "none" /\ q.inActions /\ q.actions = p.actions
           /\ Flush(q).result = Flush(p).result
      /\ ~ p.over /\ line = "item" /\ p.inActions =>
           /\ ~ q.over /\ q.field = p.field /\ q.inActions = p.inActions
           /\ q.actions = p.actions \cup {k} /\ q.value = p.value /\ q.result = p.result
      /\ ~ p.over /\ (line = "text" \/ (line = "item" /\ ~ p.inActions)) =>
           /\ ~ q.over /\ q.field = p.field /\ q.inActions = p.inActions
           /\ q.actions = p.actions /\ q.result = p.result
           /\ q.value = IF p.field = "none" THEN p.value ELSE p.value \cup {k}
  BY <1>1, TurnIs
<1>3. InBlock(lines, k) <=> InBlock(lines, k - 1) /\ line # "end"
  <2>1. (\A e \in 1..k : e \in 1..(k - 1) \/ e = k) /\ (\A e \in 1..(k - 1) : e \in 1..k) /\ k \in 1..k
    OBVIOUS
  <2> QED
    BY <2>1 DEF InBlock
<1>4. (\E a \in 1..k : lines[a] = "actions") <=> (\E a \in 1..(k - 1) : lines[a] = "actions") \/ line = "actions"
  <2>1. (\A e \in 1..k : e \in 1..(k - 1) \/ e = k) /\ (\A e \in 1..(k - 1) : e \in 1..k) /\ k \in 1..k
    OBVIOUS
  <2> QED
    BY <2>1
<1>5. ~ p.over => (IsItem(lines, k) <=> line = "item" /\ p.inActions)
  BY DEF Parsed, IsItem
<1>6. IsMark(lines, k) <=> line \in Headers \cup {"actions"}
  BY DEF IsMark
<1>7. IsMark(lines, k) => \A m \in 1..k : LastMark(lines, m, k) <=> m = k
  <2> SUFFICES ASSUME IsMark(lines, k), NEW m \in 1..k PROVE LastMark(lines, m, k) <=> m = k
    OBVIOUS
  <2>1. m # k => k \in (m + 1)..k
    OBVIOUS
  <2>2. LastMark(lines, k, k)
    BY DEF LastMark
  <2>3. m # k => ~ LastMark(lines, m, k)
    BY <2>1 DEF LastMark
  <2> QED
    BY <2>2, <2>3
<1>8. ~ IsMark(lines, k) =>
        \A m \in 1..k : LastMark(lines, m, k) <=> m \in 1..(k - 1) /\ LastMark(lines, m, k - 1)
  <2> SUFFICES ASSUME ~ IsMark(lines, k), NEW m \in 1..k
               PROVE  LastMark(lines, m, k) <=> m \in 1..(k - 1) /\ LastMark(lines, m, k - 1)
    OBVIOUS
  <2>1. m = k => ~ LastMark(lines, m, k)
    BY DEF LastMark
  <2>2. \A l \in (m + 1)..k : l \in (m + 1)..(k - 1) \/ l = k
    OBVIOUS
  <2>3. \A l \in (m + 1)..(k - 1) : l \in (m + 1)..k
    OBVIOUS
  <2> QED
    BY <2>1, <2>2, <2>3 DEF LastMark
<1>9. /\ ~ (InBlock(lines, k) /\ IsItem(lines, k)) => Items(lines, k) = Items(lines, k - 1)
      /\ InBlock(lines, k) /\ IsItem(lines, k) => Items(lines, k) = Items(lines, k - 1) \cup {k}
  BY <1>1, ItemsGrow
<1>10. /\ p.over <=> ~ InBlock(lines, k - 1)
       /\ p.over \/ (p.inActions <=> \E a \in 1..(k - 1) : lines[a] = "actions")
       /\ p.over => p.field = "none"
       /\ p.over \/ p.field # "none" \/ \A m \in 1..(k - 1) : LastMark(lines, m, k - 1) => lines[m] = "actions"
       /\ p.field = "none" \/ \E m \in 1..(k - 1) : LastMark(lines, m, k - 1) /\ FieldOf(lines[m]) = p.field
       /\ p.actions = Items(lines, k - 1)
       /\ \A f \in Fields : Flush(p).result[f] = Part(lines, k - 1, f)
  BY DEF Parsed
<1>11. \A f \in Fields : Flush(q).result[f] = IF f = q.field THEN q.value ELSE q.result[f]
  BY <1>2, FlushProperties
<1>12. \A f \in Fields : Flush(p).result[f] = IF f = p.field THEN p.value ELSE p.result[f]
  BY <1>1, FlushProperties
<1> HIDE DEF q, line
<1>13. CASE p.over
  <2>1. \A f \in Fields : Part(lines, k, f) = Part(lines, k - 1, f)
    BY <1>1, <1>3, <1>10, <1>13, PartGrows
  <2> QED
    BY <1>2, <1>3, <1>9, <1>10, <1>13, <2>1 DEF Parsed, q, line
<1>14. CASE ~ p.over /\ line = "end"
  <2>1. \A f \in Fields : Part(lines, k, f) = Part(lines, k - 1, f)
    BY <1>1, <1>3, <1>14, PartGrows
  <2> QED
    BY <1>2, <1>3, <1>9, <1>10, <1>14, <2>1 DEF Parsed, q, line
<1>15. CASE ~ p.over /\ line \in Headers
  <2>1. InBlock(lines, k) /\ IsMark(lines, k) /\ ~ IsItem(lines, k) /\ FieldOf(line) \in Fields
    BY <1>1, <1>3, <1>5, <1>6, <1>10, <1>15
  <2>2. ASSUME NEW f \in Fields PROVE Flush(q).result[f] = Part(lines, k, f)
    <3>1. CASE f = FieldOf(line)
      <4>1. Part(lines, k, f) = {k}
        BY <1>1, <2>1, <3>1, PartGrows DEF line
      <4> QED
        BY <1>2, <1>11, <1>15, <3>1, <4>1
    <3>2. CASE f # FieldOf(line)
      <4>1. Part(lines, k, f) = Part(lines, k - 1, f)
        BY <1>1, <2>1, <3>2, PartGrows DEF line
      <4> QED
        BY <1>2, <1>10, <1>11, <1>15, <3>2, <4>1
    <3> QED
      BY <3>1, <3>2
  <2>3. \E m \in 1..k : LastMark(lines, m, k) /\ FieldOf(lines[m]) = q.field
    <3>1. k \in 1..k /\ LastMark(lines, k, k)
      BY <1>1, <1>7, <2>1
    <3> QED
      BY <1>2, <1>15, <3>1 DEF line
  <2>4. q.field # "none" /\ line # "actions"
    BY <1>1, <1>2, <1>15, <2>1
  <2> QED
    BY <1>2, <1>4, <1>9, <1>10, <1>15, <2>1, <2>2, <2>3, <2>4 DEF Parsed, q, line
<1>16. CASE ~ p.over /\ line = "actions"
  <2>1. InBlock(lines, k) /\ IsMark(lines, k) /\ ~ IsItem(lines, k)
    BY <1>1, <1>3, <1>5, <1>6, <1>10, <1>16
  <2>2. \A f \in Fields : Part(lines, k, f) = Part(lines, k - 1, f)
    BY <1>1, <1>16, <2>1, PartGrows DEF line
  <2>3. \A m \in 1..k : LastMark(lines, m, k) => lines[m] = "actions"
    BY <1>7, <1>16, <2>1 DEF line
  <2> QED
    BY <1>2, <1>4, <1>9, <1>10, <1>16, <2>1, <2>2, <2>3 DEF Parsed, q, line
<1>17. CASE ~ p.over /\ line = "item" /\ p.inActions
  <2>1. InBlock(lines, k) /\ ~ IsMark(lines, k) /\ IsItem(lines, k) /\ line # "actions"
    BY <1>1, <1>3, <1>5, <1>6, <1>10, <1>17
  <2>2. \A f \in Fields : Part(lines, k, f) = Part(lines, k - 1, f)
    BY <1>1, <2>1, PartGrows
  <2>3. \A f \in Fields : Flush(q).result[f] = Flush(p).result[f]
    <3>1. q.field = p.field /\ q.value = p.value /\ q.result = p.result
      BY <1>2, <1>17
    <3> QED
      BY <1>11, <1>12, <3>1
  <2>4. \A m \in 1..k : LastMark(lines, m, k) <=> m \in 1..(k - 1) /\ LastMark(lines, m, k - 1)
    BY <1>8, <2>1
  <2>5. \A m \in 1..(k - 1) : m \in 1..k
    BY <1>1
  <2>6. /\ ~ q.over /\ q.field = p.field /\ q.inActions = p.inActions
        /\ q.actions = p.actions \cup {k}
    BY <1>2, <1>17
  <2>7. /\ p.field # "none" \/ \A m \in 1..k : LastMark(lines, m, k) => lines[m] = "actions"
        /\ p.field = "none" \/ \E m \in 1..k : LastMark(lines, m, k) /\ FieldOf(lines[m]) = p.field
    BY <1>10, <1>17, <2>4, <2>5
  <2>8. p.inActions <=> \E a \in 1..k : lines[a] = "actions"
    BY <1>4, <1>10, <1>17, <2>1, <2>5 DEF line
  <2>9. q.actions = Items(lines, k) /\ ~ q.over /\ InBlock(lines, k)
    BY <1>9, <1>10, <1>17, <2>1, <2>6
  <2>10. \A f \in Fields : Flush(q).result[f] = Part(lines, k, f)
    BY <1>10, <2>2, <2>3
  <2> QED
    BY <1>2, <2>6, <2>7, <2>8, <2>9, <2>10 DEF Parsed, q, line
<1>18. CASE ~ p.over /\ (line = "text" \/ (line = "item" /\ ~ p.inActions))
  <2>1. InBlock(lines, k) /\ ~ IsMark(lines, k) /\ ~ IsItem(lines, k) /\ line # "actions"
    BY <1>1, <1>3, <1>5, <1>6, <1>10, <1>18
  <2>2. \A m \in 1..k : LastMark(lines, m, k) <=> m \in 1..(k - 1) /\ LastMark(lines, m, k - 1)
    BY <1>8, <2>1
  <2>3. \A m \in 1..(k - 1) : m \in 1..k
    BY <1>1
  <2>4. \A m, l \in 1..(k - 1) : LastMark(lines, m, k - 1) /\ LastMark(lines, l, k - 1) => m = l
    <3> SUFFICES ASSUME NEW m \in 1..(k - 1), NEW l \in 1..(k - 1), m < l,
                        LastMark(lines, m, k - 1), LastMark(lines, l, k - 1)
                 PROVE  FALSE
      BY <1>1
    <3>1. l \in (m + 1)..(k - 1)
      OBVIOUS
    <3> QED
      BY <3>1 DEF LastMark
  <2>5. ASSUME NEW f \in Fields PROVE Flush(q).result[f] = Part(lines, k, f)
    <3>1. CASE f = p.field
      <4>1. \E m \in 1..(k - 1) : LastMark(lines, m, k - 1) /\ FieldOf(lines[m]) = f
        BY <1>1, <1>10, <3>1
      <4>2. Part(lines, k, f) = Part(lines, k - 1, f) \cup {k}
        BY <1>1, <2>1, <4>1, PartGrows
      <4> QED
        BY <1>1, <1>2, <1>10, <1>11, <1>12, <1>18, <3>1, <4>2
    <3>2. CASE f # p.field
      <4>1. \A m \in 1..(k - 1) : LastMark(lines, m, k - 1) => FieldOf(lines[m]) # f
        <5>1. CASE p.field = "none"
          BY <1>1, <1>10, <1>18, <5>1
        <5>2. CASE p.field # "none"
          <6>1. PICK l \in 1..(k - 1) : LastMark(lines, l, k - 1) /\ FieldOf(lines[l]) = p.field
            BY <1>10, <5>2
          <6> QED
            BY <2>4, <3>2, <6>1
        <5> QED
          BY <5>1, <5>2
      <4>2. Part(lines, k, f) = Part(lines, k - 1, f)
        BY <1>1, <2>1, <4>1, PartGrows
      <4> QED
        BY <1>2, <1>10, <1>11, <1>12, <1>18, <3>2, <4>2
    <3> QED
      BY <3>1, <3>2
  <2> QED
    BY <1>2, <1>4, <1>9, <1>10, <1>18, <2>1, <2>2, <2>3, <2>5 DEF Parsed, q, line
<1> QED
  BY <1>1, <1>13, <1>14, <1>15, <1>16, <1>17, <1>18 DEF q, line

\* The whole loop.
LEMMA LoopKnows ==
  ASSUME NEW lines \in Seq(Lines)
  PROVE  LET n == Len(lines)
             turn == CHOOSE f : f = [k \in 0..n |-> IF k = 0 THEN ParseStart
                                                   ELSE ParseLine(f[k - 1], k, lines[k])]
         IN  Parsed(lines, n, turn[n])
<1> DEFINE n == Len(lines)
           turn == CHOOSE f : f = [k \in 0..n |-> IF k = 0 THEN ParseStart
                                                 ELSE ParseLine(f[k - 1], k, lines[k])]
           step == [k \in 1..n |-> [x \in ParserState |-> ParseLine(x, k, lines[k])]]
<1>1. n \in Nat /\ \A k \in 1..n : k \in Nat /\ k - 1 \in 0..n /\ lines[k] \in Lines
  OBVIOUS
<1>2. ParseStart \in ParserState /\ Parsed(lines, 0, ParseStart)
  <2>1. ParseStart \in ParserState
    BY DEF ParseStart, ParserState, Fields
  <2>2. Flush(ParseStart).result = ParseStart.result
    BY DEF Flush, ParseStart
  <2>3. \A f \in Fields : Flush(ParseStart).result[f] = {} /\ Part(lines, 0, f) = {}
    BY <2>2 DEF ParseStart, Part, Fields
  <2>4. Items(lines, 0) = {} /\ InBlock(lines, 0) /\ 1..0 = {}
    BY DEF Items, InBlock
  <2>5. /\ ParseStart.over = FALSE /\ ParseStart.field = "none"
        /\ ParseStart.inActions = FALSE /\ ParseStart.actions = {}
    BY DEF ParseStart
  <2> QED
    BY <2>1, <2>3, <2>4, <2>5 DEF Parsed
<1> HIDE DEF n
<1>3. step \in [1..n -> [ParserState -> ParserState]]
  <2>1. \A k \in 1..n, x \in ParserState : ParseLine(x, k, lines[k]) \in ParserState
    BY <1>1, TurnIs
  <2> QED
    BY <2>1
<1>4. PICK run : IsRun(run, n, ParserState, ParseStart, step)
  <2> HIDE DEF step
  <2> QED
    BY <1>1, <1>2, <1>3, RunExists
<1>5. run = [k \in 0..n |-> IF k = 0 THEN ParseStart ELSE ParseLine(run[k - 1], k, lines[k])]
  <2>1. run \in [0..n -> ParserState] /\ run[0] = ParseStart /\ \A k \in 1..n : run[k] = step[k][run[k - 1]]
    BY <1>4 DEF IsRun
  <2>2. ASSUME NEW k \in 1..n PROVE run[k] = ParseLine(run[k - 1], k, lines[k])
    <3>1. run[k - 1] \in ParserState
      BY <1>1, <2>1
    <3>2. step[k] = [x \in ParserState |-> ParseLine(x, k, lines[k])]
      OBVIOUS
    <3> HIDE DEF step
    <3> QED
      BY <2>1, <3>1, <3>2
  <2> DEFINE other == [k \in 0..n |-> IF k = 0 THEN ParseStart ELSE ParseLine(run[k - 1], k, lines[k])]
  <2>3. \A k \in 0..n : k = 0 \/ k \in 1..n
    BY <1>1
  <2>4. \A k \in 0..n : run[k] = other[k]
    BY <2>1, <2>2, <2>3
  <2>5. DOMAIN run = 0..n /\ DOMAIN other = 0..n
    BY <2>1
  <2>6. run = [k \in 0..n |-> run[k]] /\ other = [k \in 0..n |-> other[k]]
    BY <2>1
  <2> HIDE DEF other
  <2>7. run = other
    BY <2>4, <2>6
  <2> QED
    BY <2>7 DEF other
<1>6. turn = [k \in 0..n |-> IF k = 0 THEN ParseStart ELSE ParseLine(turn[k - 1], k, lines[k])]
  BY <1>5
<1> HIDE DEF turn, step
<1> DEFINE T == {k \in 0..n : Parsed(lines, k, turn[k])}
<1>7. 0 \in T
  BY <1>1, <1>2, <1>6
<1>8. ASSUME NEW k \in 1..n, k - 1 \in T PROVE k \in T
  <2>1. turn[k] = ParseLine(turn[k - 1], k, lines[k]) /\ k \in 1..Len(lines) /\ k \in 0..n
    BY <1>1, <1>6 DEF n
  <2>2. Parsed(lines, k - 1, turn[k - 1])
    BY <1>8
  <2>3. Parsed(lines, k, ParseLine(turn[k - 1], k, lines[k]))
    BY <2>1, <2>2, TurnKeeps
  <2> QED
    BY <2>1, <2>3
<1> HIDE DEF T
<1>9. \A k \in 0..n : k \in T
  BY <1>1, <1>7, <1>8, InductionUpTo
<1>10. n \in T
  BY <1>1, <1>9
<1> QED
  BY <1>10 DEF T, turn, n

LEMMA LastMarkExists ==
  ASSUME NEW lines, NEW k \in Nat, NEW i \in 1..k, IsMark(lines, i)
  PROVE  \E m \in 1..k : LastMark(lines, m, k)
<1> DEFINE D == {k - m : m \in {j \in 1..k : IsMark(lines, j)}}
<1>1. D \subseteq Nat /\ k - i \in D
  OBVIOUS
<1>2. PICK d \in D : \A e \in D : d <= e
  <2> HIDE DEF D
  <2> QED
    BY <1>1, LeastNatural
<1>3. PICK m \in 1..k : IsMark(lines, m) /\ d = k - m
  OBVIOUS
<1>4. ASSUME NEW l \in (m + 1)..k, IsMark(lines, l) PROVE FALSE
  <2>1. k - l \in D /\ l \in Int /\ m < l
    BY <1>4
  <2> HIDE DEF D
  <2>2. k - m <= k - l
    BY <1>2, <1>3, <2>1
  <2> QED
    BY <2>1, <2>2
<1> QED
  BY <1>3, <1>4 DEF LastMark

\* _parse_delimited: whatever the lines, what each field is made of.
LEMMA BlocksAreRead == ASSUME reply \in Seq(Lines) PROVE BlockIsRead
<1> DEFINE lines == reply
           n == Len(lines)
           ends == {k \in DOMAIN lines : lines[k] = "end"}
           block == {k \in DOMAIN lines : \A e \in ends : k < e}
           marks == {k \in block : lines[k] \in Headers \cup {"actions"}}
           mark(k) == CHOOSE m \in marks : m <= k /\ \A l \in marks : l <= k => l <= m
           isItem(k) == lines[k] = "item" /\ \E a \in block : a < k /\ lines[a] = "actions"
           latest(f) == {m \in marks : FieldOf(lines[m]) = f /\
                           \A l \in marks : FieldOf(lines[l]) = f => l <= m}
           parsed == ParseDelimited(lines)
           turn == CHOOSE f : f = [k \in 0..n |-> IF k = 0 THEN ParseStart
                                                 ELSE ParseLine(f[k - 1], k, lines[k])]
           p == Flush(turn[n])
           texts == {k \in p.result.summary : lines[k] # "bare"}
<1> SUFFICES ASSUME parsed # << >>
             PROVE  /\ parsed[2] = {k \in block : isItem(k)}
                    /\ \A f \in DOMAIN parsed[1] :
                         parsed[1][f] = {k \in block : mark(k) \in latest(f) /\ ~ isItem(k) /\ lines[k] # "bare"}
  BY DEF BlockIsRead
<1>1. Parsed(lines, n, turn[n])
  BY LoopKnows
<1>2. /\ lines # << >> /\ lines[1] \in {"summary", "bare"}
      /\ parsed = <<[p.result EXCEPT !.summary = texts], p.actions>>
  BY DEF ParseDelimited
<1>3. n \in Nat \ {0} /\ DOMAIN lines = 1..n /\ \A k \in 1..n : lines[k] \in Lines
  BY <1>2
<1> HIDE DEF turn, n, parsed
<1>4. /\ p \in ParserState /\ p.actions = Items(lines, n)
      /\ \A f \in Fields : p.result[f] = Part(lines, n, f)
  <2>1. turn[n] \in ParserState /\ turn[n].actions = Items(lines, n)
    BY <1>1 DEF Parsed
  <2>2. p \in ParserState /\ p.actions = turn[n].actions
    BY <2>1, FlushProperties
  <2> QED
    BY <1>1, <2>1, <2>2 DEF Parsed
<1> HIDE DEF p
<1>5. \A k \in 1..n : k \in block <=> InBlock(lines, k)
  BY <1>3 DEF InBlock
<1>6. \A k \in 1..n : k \in block => \A a \in 1..k : a \in block
  BY <1>3
<1>7. \A k \in block : k \in 1..n /\ (isItem(k) <=> IsItem(lines, k))
  <2> SUFFICES ASSUME NEW k \in block PROVE k \in 1..n /\ (isItem(k) <=> IsItem(lines, k))
    OBVIOUS
  <2>1. k \in 1..n
    BY <1>3
  <2>2. \A a \in block : a \in 1..n
    BY <1>3
  <2>3. \A a \in 1..(k - 1) : a \in block /\ a < k
    BY <1>6, <2>1
  <2>4. \A a \in block : a < k => a \in 1..(k - 1)
    BY <2>1, <2>2
  <2> HIDE DEF block
  <2> QED
    BY <2>1, <2>3, <2>4 DEF IsItem
<1>8. parsed[2] = {k \in block : isItem(k)}
  <2>1. parsed[2] = Items(lines, n)
    BY <1>2, <1>4
  <2> HIDE DEF isItem, block
  <2> QED
    BY <1>5, <1>7, <2>1 DEF Items
<1>9. \A k \in 1..n : k \in marks <=> InBlock(lines, k) /\ IsMark(lines, k)
  <2> HIDE DEF block
  <2> QED
    BY <1>5 DEF IsMark
<1>10. marks \subseteq 1..n /\ block \subseteq 1..n
  BY <1>3
<1>11. 1 \in 1..n /\ 1 \in marks
  <2>1. 1 \in 1..n /\ lines[1] # "end" /\ lines[1] \in Headers
    BY <1>2, <1>3 DEF Headers
  <2>2. InBlock(lines, 1)
    BY <2>1 DEF InBlock
  <2> QED
    BY <1>9, <2>1, <2>2 DEF IsMark
<1> HIDE DEF marks
<1>12. ASSUME NEW k \in block PROVE mark(k) \in marks /\ LastMark(lines, mark(k), k)
  <2>1. k \in 1..n /\ k \in Nat
    BY <1>3, <1>7
  <2>2. PICK m \in 1..k : LastMark(lines, m, k)
    <3>1. 1 \in 1..k /\ IsMark(lines, 1)
      BY <1>9, <1>11, <2>1
    <3> QED
      BY <2>1, <3>1, LastMarkExists
  <2>3. \A l \in 1..k : l \in marks <=> IsMark(lines, l)
    <3>1. \A l \in 1..k : l \in 1..n /\ l \in block
      BY <1>3, <1>6, <2>1
    <3> HIDE DEF block
    <3> QED
      BY <1>5, <1>9, <3>1
  <2>4. m \in marks /\ m <= k /\ \A l \in marks : l <= k => l <= m
    <3>1. m \in marks /\ m <= k
      BY <2>1, <2>2, <2>3 DEF LastMark
    <3>2. ASSUME NEW l \in marks, l <= k, ~ (l <= m) PROVE FALSE
      <4>1. l \in (m + 1)..k /\ l \in 1..k
        BY <1>10, <2>1, <3>2
      <4> QED
        BY <2>2, <2>3, <4>1 DEF LastMark
    <3> QED
      BY <3>1, <3>2
  <2>5. mark(k) \in marks /\ mark(k) <= k /\ \A l \in marks : l <= k => l <= mark(k)
    BY <2>4
  <2> HIDE DEF mark
  <2>6. mark(k) = m
    <3>1. \A x \in marks : x \in Int
      BY <1>3, <1>10
    <3>2. m <= mark(k) /\ mark(k) <= m
      BY <2>4, <2>5
    <3>3. mark(k) \in Int /\ m \in Int
      BY <2>4, <2>5, <3>1
    <3> QED
      BY <3>2, <3>3
  <2> QED
    BY <2>2, <2>5, <2>6
<1> HIDE DEF mark
<1>13. ASSUME NEW f \in Fields, NEW k \in block
       PROVE  mark(k) \in latest(f) /\ ~ isItem(k) <=> k \in Part(lines, n, f)
  <2>1. /\ k \in 1..n /\ InBlock(lines, k) /\ (isItem(k) <=> IsItem(lines, k))
        /\ mark(k) \in marks /\ LastMark(lines, mark(k), k) /\ mark(k) \in 1..k
    BY <1>5, <1>7, <1>12 DEF LastMark
  <2>2. \A m \in 1..k : LastMark(lines, m, k) => m = mark(k)
    <3> SUFFICES ASSUME NEW m \in 1..k, LastMark(lines, m, k), m # mark(k) PROVE FALSE
      OBVIOUS
    <3>1. m \in (mark(k) + 1)..k \/ mark(k) \in (m + 1)..k
      BY <2>1
    <3> QED
      BY <2>1, <3>1 DEF LastMark
  <2>3. mark(k) \in latest(f) <=>
          /\ FieldOf(lines[mark(k)]) = f
          /\ \A l \in (mark(k) + 1)..n : InBlock(lines, l) /\ IsMark(lines, l) => FieldOf(lines[l]) # f
    <3>1. \A l \in (mark(k) + 1)..n : l \in 1..n /\ (l \in marks <=> InBlock(lines, l) /\ IsMark(lines, l))
      BY <1>9, <2>1
    <3>2. \A l \in marks : l <= mark(k) \/ l \in (mark(k) + 1)..n
      BY <1>10, <2>1
    <3>3. \A l \in (mark(k) + 1)..n : ~ (l <= mark(k))
      BY <2>1
    <3> QED
      BY <2>1, <3>1, <3>2, <3>3
  <2> HIDE DEF latest, isItem, block
  <2> QED
    BY <2>1, <2>2, <2>3 DEF Part
<1>14. ASSUME NEW f \in Fields
       PROVE  parsed[1][f] = {k \in block : mark(k) \in latest(f) /\ ~ isItem(k) /\ lines[k] # "bare"}
  <2>1. Part(lines, n, f) \subseteq 1..n /\ \A k \in Part(lines, n, f) : k \in block
    <3>1. \A k \in Part(lines, n, f) : k \in 1..n /\ InBlock(lines, k)
      BY DEF Part
    <3> HIDE DEF block
    <3> QED
      BY <1>5, <3>1
  <2>2. parsed[1][f] = IF f = "summary" THEN texts ELSE Part(lines, n, f)
    <3>1. p.result \in [Fields -> SUBSET Nat]
      BY <1>4 DEF ParserState
    <3> HIDE DEF texts
    <3> QED
      BY <1>2, <1>4, <3>1
  <2>3. texts = {k \in Part(lines, n, "summary") : lines[k] # "bare"}
    BY <1>4 DEF Fields
  <2>4. f # "summary" => \A k \in Part(lines, n, f) : lines[k] # "bare"
    <3> SUFFICES ASSUME f # "summary", NEW k \in Part(lines, n, f), lines[k] = "bare" PROVE FALSE
      OBVIOUS
    <3>1. IsMark(lines, k) /\ FieldOf(lines[k]) = "summary" /\ k \in 1..n
      BY <2>1 DEF IsMark, Headers, FieldOf
    <3>2. PICK m \in 1..k : LastMark(lines, m, k) /\ FieldOf(lines[m]) = f
      BY DEF Part
    <3>3. m # k
      BY <3>1, <3>2
    <3>4. k \in (m + 1)..k
      BY <3>1, <3>3
    <3> QED
      BY <3>1, <3>2, <3>4 DEF LastMark
  <2> HIDE DEF texts, latest, isItem, block
  <2>5. parsed[1][f] = {k \in Part(lines, n, f) : lines[k] # "bare"}
    BY <2>2, <2>3, <2>4
  <2> QED
    BY <1>13, <2>1, <2>5
<1>15. DOMAIN parsed[1] = Fields
  <2>1. p.result \in [Fields -> SUBSET Nat]
    BY <1>4 DEF ParserState
  <2> HIDE DEF texts
  <2> QED
    BY <1>2, <2>1
<1> QED
  BY <1>8, <1>14, <1>15

-----------------------------------------------------------------------------
(* The object. *)

\* An odd number of escapes comes right before place k.
Escaped(u, k) ==
  \E n \in 1..(k - 1) :
     /\ n % 2 = 1 /\ \A j \in (k - n)..(k - 1) : u[j] = Escape
     /\ k - n = 1 \/ u[k - n - 1] # Escape

\* How many of a set of places are among the first k.
UpTo(places, k) == Cardinality({j \in 1..k : j \in places})

\* Quotes before place k, and the places they leave outside of strings.
Quotes(u, k) == Cardinality({j \in 1..(k - 1) : IsQuote(u, j)})
Outside(u) == {k \in DOMAIN u : Quotes(u, k) % 2 = 0}
Count(u, ch, k) == Cardinality({j \in Outside(u) : j <= k /\ u[j] = ch})

ScanStart == [depth |-> 0, inString |-> FALSE, escapeNext |-> FALSE, end |-> 0]
ScanState(n) == [depth : Int, inString : BOOLEAN, escapeNext : BOOLEAN, end : 0..n]

\* What the scan knows after k characters of an object that go on.
Scanned(u, k, s) ==
  /\ s.end = 0 /\ s.depth = Count(u, Open, k) - Count(u, Shut, k)
  /\ s.inString <=> Quotes(u, k + 1) % 2 = 1
  /\ s.escapeNext <=> Escaped(u, k + 1)

LEMMA SpecialCharacters ==
  /\ Open # Shut /\ Open # Quote /\ Open # Escape /\ Shut # Quote /\ Shut # Escape /\ Quote # Escape
  /\ {Open, Shut, Quote, Escape} \cap Marks = {}
BY DEF Open, Shut, Quote, Escape, Marks, Tag, EndTag, JsonFence, Fence

\* A character is escaped by an escape that is none itself.
LEMMA EscapedNext ==
  ASSUME NEW u, NEW k \in Nat \ {0}
  PROVE  ~ Escaped(u, 1) /\ (Escaped(u, k + 1) <=> u[k] = Escape /\ ~ Escaped(u, k))
<1>1. ~ Escaped(u, 1)
  BY DEF Escaped
<1>2. ASSUME Escaped(u, k + 1) PROVE u[k] = Escape /\ ~ Escaped(u, k)
  <2>1. PICK n \in 1..k : /\ n % 2 = 1 /\ \A j \in (k + 1 - n)..k : u[j] = Escape
                          /\ k + 1 - n = 1 \/ u[k - n] # Escape
    <3>1. PICK n \in 1..((k + 1) - 1) :
             /\ n % 2 = 1 /\ \A j \in ((k + 1) - n)..((k + 1) - 1) : u[j] = Escape
             /\ (k + 1) - n = 1 \/ u[(k + 1) - n - 1] # Escape
      BY <1>2 DEF Escaped
    <3>2. (k + 1) - 1 = k /\ (k + 1) - n - 1 = k - n
      OBVIOUS
    <3> QED
      BY <3>1, <3>2
  <2>2. u[k] = Escape
    BY <2>1
  <2>3. ASSUME Escaped(u, k) PROVE FALSE
    <3>1. PICK m \in 1..(k - 1) : /\ m % 2 = 1 /\ \A j \in (k - m)..(k - 1) : u[j] = Escape
                                  /\ k - m = 1 \/ u[k - m - 1] # Escape
      BY <2>3 DEF Escaped
    <3>2. n <= m + 1
      <4> SUFFICES ASSUME n > m + 1 PROVE FALSE
        BY <2>1, <3>1
      <4>1. k - m - 1 \in (k + 1 - n)..k /\ k - m # 1
        BY <2>1, <3>1
      <4> QED
        BY <2>1, <3>1, <4>1
    <3>3. m + 1 <= n
      <4> SUFFICES ASSUME n < m + 1 PROVE FALSE
        BY <2>1, <3>1
      <4>1. k - n \in (k - m)..(k - 1) /\ k + 1 - n # 1
        BY <2>1, <3>1
      <4> QED
        BY <2>1, <3>1, <4>1
    <3>4. n = m + 1 /\ m \in Nat /\ n % 2 = 1 /\ m % 2 = 1
      BY <2>1, <3>1, <3>2, <3>3
    <3> QED
      BY <3>4
  <2> QED
    BY <2>2, <2>3
<1>3. ASSUME u[k] = Escape, ~ Escaped(u, k) PROVE Escaped(u, k + 1)
  <2> DEFINE B == {n \in 0..k : n = k \/ u[k - n] # Escape}
  <2>1. B \subseteq Nat /\ k \in B
    OBVIOUS
  <2>2. PICK n \in B : \A m \in B : n <= m
    <3> HIDE DEF B
    <3> QED
      BY <2>1, LeastNatural
  <2>3. n \in 1..k /\ (n = k \/ u[k - n] # Escape)
    BY <1>3, <2>2
  <2>4. ASSUME NEW j \in (k + 1 - n)..k PROVE u[j] = Escape
    <3>1. k - j \in 0..k /\ k - j < n /\ k - (k - j) = j /\ k - j # k
      BY <2>3, <2>4
    <3>2. k - j \notin B
      BY <2>2, <2>3, <3>1
    <3> QED
      BY <3>1, <3>2
  <2>5. CASE n % 2 = 1
    <3>1. (k + 1) - 1 = k /\ (k + 1) - n - 1 = k - n /\ ((k + 1) - n = 1 <=> n = k)
      BY <2>3
    <3>2. /\ n \in 1..((k + 1) - 1) /\ n % 2 = 1
          /\ \A j \in ((k + 1) - n)..((k + 1) - 1) : u[j] = Escape
          /\ (k + 1) - n = 1 \/ u[(k + 1) - n - 1] # Escape
      BY <2>3, <2>4, <2>5, <3>1
    <3> QED
      BY <3>2 DEF Escaped
  <2>6. CASE n % 2 # 1
    <3>1. n - 1 \in 1..(k - 1) /\ (n - 1) % 2 = 1
      BY <2>3, <2>6
    <3>2. /\ \A j \in (k - (n - 1))..(k - 1) : u[j] = Escape
          /\ k - (n - 1) = 1 \/ u[k - (n - 1) - 1] # Escape
      <4>1. k - (n - 1) = k + 1 - n /\ k - (n - 1) - 1 = k - n
        BY <2>3
      <4> QED
        BY <2>3, <2>4, <4>1
    <3>3. Escaped(u, k)
      BY <3>1, <3>2 DEF Escaped
    <3> QED
      BY <1>3, <3>3
  <2> QED
    BY <2>5, <2>6
<1> QED
  BY <1>1, <1>2, <1>3

LEMMA UpToGrows ==
  ASSUME NEW places, NEW k \in Nat \ {0}
  PROVE  /\ UpTo(places, 0) = 0 /\ UpTo(places, k) \in Nat /\ UpTo(places, k - 1) \in Nat
         /\ k \in places => UpTo(places, k) = UpTo(places, k - 1) + 1
         /\ k \notin places => UpTo(places, k) = UpTo(places, k - 1)
<1> DEFINE S(i) == {j \in 1..i : j \in places}
<1>1. S(0) = {} /\ Cardinality({}) = 0
  BY FS_EmptySet
<1>2. \A i \in Nat : IsFiniteSet(S(i)) /\ Cardinality(S(i)) \in Nat
  <2> SUFFICES ASSUME NEW i \in Nat PROVE IsFiniteSet(S(i)) /\ Cardinality(S(i)) \in Nat
    OBVIOUS
  <2>1. IsFiniteSet(1..i) /\ S(i) \subseteq 1..i
    BY FS_Interval
  <2> HIDE DEF S
  <2>2. IsFiniteSet(S(i))
    BY <2>1, FS_Subset
  <2> QED
    BY <2>2, FS_CardinalityType
<1>3. k \in places => S(k) = S(k - 1) \cup {k} /\ k \notin S(k - 1)
  OBVIOUS
<1>4. k \notin places => S(k) = S(k - 1)
  OBVIOUS
<1>5. UpTo(places, 0) = Cardinality(S(0)) /\ UpTo(places, k) = Cardinality(S(k))
      /\ UpTo(places, k - 1) = Cardinality(S(k - 1))
  BY DEF UpTo
<1> HIDE DEF S
<1>6. k \in places => Cardinality(S(k)) = Cardinality(S(k - 1)) + 1
  BY <1>2, <1>3, FS_AddElement
<1> QED
  BY <1>1, <1>2, <1>4, <1>5, <1>6

LEMMA QuotesGrow ==
  ASSUME NEW u, NEW k \in Nat \ {0}
  PROVE  /\ Quotes(u, 1) = 0 /\ Quotes(u, k) \in Nat
         /\ IsQuote(u, k) => Quotes(u, k + 1) = Quotes(u, k) + 1
         /\ ~ IsQuote(u, k) => Quotes(u, k + 1) = Quotes(u, k)
<1> DEFINE Q == {j \in 1..k : IsQuote(u, j)}
<1>1. Quotes(u, 1) = UpTo(Q, 0)
  <2>1. {j \in 1..(1 - 1) : IsQuote(u, j)} = {} /\ {j \in 1..0 : j \in Q} = {}
    OBVIOUS
  <2> QED
    BY <2>1 DEF Quotes, UpTo
<1>2. Quotes(u, k) = UpTo(Q, k - 1)
  <2>1. {j \in 1..(k - 1) : IsQuote(u, j)} = {j \in 1..(k - 1) : j \in Q}
    OBVIOUS
  <2> QED
    BY <2>1 DEF Quotes, UpTo
<1>3. Quotes(u, k + 1) = UpTo(Q, k)
  <2>1. {j \in 1..((k + 1) - 1) : IsQuote(u, j)} = {j \in 1..k : j \in Q}
    OBVIOUS
  <2> QED
    BY <2>1 DEF Quotes, UpTo
<1>4. k \in Q <=> IsQuote(u, k)
  OBVIOUS
<1> HIDE DEF Q
<1> QED
  BY <1>1, <1>2, <1>3, <1>4, UpToGrows

LEMMA CountGrows ==
  ASSUME NEW u \in Seq(Chars), NEW ch, NEW k \in 1..Len(u)
  PROVE  /\ Count(u, ch, 0) = 0 /\ Count(u, ch, k) \in Nat /\ Count(u, ch, k - 1) \in Nat
         /\ k \in Outside(u) /\ u[k] = ch => Count(u, ch, k) = Count(u, ch, k - 1) + 1
         /\ k \notin Outside(u) \/ u[k] # ch => Count(u, ch, k) = Count(u, ch, k - 1)
<1> DEFINE C == {j \in Outside(u) : u[j] = ch}
<1>1. Outside(u) \subseteq 1..Len(u) /\ k \in Nat \ {0}
  BY DEF Outside
<1>2. \A i \in 0..Len(u) : Count(u, ch, i) = UpTo(C, i)
  <2> SUFFICES ASSUME NEW i \in 0..Len(u) PROVE Count(u, ch, i) = UpTo(C, i)
    OBVIOUS
  <2>1. {j \in Outside(u) : j <= i /\ u[j] = ch} = {j \in 1..i : j \in C}
    BY <1>1
  <2> QED
    BY <2>1 DEF Count, UpTo
<1>3. k \in C <=> k \in Outside(u) /\ u[k] = ch
  OBVIOUS
<1> HIDE DEF C
<1>4. /\ Count(u, ch, 0) = UpTo(C, 0) /\ Count(u, ch, k) = UpTo(C, k)
      /\ Count(u, ch, k - 1) = UpTo(C, k - 1)
  BY <1>2
<1> QED
  BY <1>1, <1>3, <1>4, UpToGrows

LEMMA ValidMeans ==
  ASSUME NEW u
  PROVE  Valid(u) <=> /\ u # << >> /\ u[1] = Open /\ Len(u) \in Outside(u)
                      /\ \A k \in Outside(u) : u[k] \in {Open, Shut, Quote}
                      /\ \A k \in 1..(Len(u) - 1) : Count(u, Open, k) > Count(u, Shut, k)
                      /\ Count(u, Open, Len(u)) = Count(u, Shut, Len(u))
BY DEF Valid, Outside, Quotes, Count

LEMMA ScanTyped ==
  ASSUME NEW n \in Nat, NEW s \in ScanState(n), NEW k \in 1..n, NEW ch
  PROVE  /\ ScanStart \in ScanState(n) /\ Scan(s, k, ch) \in ScanState(n)
         /\ s.end # 0 => Scan(s, k, ch) = s
<1>1. ScanStart \in ScanState(n)
  BY DEF ScanStart, ScanState
<1>2. /\ s.depth \in Int /\ s.inString \in BOOLEAN /\ s.escapeNext \in BOOLEAN /\ s.end \in 0..n
      /\ k \in 0..n /\ 0 \in 0..n /\ s.depth + 1 \in Int /\ s.depth - 1 \in Int
  BY DEF ScanState
<1>3. s.end # 0 => Scan(s, k, ch) = s
  BY DEF Scan
<1>4. CASE s.end # 0
  BY <1>1, <1>3, <1>4
<1>5. CASE s.end = 0 /\ s.escapeNext
  <2>1. Scan(s, k, ch) = [s EXCEPT !.escapeNext = FALSE]
    BY <1>5 DEF Scan
  <2> QED
    BY <1>1, <1>2, <1>5, <2>1 DEF ScanState
<1>6. CASE s.end = 0 /\ ~ s.escapeNext
  <2>1. \/ Scan(s, k, ch) = [s EXCEPT !.escapeNext = TRUE]
        \/ Scan(s, k, ch) = [s EXCEPT !.inString = ~ @]
        \/ Scan(s, k, ch) = [s EXCEPT !.depth = @ + 1]
        \/ Scan(s, k, ch) = [s EXCEPT !.depth = @ - 1, !.end = IF s.depth = 1 THEN k ELSE 0]
        \/ Scan(s, k, ch) = s
    BY <1>6, SpecialCharacters DEF Scan
  <2> QED
    BY <1>1, <1>2, <1>6, <2>1 DEF ScanState
<1> QED
  BY <1>4, <1>5, <1>6

\* The scan is what its definition says.
LEMMA ScanRuns ==
  ASSUME NEW t \in Seq(Chars), NEW i \in DOMAIN t
  PROVE  \E turn \in [0..(Len(t) - i + 1) -> ScanState(Len(t))] :
            /\ turn[0] = ScanStart
            /\ \A k \in 1..(Len(t) - i + 1) : turn[k] = Scan(turn[k - 1], i + k - 1, t[i + k - 1])
            /\ EndOf(t, i) = turn[Len(t) - i + 1].end
<1> DEFINE n == Len(t) - i + 1
           S == ScanState(Len(t))
           made == CHOOSE f : f = [k \in 0..n |-> IF k = 0 THEN ScanStart
                                                 ELSE Scan(f[k - 1], i + k - 1, t[i + k - 1])]
           step == [k \in 1..n |-> [s \in S |-> Scan(s, i + k - 1, t[i + k - 1])]]
<1>1. EndOf(t, i) = made[n].end
  BY DEF EndOf, ScanStart
<1>2. n \in Nat /\ Len(t) \in Nat /\ \A k \in 1..n : i + k - 1 \in 1..Len(t) /\ k - 1 \in 0..n
  OBVIOUS
<1>3. ScanStart \in S
  BY <1>2 DEF ScanState, ScanStart
<1> HIDE DEF n
<1>4. step \in [1..n -> [S -> S]]
  <2>1. \A k \in 1..n, s \in S : Scan(s, i + k - 1, t[i + k - 1]) \in S
    BY <1>2, ScanTyped
  <2> HIDE DEF S
  <2> QED
    BY <2>1
<1>5. PICK run : IsRun(run, n, S, ScanStart, step)
  <2> HIDE DEF step, S
  <2> QED
    BY <1>2, <1>3, <1>4, RunExists
<1> HIDE DEF S
<1>6. /\ run \in [0..n -> S] /\ run[0] = ScanStart
      /\ \A k \in 1..n : run[k] = Scan(run[k - 1], i + k - 1, t[i + k - 1])
  <2>1. run \in [0..n -> S] /\ run[0] = ScanStart /\ \A k \in 1..n : run[k] = step[k][run[k - 1]]
    BY <1>5 DEF IsRun
  <2>2. ASSUME NEW k \in 1..n PROVE run[k] = Scan(run[k - 1], i + k - 1, t[i + k - 1])
    <3>1. run[k - 1] \in S
      BY <1>2, <2>1
    <3>2. step[k] = [s \in S |-> Scan(s, i + k - 1, t[i + k - 1])]
      OBVIOUS
    <3> HIDE DEF step
    <3> QED
      BY <2>1, <3>1, <3>2
  <2> QED
    BY <2>1, <2>2
<1>7. run = [k \in 0..n |-> IF k = 0 THEN ScanStart ELSE Scan(run[k - 1], i + k - 1, t[i + k - 1])]
  <2> DEFINE other == [k \in 0..n |-> IF k = 0 THEN ScanStart
                                      ELSE Scan(run[k - 1], i + k - 1, t[i + k - 1])]
  <2>1. \A k \in 0..n : k = 0 \/ k \in 1..n
    BY <1>2
  <2>2. \A k \in 0..n : run[k] = other[k]
    BY <1>6, <2>1
  <2>3. run = [k \in 0..n |-> run[k]] /\ other = [k \in 0..n |-> other[k]]
    BY <1>6
  <2> HIDE DEF other
  <2>4. run = other
    BY <2>2, <2>3
  <2> QED
    BY <2>4 DEF other
<1>8. made = [k \in 0..n |-> IF k = 0 THEN ScanStart ELSE Scan(made[k - 1], i + k - 1, t[i + k - 1])]
  BY <1>7
<1> HIDE DEF made
<1>9. \A k \in 1..n : made[k] = Scan(made[k - 1], i + k - 1, t[i + k - 1])
  <2> SUFFICES ASSUME NEW k \in 1..n PROVE made[k] = Scan(made[k - 1], i + k - 1, t[i + k - 1])
    OBVIOUS
  <2>1. k \in 0..n /\ k # 0
    BY <1>2
  <2> QED
    BY <1>8, <2>1
<1>10. made[0] = ScanStart
  <2>1. 0 \in 0..n
    BY <1>2
  <2> QED
    BY <1>8, <2>1
<1>11. made \in [0..n -> S]
  <2> DEFINE T == {k \in 0..n : made[k] \in S}
  <2>1. 0 \in T
    BY <1>2, <1>3, <1>10
  <2>2. ASSUME NEW k \in 1..n, k - 1 \in T PROVE k \in T
    <3>1. Scan(made[k - 1], i + k - 1, t[i + k - 1]) \in S
      BY <1>2, <2>2, ScanTyped DEF S
    <3> QED
      BY <1>2, <1>9, <3>1
  <2> HIDE DEF T
  <2>3. \A k \in 0..n : k \in T
    BY <1>2, <2>1, <2>2, InductionUpTo
  <2>4. \A k \in 0..n : made[k] \in S
    BY <2>3 DEF T
  <2>5. made = [k \in 0..n |-> made[k]]
    BY <1>8
  <2> HIDE DEF S
  <2> QED
    BY <2>4, <2>5
<1> QED
  BY <1>1, <1>9, <1>10, <1>11 DEF n, S

\* One character of an object, in which what is not in a string is a brace or a quote.
LEMMA ObjectScanned ==
  ASSUME NEW u \in Seq(Chars), Valid(u), NEW k \in 1..Len(u), NEW place,
         NEW n \in Nat, NEW s \in ScanState(n), Scanned(u, k - 1, s)
  PROVE  /\ k < Len(u) => Scanned(u, k, Scan(s, place, u[k]))
         /\ k = Len(u) => Scan(s, place, u[k]).end = place
<1> DEFINE next == Scan(s, place, u[k])
           d == Count(u, Open, k - 1) - Count(u, Shut, k - 1)
<1>1. /\ Len(u) \in Outside(u) /\ \A j \in Outside(u) : u[j] \in {Open, Shut, Quote}
      /\ \A j \in 1..(Len(u) - 1) : Count(u, Open, j) > Count(u, Shut, j)
      /\ Count(u, Open, Len(u)) = Count(u, Shut, Len(u)) /\ u # << >>
      /\ u[1] = Open
  BY ValidMeans
<1>2. /\ Len(u) \in Nat /\ k \in Nat \ {0} /\ k \in Nat /\ k - 1 \in Nat /\ (k - 1) + 1 = k
      /\ DOMAIN u = 1..Len(u)
  OBVIOUS
<1>3. /\ s.end = 0 /\ s.depth = d /\ s.inString \in BOOLEAN /\ s.escapeNext \in BOOLEAN
      /\ s.inString <=> Quotes(u, k) % 2 = 1
      /\ s.escapeNext <=> Escaped(u, k)
      /\ s = [depth |-> s.depth, inString |-> s.inString, escapeNext |-> s.escapeNext, end |-> s.end]
  BY <1>2 DEF Scanned, ScanState
<1>4. /\ Quotes(u, k) \in Nat
      /\ IsQuote(u, k) => Quotes(u, k + 1) = Quotes(u, k) + 1
      /\ ~ IsQuote(u, k) => Quotes(u, k + 1) = Quotes(u, k)
  BY <1>2, QuotesGrow
<1>5. k \in Outside(u) <=> ~ s.inString
  <2>1. Quotes(u, k) % 2 = 0 <=> ~ (Quotes(u, k) % 2 = 1)
    BY <1>4
  <2> QED
    BY <1>2, <1>3, <2>1 DEF Outside
<1>6. IsQuote(u, k) <=> u[k] = Quote /\ ~ Escaped(u, k)
  BY DEF IsQuote, Escaped
<1>7. Escaped(u, k + 1) <=> u[k] = Escape /\ ~ Escaped(u, k)
  BY <1>2, EscapedNext
\* An escape, and so what it escapes, is within a string.
<1>8. u[k] = Escape \/ Escaped(u, k) => s.inString
  <2>1. CASE u[k] = Escape
    BY <1>1, <1>5, <2>1, SpecialCharacters
  <2>2. CASE Escaped(u, k)
    <3>1. k # 1
      BY <1>2, <2>2, EscapedNext
    <3>2. k - 1 \in Nat \ {0} /\ k - 1 \in DOMAIN u
      BY <1>2, <3>1
    <3>3. u[k - 1] = Escape
      BY <1>2, <2>2, <3>2, EscapedNext
    <3>4. k - 1 \notin Outside(u) /\ ~ IsQuote(u, k - 1)
      BY <1>1, <3>3, SpecialCharacters DEF IsQuote
    <3>5. Quotes(u, k) = Quotes(u, k - 1) /\ Quotes(u, k - 1) \in Nat
      BY <1>2, <3>2, <3>4, QuotesGrow
    <3>6. k \notin Outside(u)
      BY <1>2, <3>2, <3>4, <3>5 DEF Outside
    <3> QED
      BY <1>5, <3>6
  <2> QED
    BY <2>1, <2>2
<1>9. /\ Count(u, Open, k) \in Nat /\ Count(u, Shut, k) \in Nat
      /\ Count(u, Open, k - 1) \in Nat /\ Count(u, Shut, k - 1) \in Nat
      /\ Count(u, Open, k) = Count(u, Open, k - 1)
                               + (IF k \in Outside(u) /\ u[k] = Open THEN 1 ELSE 0)
      /\ Count(u, Shut, k) = Count(u, Shut, k - 1)
                               + (IF k \in Outside(u) /\ u[k] = Shut THEN 1 ELSE 0)
  BY CountGrows
<1>10. s.depth \in Int
  BY DEF ScanState
\* What the scan makes of it.
<1>11. /\ next.escapeNext <=> Escaped(u, k + 1)
       /\ next.inString <=> Quotes(u, k + 1) % 2 = 1
       /\ next.depth = Count(u, Open, k) - Count(u, Shut, k)
       /\ next.end = IF k \in Outside(u) /\ u[k] = Shut /\ d = 1 THEN place ELSE 0
  <2>1. CASE s.escapeNext
    <3>1. next = [s EXCEPT !.escapeNext = FALSE]
      BY <1>3, <2>1 DEF Scan
    <3>2. next.escapeNext = FALSE /\ next.inString = s.inString /\ next.depth = s.depth /\ next.end = 0
      BY <1>3, <3>1
    <3> QED
      BY <1>3, <1>4, <1>5, <1>6, <1>7, <1>8, <1>9, <2>1, <3>2
  <2>2. CASE ~ s.escapeNext /\ u[k] = Escape
    <3>1. next = [s EXCEPT !.escapeNext = TRUE]
      BY <1>3, <1>8, <2>2, SpecialCharacters DEF Scan
    <3>2. next.escapeNext = TRUE /\ next.inString = s.inString /\ next.depth = s.depth /\ next.end = 0
      BY <1>3, <3>1
    <3> QED
      BY <1>3, <1>4, <1>5, <1>6, <1>7, <1>8, <1>9, <2>2, <3>2, SpecialCharacters
  <2>3. CASE ~ s.escapeNext /\ u[k] = Quote
    <3>1. next = [s EXCEPT !.inString = ~ @]
      BY <1>3, <2>3, SpecialCharacters DEF Scan
    <3>2. next.escapeNext = FALSE /\ next.inString = ~ s.inString /\ next.depth = s.depth /\ next.end = 0
      BY <1>3, <2>3, <3>1
    <3>3. Quotes(u, k + 1) % 2 = 1 <=> ~ (Quotes(u, k) % 2 = 1)
      <4>1. Quotes(u, k) \in Nat /\ Quotes(u, k + 1) = Quotes(u, k) + 1
        BY <1>3, <1>4, <1>6, <2>3
      <4> QED
        BY <4>1
    <3>4. Count(u, Open, k) = Count(u, Open, k - 1) /\ Count(u, Shut, k) = Count(u, Shut, k - 1)
      BY <1>9, <2>3, SpecialCharacters
    <3> QED
      BY <1>3, <1>7, <2>3, <3>2, <3>3, <3>4, SpecialCharacters
  <2>4. CASE ~ s.escapeNext /\ u[k] = Open /\ ~ s.inString
    <3>1. next = [s EXCEPT !.depth = @ + 1]
      BY <1>3, <2>4, SpecialCharacters DEF Scan
    <3>2. next.escapeNext = FALSE /\ next.inString = s.inString /\ next.depth = s.depth + 1 /\ next.end = 0
      BY <1>3, <2>4, <3>1
    <3>3. Count(u, Open, k) = Count(u, Open, k - 1) + 1 /\ Count(u, Shut, k) = Count(u, Shut, k - 1)
      BY <1>5, <1>9, <2>4, SpecialCharacters
    <3>4. ~ IsQuote(u, k) /\ ~ Escaped(u, k + 1)
      BY <1>6, <1>7, <2>4, SpecialCharacters
    <3>5. next.depth = Count(u, Open, k) - Count(u, Shut, k)
      BY <1>3, <1>9, <3>2, <3>3
    <3>6. next.end = IF k \in Outside(u) /\ u[k] = Shut /\ d = 1 THEN place ELSE 0
      BY <2>4, <3>2, SpecialCharacters
    <3> QED
      BY <1>3, <1>4, <3>2, <3>4, <3>5, <3>6
  <2>5. CASE ~ s.escapeNext /\ u[k] = Shut /\ ~ s.inString
    <3>1. next = [s EXCEPT !.depth = @ - 1, !.end = IF s.depth = 1 THEN place ELSE 0]
      BY <1>3, <2>5, SpecialCharacters DEF Scan
    <3>2. /\ next.escapeNext = FALSE /\ next.inString = s.inString /\ next.depth = s.depth - 1
          /\ next.end = IF s.depth = 1 THEN place ELSE 0
      BY <1>3, <2>5, <3>1
    <3>3. Count(u, Open, k) = Count(u, Open, k - 1) /\ Count(u, Shut, k) = Count(u, Shut, k - 1) + 1
      BY <1>5, <1>9, <2>5, SpecialCharacters
    <3>4. ~ IsQuote(u, k) /\ ~ Escaped(u, k + 1)
      BY <1>6, <1>7, <2>5, SpecialCharacters
    <3>5. next.depth = Count(u, Open, k) - Count(u, Shut, k)
      BY <1>3, <1>9, <3>2, <3>3
    <3>6. next.end = IF k \in Outside(u) /\ u[k] = Shut /\ d = 1 THEN place ELSE 0
      BY <1>3, <1>5, <2>5, <3>2
    <3> QED
      BY <1>3, <1>4, <3>2, <3>4, <3>5, <3>6
  <2>6. CASE ~ s.escapeNext /\ u[k] \notin {Escape, Quote} /\ (u[k] \notin {Open, Shut} \/ s.inString)
    <3>1. next = s
      BY <1>3, <2>6 DEF Scan
    <3> QED
      BY <1>3, <1>4, <1>5, <1>6, <1>7, <1>9, <2>6, <3>1
  <2> QED
    BY <1>3, <2>1, <2>2, <2>3, <2>4, <2>5, <2>6
<1> HIDE DEF next
<1>12. ASSUME k < Len(u) PROVE Scanned(u, k, next)
  <2>1. Count(u, Open, k) > Count(u, Shut, k)
    BY <1>1, <1>2, <1>12
  <2>2. ~ (k \in Outside(u) /\ u[k] = Shut /\ d = 1)
    BY <1>9, <2>1, SpecialCharacters
  <2> QED
    BY <1>11, <2>2 DEF Scanned
<1>13. ASSUME k = Len(u) PROVE next.end = place
  <2>1. k \in Outside(u) /\ Count(u, Open, k) = Count(u, Shut, k)
    BY <1>1, <1>13
  <2>2. k # 1
    <3> SUFFICES ASSUME k = 1 PROVE FALSE
      OBVIOUS
    <3>1. Count(u, Open, 0) = 0 /\ Count(u, Shut, 0) = 0
      BY CountGrows
    <3> QED
      BY <1>1, <1>9, <2>1, <3>1, SpecialCharacters
  <2>3. Count(u, Open, k - 1) > Count(u, Shut, k - 1)
    BY <1>1, <1>2, <1>13, <2>2
  <2>4. u[k] = Shut /\ d = 1
    BY <1>9, <2>1, <2>3
  <2> QED
    BY <1>11, <2>1, <2>4
<1> QED
  BY <1>12, <1>13 DEF next

\* The scan ends where the object does that begins at its start.
LEMMA ObjectEnds ==
  ASSUME NEW t \in Seq(Chars), NEW i \in DOMAIN t
  PROVE  /\ EndOf(t, i) \in 0..Len(t)
         /\ \A j \in DOMAIN t : Valid(SubSeq(t, i, j)) => EndOf(t, i) = j
<1> DEFINE n == Len(t) - i + 1
<1>1. n \in Nat /\ i \in 1..Len(t) /\ Len(t) \in Nat /\ DOMAIN t = 1..Len(t)
      /\ \A k \in 1..n : i + k - 1 \in 1..Len(t) /\ k - 1 \in 0..n /\ k \in 0..n
  OBVIOUS
<1>2. PICK turn \in [0..n -> ScanState(Len(t))] :
         /\ turn[0] = ScanStart
         /\ \A k \in 1..n : turn[k] = Scan(turn[k - 1], i + k - 1, t[i + k - 1])
         /\ EndOf(t, i) = turn[n].end
  BY ScanRuns
<1> HIDE DEF n
<1>3. EndOf(t, i) \in 0..Len(t)
  <2>1. turn[n] \in ScanState(Len(t))
    BY <1>1, <1>2
  <2> QED
    BY <1>2, <2>1 DEF ScanState
<1>4. ASSUME NEW j \in DOMAIN t, Valid(SubSeq(t, i, j)) PROVE EndOf(t, i) = j
  <2> DEFINE u == SubSeq(t, i, j)
             m == j - i + 1
  <2>1. u # << >>
    BY <1>4 DEF Valid
  <2>2. i <= j
    BY <1>1, <2>1, SubSeqProperties
  <2>3. /\ u \in Seq(Chars) /\ Len(u) = m /\ m \in 1..n
        /\ \A k \in 1..m : u[k] = t[i + k - 1]
    <3>1. i \in 1..(Len(t) + 1) /\ j \in (i - 1)..Len(t)
      BY <1>1, <2>2
    <3>2. /\ SubSeq(t, i, j) \in Seq(Chars) /\ Len(SubSeq(t, i, j)) = j - i + 1
          /\ \A k \in 1..(j - i + 1) : SubSeq(t, i, j)[k] = t[i + k - 1]
      BY <3>1, SubSeqProperties
    <3>3. m \in 1..n
      BY <1>1, <2>2 DEF n
    <3> QED
      BY <3>2, <3>3
  <2>4. m \in Nat \ {0} /\ n \in Nat /\ i + m - 1 = j
    BY <1>1, <2>3
  <2>5. \A k \in 1..m : k \in 1..n /\ k - 1 \in 0..n
    <3> HIDE DEF m, u
    <3> QED
      BY <2>3, <2>4
  <2> HIDE DEF m, u
  <2> DEFINE T == {k \in 0..(m - 1) : Scanned(u, k, turn[k])}
  <2>6. 0 \in T
    <3>1. /\ Count(u, Open, 0) = 0 /\ Count(u, Shut, 0) = 0
          /\ Quotes(u, 1) = 0 /\ ~ Escaped(u, 1)
      <4>1. 1 \in 1..Len(u) /\ 1 \in Nat \ {0}
        BY <2>3, <2>4
      <4> QED
        BY <2>3, <4>1, CountGrows, QuotesGrow, EscapedNext
    <3> QED
      BY <1>2, <2>4, <3>1 DEF Scanned, ScanStart
  <2>7. ASSUME NEW k \in 1..m, k - 1 \in T
        PROVE  /\ k < m => Scanned(u, k, turn[k])
               /\ k = m => turn[k].end = i + k - 1
    <3>1. k \in 1..Len(u) /\ Valid(u) /\ turn[k - 1] \in ScanState(Len(t)) /\ Scanned(u, k - 1, turn[k - 1])
      BY <1>2, <1>4, <2>3, <2>5, <2>7 DEF u
    <3>2. turn[k] = Scan(turn[k - 1], i + k - 1, u[k])
      BY <1>2, <2>3, <2>5
    <3>3. /\ k < Len(u) => Scanned(u, k, Scan(turn[k - 1], i + k - 1, u[k]))
          /\ k = Len(u) => Scan(turn[k - 1], i + k - 1, u[k]).end = i + k - 1
      <4>1. Len(t) \in Nat /\ u \in Seq(Chars)
        BY <1>1, <2>3
      <4> HIDE DEF T
      <4>2. \A place : /\ k < Len(u) => Scanned(u, k, Scan(turn[k - 1], place, u[k]))
                       /\ k = Len(u) => Scan(turn[k - 1], place, u[k]).end = place
        BY <3>1, <4>1, ObjectScanned, ZenonT(30)
      <4> QED
        BY <4>2
    <3> QED
      BY <2>3, <3>2, <3>3
  <2>8. \A k \in 0..(m - 1) : k \in T
    <3>1. m - 1 \in Nat
      BY <2>4
    <3>2. ASSUME NEW k \in 1..(m - 1), k - 1 \in T PROVE k \in T
      <4>1. k \in 1..m /\ k < m /\ k \in 0..(m - 1)
        BY <2>4
      <4> QED
        BY <2>7, <3>2, <4>1
    <3> HIDE DEF T
    <3> QED
      BY <2>6, <3>1, <3>2, InductionUpTo
  <2>9. turn[m].end = j
    <3>1. m \in 1..m /\ m - 1 \in 0..(m - 1)
      BY <2>4
    <3> HIDE DEF T
    <3> QED
      BY <2>4, <2>7, <2>8, <3>1
  \* From there on nothing changes.
  <2> DEFINE U == {k \in 0..n : k >= m => turn[k].end = j}
  <2>10. 0 \in U
    BY <2>4
  <2>11. ASSUME NEW k \in 1..n, k - 1 \in U PROVE k \in U
    <3>1. CASE k <= m
      BY <1>1, <2>4, <2>9, <3>1
    <3>2. CASE k > m
      <4>1. turn[k - 1].end = j /\ turn[k - 1] \in ScanState(Len(t)) /\ j # 0
        BY <1>1, <1>2, <2>4, <2>11, <3>2
      <4>2. turn[k] = turn[k - 1]
        BY <1>1, <1>2, <4>1, ScanTyped
      <4> QED
        BY <1>1, <4>1, <4>2
    <3> QED
      BY <2>4, <3>1, <3>2
  <2> HIDE DEF U
  <2>12. \A k \in 0..n : k \in U
    BY <2>4, <2>10, <2>11, InductionUpTo
  <2>13. n \in 0..n /\ n >= m
    BY <2>3, <2>4
  <2>14. turn[n].end = j
    BY <2>12, <2>13 DEF U
  <2> QED
    BY <1>2, <2>14
<1> QED
  BY <1>3, <1>4

LEMMA LeastIs ==
  ASSUME NEW S, S \subseteq Nat
  PROVE  /\ S # {} => Least(S) \in S
         /\ \A k \in S : (\A j \in S : k <= j) => Least(S) = k
<1>1. ASSUME S # {} PROVE Least(S) \in S /\ \A j \in S : Least(S) <= j
  <2>1. \E k \in S : \A j \in S : k <= j
    BY <1>1, LeastNatural
  <2> QED
    BY <2>1 DEF Least
<1>2. ASSUME NEW k \in S, \A j \in S : k <= j PROVE Least(S) = k
  <2>1. Least(S) \in S /\ Least(S) <= k /\ k <= Least(S)
    BY <1>1, <1>2
  <2>2. k \in Nat /\ Least(S) \in Nat
    BY <2>1
  <2> QED
    BY <2>1, <2>2
<1> QED
  BY <1>1, <1>2

\* What is cut out of a text, by places in it.
IsPart(x, t) == \E a \in 1..(Len(t) + 1), b \in 0..Len(t) : x = SubSeq(t, a, b)

LEMMA PartIsWithin ==
  ASSUME NEW t \in Seq(Chars), NEW x, IsPart(x, t), x # << >>
  PROVE  \E i, j \in DOMAIN t : x = SubSeq(t, i, j)
<1>1. PICK a \in 1..(Len(t) + 1), b \in 0..Len(t) : x = SubSeq(t, a, b)
  BY DEF IsPart
<1>2. Len(t) \in Nat /\ DOMAIN t = 1..Len(t)
  OBVIOUS
<1>3. a <= b
  BY <1>1, <1>2, SubSeqProperties
<1>4. a \in DOMAIN t /\ b \in DOMAIN t
  BY <1>2, <1>3
<1> QED
  BY <1>1, <1>4

\* What is between a mark and the first end after it.
LEMMA WithinIs ==
  ASSUME NEW t \in Seq(Chars), NEW m, NEW ends
  PROVE  /\ m \in ToSet(t) => IsPart(Within(t, m, ends), t)
         /\ \A i, j \in DOMAIN t :
              /\ i < j /\ t[i] = m /\ \A k \in 1..(i - 1) : t[k] # m
              /\ t[j] \in ends /\ \A k \in (i + 1)..(j - 1) : t[k] \notin ends
              => Within(t, m, ends) = SubSeq(t, i + 1, j - 1)
<1> DEFINE begins == {k \in DOMAIN t : t[k] = m}
           after(i) == {k \in (i + 1)..Len(t) : t[k] \in ends} \cup {Len(t) + 1}
<1>1. Len(t) \in Nat /\ DOMAIN t = 1..Len(t)
  OBVIOUS
<1>2. begins \subseteq Nat /\ \A i \in DOMAIN t : after(i) \subseteq Nat /\ Len(t) + 1 \in after(i)
  BY <1>1
<1>3. Within(t, m, ends) = SubSeq(t, Least(begins) + 1, Least(after(Least(begins))) - 1)
  BY DEF Within
<1>4. ASSUME m \in ToSet(t) PROVE IsPart(Within(t, m, ends), t)
  <2>1. begins # {}
    BY <1>4 DEF ToSet
  <2> DEFINE i == Least(begins)
             j == Least(after(i))
  <2>2. i \in 1..Len(t)
    <3>1. Least(begins) \in begins
      BY <1>2, <2>1, LeastIs
    <3> QED
      BY <1>1, <3>1
  <2>3. j \in (i + 1)..(Len(t) + 1)
    <3> HIDE DEF i
    <3>1. after(i) \subseteq Nat /\ after(i) # {}
      BY <1>1, <1>2, <2>2
    <3>2. Least(after(i)) \in after(i)
      BY <3>1, LeastIs
    <3> QED
      BY <1>1, <2>2, <3>2
  <2> HIDE DEF i, j
  <2>4. i + 1 \in 1..(Len(t) + 1) /\ j - 1 \in 0..Len(t)
    BY <1>1, <2>2, <2>3
  <2> QED
    BY <1>3, <2>4 DEF IsPart, i, j
<1>5. ASSUME NEW i \in DOMAIN t, NEW j \in DOMAIN t,
             i < j, t[i] = m, \A k \in 1..(i - 1) : t[k] # m,
             t[j] \in ends, \A k \in (i + 1)..(j - 1) : t[k] \notin ends
      PROVE  Within(t, m, ends) = SubSeq(t, i + 1, j - 1)
  <2>1. Least(begins) = i
    <3>1. i \in begins /\ \A k \in begins : i <= k
      BY <1>1, <1>5
    <3> QED
      BY <1>2, <3>1, LeastIs
  <2>2. Least(after(i)) = j
    <3>1. j \in after(i) /\ \A k \in after(i) : j <= k
      BY <1>1, <1>5
    <3>2. after(i) \subseteq Nat
      BY <1>2
    <3> QED
      BY <3>1, <3>2, LeastIs
  <2> HIDE DEF begins, after
  <2> QED
    BY <1>3, <2>1, <2>2
<1> QED
  BY <1>4, <1>5

\* The candidates are those places where an object begins.
LEMMA ScannedObjects ==
  ASSUME NEW t \in Seq(Chars)
  PROVE  /\ IsPart(ScanObjects(t), t)
         /\ (\E i, j \in DOMAIN t : Valid(SubSeq(t, i, j))) => Valid(ScanObjects(t))
<1> DEFINE starts == {k \in DOMAIN t : t[k] = Open /\ EndOf(t, k) # 0
                                       /\ Valid(SubSeq(t, k, EndOf(t, k)))}
           opens == {k \in DOMAIN t : t[k] = Open}
           shuts == {k \in DOMAIN t : t[k] = Shut}
           last == CHOOSE k \in shuts : \A j \in shuts : k >= j
<1>1. /\ Len(t) \in Nat /\ DOMAIN t = 1..Len(t) /\ \A k \in DOMAIN t : EndOf(t, k) \in 0..Len(t)
      /\ starts \subseteq Nat /\ opens \subseteq Nat /\ shuts \subseteq 1..Len(t)
  <2>1. Len(t) \in Nat /\ DOMAIN t = 1..Len(t)
    OBVIOUS
  <2> QED
    BY <2>1, ObjectEnds
<1>2. ScanObjects(t) =
        IF starts # {} THEN SubSeq(t, Least(starts), EndOf(t, Least(starts)))
        ELSE IF \E o \in opens, s \in shuts : o < s THEN SubSeq(t, Least(opens), last)
        ELSE t
  BY DEF ScanObjects
<1>3. ASSUME starts # {} PROVE IsPart(ScanObjects(t), t) /\ Valid(ScanObjects(t))
  <2>1. Least(starts) \in starts
    BY <1>1, <1>3, LeastIs
  <2>2. /\ Least(starts) \in 1..Len(t) /\ EndOf(t, Least(starts)) \in 0..Len(t)
        /\ Valid(SubSeq(t, Least(starts), EndOf(t, Least(starts))))
    BY <1>1, <2>1
  <2> HIDE DEF starts
  <2>3. Least(starts) \in 1..(Len(t) + 1)
    BY <1>1, <2>2
  <2> QED
    BY <1>2, <1>3, <2>2, <2>3 DEF IsPart
<1>4. ASSUME starts = {} PROVE IsPart(ScanObjects(t), t)
  <2>1. ASSUME NEW o \in opens, NEW s \in shuts, o < s PROVE IsPart(SubSeq(t, Least(opens), last), t)
    <3>1. Least(opens) \in opens
      BY <1>1, <2>1, LeastIs
    <3>2. \E k \in shuts : \A j \in shuts : k >= j
      <4> DEFINE R == {Len(t) - k : k \in shuts}
      <4>1. R \subseteq Nat /\ R # {}
        BY <1>1, <2>1
      <4>2. PICK r \in R : \A q \in R : r <= q
        <5> HIDE DEF R
        <5> QED
          BY <4>1, LeastNatural
      <4>3. PICK k \in shuts : r = Len(t) - k
        OBVIOUS
      <4>4. ASSUME NEW j \in shuts PROVE k >= j
        <5>1. Len(t) - j \in R
          OBVIOUS
        <5>2. Len(t) - k <= Len(t) - j /\ k \in Nat /\ j \in Nat
          <6>1. k \in Nat /\ j \in Nat
            BY <1>1
          <6> HIDE DEF R, shuts
          <6> QED
            BY <4>2, <4>3, <5>1, <6>1
        <5> QED
          BY <1>1, <5>2
      <4> QED
        BY <4>4
    <3>3. last \in shuts
      BY <3>2
    <3>4. Least(opens) \in 1..(Len(t) + 1) /\ last \in 0..Len(t)
      BY <1>1, <3>1, <3>3
    <3> HIDE DEF opens, last
    <3> QED
      BY <3>4 DEF IsPart
  <2>2. IsPart(t, t)
    <3>1. t = SubSeq(t, 1, Len(t)) /\ 1 \in 1..(Len(t) + 1) /\ Len(t) \in 0..Len(t)
      <4>1. /\ SubSeq(t, 1, Len(t)) \in Seq(Chars) /\ Len(SubSeq(t, 1, Len(t))) = Len(t) - 1 + 1
            /\ \A k \in 1..(Len(t) - 1 + 1) : SubSeq(t, 1, Len(t))[k] = t[1 + k - 1]
        <5>1. 1 \in 1..(Len(t) + 1) /\ Len(t) \in (1 - 1)..Len(t)
          BY <1>1
        <5> QED
          BY <5>1, SubSeqProperties
      <4>2. SubSeq(t, 1, Len(t)) = t
        BY <1>1, <4>1, SeqEqual
      <4> QED
        BY <1>1, <4>2
    <3> QED
      BY <3>1 DEF IsPart
  <2> HIDE DEF opens, shuts, last
  <2> QED
    BY <1>2, <1>4, <2>1, <2>2
<1>5. ASSUME NEW i \in DOMAIN t, NEW j \in DOMAIN t, Valid(SubSeq(t, i, j)) PROVE starts # {}
  <2>1. EndOf(t, i) = j /\ j # 0
    BY <1>1, <1>5, ObjectEnds
  <2>2. SubSeq(t, i, j) # << >> /\ SubSeq(t, i, j)[1] = Open
    BY <1>5, ValidMeans
  <2>3. i <= j
    BY <1>1, <2>2, SubSeqProperties
  <2>4. SubSeq(t, i, j)[1] = t[i]
    <3>1. i \in 1..(Len(t) + 1) /\ j \in (i - 1)..Len(t) /\ 1 \in 1..(j - i + 1) /\ i + 1 - 1 = i
      BY <1>1, <2>3
    <3> QED
      BY <3>1, SubSeqProperties
  <2>5. i \in starts
    BY <1>5, <2>1, <2>2, <2>4
  <2> QED
    BY <2>5
<1> HIDE DEF starts
<1> QED
  BY <1>3, <1>4, <1>5

LEMMA ExtractedIsPart ==
  ASSUME NEW t \in Seq(Chars)
  PROVE  IsPart(ExtractJson(t), t)
<1> DEFINE tagged == Within(t, Tag, {EndTag})
<1>1. CASE {Tag, EndTag} \subseteq ToSet(t) /\ (Valid(tagged) \/ IsString(tagged))
  <2>1. ExtractJson(t) = tagged /\ Tag \in ToSet(t)
    BY <1>1 DEF ExtractJson
  <2> QED
    BY <2>1, WithinIs
<1>2. CASE ~ ({Tag, EndTag} \subseteq ToSet(t) /\ (Valid(tagged) \/ IsString(tagged)))
  <2>1. ExtractJson(t) = IF JsonFence \in ToSet(t) THEN Within(t, JsonFence, {JsonFence, Fence})
                         ELSE IF Fence \in ToSet(t) THEN Within(t, Fence, {Fence})
                         ELSE ScanObjects(t)
    BY <1>2 DEF ExtractJson
  <2> QED
    BY <2>1, WithinIs, ScannedObjects
<1> QED
  BY <1>1, <1>2

\* _parse_response and _extract_json: whatever the characters, an object is found
\* if there is one, and what is found is one.
LEMMA ObjectsAreFound == ASSUME reply \in Seq(Chars) PROVE ObjectIsFound
<1> DEFINE t == reply
           found == ParseJson(t)
           object(i, j) == Valid(SubSeq(t, i, j))
           isFirst(k, marks) == t[k] \in marks /\ \A j \in 1..(k - 1) : t[j] \notin marks
           between(i, j, begin, ends) ==
             /\ i < j /\ isFirst(i, {begin}) /\ t[j] \in ends /\ object(i + 1, j - 1)
             /\ \A k \in (i + 1)..(j - 1) : t[k] \notin ends
           pairs == (DOMAIN t) \X (DOMAIN t)
           tagged == {p \in pairs : between(p[1], p[2], Tag, {EndTag})}
           fenced == {p \in pairs :
                        \/ between(p[1], p[2], JsonFence, {JsonFence, Fence})
                        \/ between(p[1], p[2], Fence, {Fence}) /\ JsonFence \notin ToSet(t)}
           inner(p) == SubSeq(t, p[1] + 1, p[2] - 1)
<1>1. \A x : Valid(x) => x # << >>
  BY DEF Valid
<1>2. /\ Valid(t) => found = t
      /\ ~ Valid(t) /\ ~ IsString(t) /\ Valid(ExtractJson(t)) => found = ExtractJson(t)
      /\ ~ Valid(t) /\ ~ (~ IsString(t) /\ Valid(ExtractJson(t))) => found = << >>
  BY DEF ParseJson
<1>3. Len(t) \in Nat /\ DOMAIN t = 1..Len(t)
  OBVIOUS
<1>4. \A x : x \in ToSet(t) <=> \E k \in DOMAIN t : t[k] = x
  BY DEF ToSet
<1>5. ASSUME found # << >> PROVE \E i, j \in DOMAIN t : object(i, j) /\ found = SubSeq(t, i, j)
  <2>1. Valid(found) /\ (found = t \/ found = ExtractJson(t))
    BY <1>2, <1>5
  <2>2. CASE found = ExtractJson(t)
    <3>1. IsPart(found, t)
      BY <2>2, ExtractedIsPart
    <3>2. PICK i \in DOMAIN t, j \in DOMAIN t : found = SubSeq(t, i, j)
      BY <1>5, <3>1, PartIsWithin
    <3> QED
      BY <2>1, <3>2
  <2>3. CASE found = t
    <3>1. 1 \in 1..(Len(t) + 1) /\ Len(t) \in (1 - 1)..Len(t)
      BY <1>3
    <3>2. /\ SubSeq(t, 1, Len(t)) \in Seq(Chars) /\ Len(SubSeq(t, 1, Len(t))) = Len(t) - 1 + 1
          /\ \A k \in 1..(Len(t) - 1 + 1) : SubSeq(t, 1, Len(t))[k] = t[1 + k - 1]
      BY <3>1, SubSeqProperties
    <3>3. SubSeq(t, 1, Len(t)) = t
      BY <1>3, <3>2, SeqEqual
    <3>4. 1 \in DOMAIN t /\ Len(t) \in DOMAIN t
      BY <1>3, <1>5, <2>3
    <3> HIDE DEF found
    <3> QED
      BY <2>1, <2>3, <3>3, <3>4
  <2> QED
    BY <2>1, <2>2, <2>3
<1> HIDE DEF found
<1>6. ASSUME ToSet(t) \cap Marks = {}, ~ IsString(t), \E i, j \in DOMAIN t : object(i, j)
      PROVE  found # << >>
  <2>1. Tag \notin ToSet(t) /\ JsonFence \notin ToSet(t) /\ Fence \notin ToSet(t)
    BY <1>6 DEF Marks
  <2>2. ExtractJson(t) = ScanObjects(t)
    BY <2>1 DEF ExtractJson
  <2>3. Valid(ExtractJson(t))
    BY <1>6, <2>2, ScannedObjects
  <2> QED
    BY <1>1, <1>2, <1>6, <2>3
\* What is between the first of a mark and the first end after it.
<1>7. ASSUME NEW p \in pairs, NEW begin, NEW ends, between(p[1], p[2], begin, ends)
      PROVE  /\ Within(t, begin, ends) = inner(p) /\ Valid(inner(p))
             /\ begin \in ToSet(t) /\ \E x \in ends : x \in ToSet(t)
  <2>1. /\ p[1] \in DOMAIN t /\ p[2] \in DOMAIN t
        /\ p[1] < p[2] /\ t[p[1]] = begin /\ \A k \in 1..(p[1] - 1) : t[k] # begin
        /\ t[p[2]] \in ends /\ \A k \in (p[1] + 1)..(p[2] - 1) : t[k] \notin ends
    BY <1>7
  <2>2. Within(t, begin, ends) = SubSeq(t, p[1] + 1, p[2] - 1)
    <3>1. \A i, j \in DOMAIN t :
            /\ i < j /\ t[i] = begin /\ \A k \in 1..(i - 1) : t[k] # begin
            /\ t[j] \in ends /\ \A k \in (i + 1)..(j - 1) : t[k] \notin ends
            => Within(t, begin, ends) = SubSeq(t, i + 1, j - 1)
      BY WithinIs, Zenon
    <3> HIDE DEF t, pairs, between
    <3> QED
      BY <2>1, <3>1
  <2> QED
    BY <1>4, <1>7, <2>1, <2>2
<1> HIDE DEF between, inner
<1>8. ASSUME ~ Valid(t), ~ IsString(t), NEW p \in tagged PROVE found = inner(p)
  <2>1. p \in pairs /\ between(p[1], p[2], Tag, {EndTag})
    OBVIOUS
  <2>2. /\ Within(t, Tag, {EndTag}) = inner(p) /\ Valid(inner(p))
        /\ Tag \in ToSet(t) /\ EndTag \in ToSet(t)
    BY <1>7, <2>1
  <2>3. ExtractJson(t) = inner(p)
    BY <2>2 DEF ExtractJson
  <2> QED
    BY <1>2, <1>8, <2>2, <2>3
<1>9. ASSUME ~ Valid(t), ~ IsString(t), ToSet(t) \cap {Tag, EndTag} = {}, NEW p \in fenced
      PROVE  found = inner(p)
  <2>1. Tag \notin ToSet(t)
    BY <1>9
  <2>2. ExtractJson(t) = IF JsonFence \in ToSet(t) THEN Within(t, JsonFence, {JsonFence, Fence})
                         ELSE IF Fence \in ToSet(t) THEN Within(t, Fence, {Fence})
                         ELSE ScanObjects(t)
    BY <2>1 DEF ExtractJson
  <2>3. ExtractJson(t) = inner(p) /\ Valid(inner(p))
    <3>1. /\ p \in pairs
          /\ \/ between(p[1], p[2], JsonFence, {JsonFence, Fence})
             \/ between(p[1], p[2], Fence, {Fence}) /\ JsonFence \notin ToSet(t)
      BY <1>9
    <3>2. CASE between(p[1], p[2], JsonFence, {JsonFence, Fence})
      BY <1>7, <2>2, <3>1, <3>2
    <3>3. CASE between(p[1], p[2], Fence, {Fence}) /\ JsonFence \notin ToSet(t)
      BY <1>7, <2>2, <3>1, <3>3
    <3> QED
      BY <3>1, <3>2, <3>3
  <2> QED
    BY <1>2, <1>9, <2>3
<1> QED
  BY <1>5, <1>6, <1>8, <1>9 DEF ObjectIsFound, found, between, inner

-----------------------------------------------------------------------------
(* Replies. *)

\* A reply is lines or characters.
ReplyType == reply \in Seq(Lines) \/ reply \in Seq(Chars)

LEMMA SequenceOf ==
  ASSUME NEW S, NEW s \in Seq(S), NEW T, ToSet(s) \subseteq T
  PROVE  s \in Seq(T)
<1>1. Len(s) \in Nat /\ DOMAIN s = 1..Len(s) /\ s = [k \in 1..Len(s) |-> s[k]]
  OBVIOUS
<1>2. \A k \in 1..Len(s) : s[k] \in T
  BY <1>1 DEF ToSet
<1>3. s \in [1..Len(s) -> T]
  BY <1>1, <1>2
<1> QED
  BY <1>1, <1>3, SeqDef

LEMMA ReplyIsTyped == ReplySpec => []ReplyType
<1>1. ReplyInit => ReplyType
  BY DEF ReplyInit, ReplyType
<1>2. ReplyType /\ [ReplyNext]_reply => ReplyType'
  <2> SUFFICES ASSUME ReplyType, [ReplyNext]_reply PROVE ReplyType'
    OBVIOUS
  <2>1. CASE /\ ToSet(reply) \subseteq Lines /\ Len(reply) < MaxLines
             /\ \E l \in Lines : reply' = Append(reply, l)
    <3>1. reply \in Seq(Lines)
      BY <2>1, SequenceOf DEF ReplyType
    <3>2. reply' \in Seq(Lines)
      BY <2>1, <3>1
    <3> QED
      BY <3>2 DEF ReplyType
  <2>2. CASE /\ ToSet(reply) \subseteq Chars /\ \E ch \in Chars : reply' = Append(reply, ch)
             /\ Len(reply') <= IF ToSet(reply') \cap Marks = {} THEN MaxChars ELSE MaxMarked
    <3>1. reply \in Seq(Chars)
      BY <2>2, SequenceOf DEF ReplyType
    <3>2. reply' \in Seq(Chars)
      BY <2>2, <3>1
    <3> QED
      BY <3>2 DEF ReplyType
  <2>3. CASE UNCHANGED reply
    BY <2>3 DEF ReplyType
  <2> QED
    BY <2>1, <2>2, <2>3 DEF ReplyNext
<1> QED
  BY <1>1, <1>2, PTL DEF ReplySpec

\* However long a reply, and whatever is in it: if it has an object the diagnosis
\* is made of one, tags and fences going first, and of nothing that is none; and
\* of a delimited block each field is what its latest header begins.
THEOREM RepliesAreRead == ReplySpec => []ReplyIsRead
<1>1. ReplyType => ReplyIsRead
  <2> SUFFICES ASSUME ReplyType PROVE ObjectIsFound /\ BlockIsRead
    BY DEF ReplyIsRead
  <2>1. ObjectIsFound
    <3> SUFFICES ASSUME ToSet(reply) \subseteq Chars PROVE ObjectIsFound
      BY DEF ObjectIsFound
    <3>1. reply \in Seq(Chars)
      BY SequenceOf DEF ReplyType
    <3> QED
      BY <3>1, ObjectsAreFound
  <2>2. BlockIsRead
    <3> SUFFICES ASSUME ToSet(reply) \subseteq Lines PROVE BlockIsRead
      BY DEF BlockIsRead
    <3>1. reply \in Seq(Lines)
      BY SequenceOf DEF ReplyType
    <3> QED
      BY <3>1, BlocksAreRead
  <2> QED
    BY <2>1, <2>2
<1> QED
  BY <1>1, ReplyIsTyped, PTL
=============================================================================
