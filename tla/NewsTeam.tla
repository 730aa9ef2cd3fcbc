------------------------------- MODULE NewsTeam -------------------------------
(***************************************************************************)
(* The news agents (news_agents.py): NewsAgentTeam.search sends out one    *)
(* NewsScout for each angle, all at once, waits for all their reports and  *)
(* has a NewsCommander make one answer of them.  Each reports its progress *)
(* as events on one queue.                                                 *)
(*                                                                         *)
(* An action runs from one await of a task to the next.  An entry of a     *)
(* feed is [link, score], the link 0 standing for a missing one.           *)
(***************************************************************************)
EXTENDS Rankings, SequencesExt

CONSTANTS
  Feeds,           \* for each scout the number of its feeds, a sequence
  Contents,        \* what a feed can contain; a feed that cannot be read is empty
  MaxArticles      \* NewsScout.max_articles

Entries == [link : Nat, score : Int]

ASSUME NewsAssumption ==
  Feeds \in Seq(Nat) /\ Contents \subseteq Seq(Entries) /\ MaxArticles \in Nat

VARIABLES
  team,            \* "idle", "scouting", "commanding", "done", "failed" or "cancelled"
  scout,           \* what each scout waits for, "done" when it has reported
  fetched,         \* the entries each scout got, feed after feed
  sources,         \* the entries each scout reports about, or is going to
  events           \* the events put on progress_queue, pairs <<type, scout>>

newsVars == <<team, scout, fetched, sources, events>>

Scouts == DOMAIN Feeds

NewsInit ==
  /\ team = "idle"
  /\ scout = [s \in Scouts |-> "idle"]
  /\ fetched = [s \in Scouts |-> << >>]
  /\ sources = [s \in Scouts |-> << >>]
  /\ events = << >>

Tell(type, s) == <<<<type, s>>>>
ScoutGoes(s, place) == scout' = [scout EXCEPT ![s] = place]

-----------------------------------------------------------------------------
(* Variants with a mistake somebody could make; each breaks a property below. *)

\* Duplicates are only looked for within a feed.
TopEntriesPerFeed(entries) ==
  LET order == Descending(DOMAIN entries, [i \in DOMAIN entries |-> entries[i].score])
  IN  [k \in 1..(IF Len(order) < MaxArticles THEN Len(order) ELSE MaxArticles) |-> entries[order[k]]]

\* The "return report" of a scout without feeds is forgotten.
ScoutStartGoingOn(s) ==
  /\ team = "scouting" /\ scout[s] = "created"
  /\ ScoutGoes(s, "feeds")
  /\ events' = events \o Tell("scout_start", s)
                 \o (IF Feeds[s] = 0 THEN Tell("scout_done", s) ELSE << >>)
  /\ UNCHANGED <<team, fetched, sources>>

-----------------------------------------------------------------------------

\* search(): the tasks of the scouts are made, and gathered.
Search ==
  /\ team = "idle"
  /\ team' = "scouting"
  /\ scout' = [s \in Scouts |-> "created"]
  /\ events' = Tell("team_start", 0)
  /\ UNCHANGED <<fetched, sources>>

\* NewsScout.run up to its first await: fetching the feeds, if it has any.
ScoutStart(s) ==
  /\ team = "scouting" /\ scout[s] = "created"
  /\ IF Feeds[s] = 0
       THEN /\ ScoutGoes(s, "done")
            /\ events' = events \o Tell("scout_start", s) \o Tell("scout_done", s)
       ELSE ScoutGoes(s, "feeds") /\ events' = events \o Tell("scout_start", s)
  /\ UNCHANGED <<team, fetched, sources>>

\* Of entries with the same link the first, in order of their relevance, cut off.
TopEntries(entries) ==
  LET unique == {i \in DOMAIN entries :
                   entries[i].link = 0 \/ \A j \in 1..(i - 1) : entries[j].link # entries[i].link}
      order == Descending(unique, [i \in unique |-> entries[i].score])
  IN  [k \in 1..(IF Len(order) < MaxArticles THEN Len(order) ELSE MaxArticles) |-> entries[order[k]]]

\* All feeds are there (fetch_feed makes an empty one of an error).
FeedsArrive(s) ==
  /\ team = "scouting" /\ scout[s] = "feeds"
  /\ \E feeds \in [1..Feeds[s] -> Contents] :
       LET entries == FlattenSeq(feeds)
           top == TopEntries(entries)
       IN  /\ fetched' = [fetched EXCEPT ![s] = entries]
           /\ sources' = [sources EXCEPT ![s] = top]
           /\ IF top = << >>
                THEN ScoutGoes(s, "done") /\ events' = events \o Tell("scout_done", s)
                ELSE ScoutGoes(s, "pages") /\ UNCHANGED events
  /\ UNCHANGED team

\* All pages are there (fetch_page makes a text of an error); the model is asked.
PagesArrive(s) ==
  /\ team = "scouting" /\ scout[s] = "pages"
  /\ ScoutGoes(s, "llm")
  /\ UNCHANGED <<team, fetched, sources, events>>

ScoutAnswered(s) ==
  /\ team = "scouting" /\ scout[s] = "llm"
  /\ ScoutGoes(s, "done")
  /\ events' = events \o Tell("scout_done", s)
  /\ UNCHANGED <<team, fetched, sources>>

\* The client raises, or an entry of a feed has fields that cannot be scored or
\* that no Source can be made of: the Sources made before it stay in the report.
ScoutFails(s) ==
  /\ team = "scouting" /\ scout[s] \in {"feeds", "pages", "llm"}
  /\ ScoutGoes(s, "done")
  /\ \E n \in 0..Len(sources[s]) :
       /\ scout[s] = "llm" => n = Len(sources[s])
       /\ sources' = [sources EXCEPT ![s] = SubSeq(@, 1, n)]
  /\ events' = events \o Tell("scout_error", s)
  /\ UNCHANGED <<team, fetched>>

\* gather() returns, and synthesize() asks the model.
Synthesize ==
  /\ team = "scouting" /\ \A s \in Scouts : scout[s] = "done"
  /\ team' = "commanding"
  /\ events' = events \o Tell("commander_start", 0)
  /\ UNCHANGED <<scout, fetched, sources>>

CommanderAnswered ==
  /\ team = "commanding"
  /\ team' = "done"
  /\ events' = events \o Tell("commander_done", 0) \o Tell("team_done", 0)
  /\ UNCHANGED <<scout, fetched, sources>>

\* The commander catches nothing: search() raises.
CommanderFails ==
  /\ team = "commanding"
  /\ team' = "failed"
  /\ UNCHANGED <<scout, fetched, sources, events>>

\* NewsManager.stop: the scouts are cancelled with search() and say nothing, since
\* CancelledError is no Exception.
CancelSearch ==
  /\ team \in {"scouting", "commanding"}
  /\ team' = "cancelled"
  /\ UNCHANGED <<scout, fetched, sources, events>>

ScoutStep(s) ==
  ScoutStart(s) \/ FeedsArrive(s) \/ PagesArrive(s) \/ ScoutAnswered(s) \/ ScoutFails(s)

TeamStep == Synthesize \/ CommanderAnswered \/ CommanderFails

NewsNext == Search \/ TeamStep \/ CancelSearch \/ \E s \in Scouts : ScoutStep(s)

NewsSpec == NewsInit /\ [][NewsNext]_newsVars

\* The client, and the timeouts of 12 and 15 seconds, end every await.
NewsFairness == WF_newsVars(TeamStep) /\ \A s \in Scouts : WF_newsVars(ScoutStep(s))

-----------------------------------------------------------------------------

Places(type, s) == {i \in DOMAIN events : events[i] = <<type, s>>}

\* Whatever its scouts meet, a search asks the commander exactly when each of
\* them has told of its start and then, once, of its end: the page's cards are
\* all settled by then, none is settled twice, and no failed scout ends a search.
ScoutsSettleFirst ==
  \A s \in Scouts :
    LET ends == Places("scout_done", s) \cup Places("scout_error", s)
        asked == Places("commander_start", 0)
    IN  /\ \A i, j \in ends : i = j
        /\ \A e \in ends : \E b \in Places("scout_start", s) : b < e
        /\ \A c \in asked : \E e \in ends : e < c
        /\ team \in {"commanding", "done", "failed"} => asked # {}

\* What a scout reports about has no link twice, and nothing it left out is
\* more relevant than something it took, unless its link came up before: the
\* first entry with a link stands for it, however relevant the others are.
BestEntriesReported ==
  \A s \in Scouts :
    LET all == fetched[s]
        taken == sources[s]
        first(i) == all[i].link = 0 \/ \A j \in DOMAIN all : all[j].link = all[i].link => i <= j
    IN  /\ Len(taken) <= MaxArticles
        /\ \A k, l \in DOMAIN taken : taken[k].link = taken[l].link /\ taken[k].link # 0 => k = l
        /\ \A i \in DOMAIN all : first(i) /\ all[i] \notin ToSet(taken) =>
             \A k \in DOMAIN taken : all[i].score <= taken[k].score

\* A search ends, with an answer, an error or a stop.
SearchEnds == team = "scouting" ~> team \in {"done", "failed", "cancelled"}
=============================================================================
