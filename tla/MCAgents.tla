------------------------------- MODULE MCAgents -------------------------------
(***************************************************************************)
(* The news team, the vision agent and its parser.  They share nothing, so *)
(* each is explored while the others are at rest.                          *)
(***************************************************************************)
EXTENDS NewsTeam, VisionAgent, DiagnosisParser

FeedsDef == <<0, 1, 2>>

Entry(l, s) == [link |-> l, score |-> s]
ContentsDef ==
  {<< >>, <<Entry(1, 1), Entry(2, 2)>>, <<Entry(2, 2), Entry(0, 1)>>, <<Entry(3, 0), Entry(1, 2)>>}

Init == NewsInit /\ VisionInit /\ ReplyInit

Next ==
  \/ NewsNext /\ VisionInit /\ ReplyInit /\ UNCHANGED <<visionVars, reply>>
  \/ VisionNext /\ NewsInit /\ ReplyInit /\ UNCHANGED <<newsVars, reply>>
  \/ ReplyNext /\ NewsInit /\ VisionInit /\ UNCHANGED <<newsVars, visionVars>>

Spec == Init /\ [][Next]_<<newsVars, visionVars, reply>> /\ NewsFairness /\ VisionFairness

\* Neither a search nor a stream of an analysis leaves its page waiting for ever.
AgentsEnd == SearchEnds /\ StreamsAnswer
=============================================================================
