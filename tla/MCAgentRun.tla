----------------------------- MODULE MCAgentRun -----------------------------
(* AgentRun with a small model that says one thing of every kind, two       *)
(* shapes of live logs, and every training example.                         *)
EXTENDS AgentProperties

Gold  == {<<"log", 2>>, <<"commit", "culprit">>}
Ghost == {<<"log", 9>>}
Late  == {<<"log", 3>>, <<"commit", "decoy">>}

Diagnosed(hyps) == Says([abstained |-> FALSE, reason |-> "", hyps |-> hyps])

MCReplies ==
  {[kind |-> "text"], [kind |-> "unhashable"],
   [kind |-> "bare_tool", tool |-> "query_logs"],
   Act("query_logs", NoArgs), Act("query_logs", [level |-> "ERROR"]),
   Act("get_recent_commits", [limit |-> 1]), Act("query_metrics", [since |-> 0]),
   Diagnosed(<<Gold>>), Diagnosed(<<Ghost, Gold>>), Diagnosed(<<Gold, Late>>),
   Says([abstained |-> TRUE, reason |-> "model", hyps |-> <<>>]),
   Says([abstained |-> TRUE, reason |-> "", hyps |-> <<>>])}

CliSteps     == 2
ServiceSteps == 3
EvalSteps    == 2

RawRow(id, ts, level) == [id |-> id, ts |-> ts, level |-> level, route |-> "failing"]

MCNewRows == {RawRow(NoId, 3, "ERROR")}

Commit(sha, ts) == [sha |-> sha, ts |-> ts, touches |-> "auth"]

SourceOf(directory, files, numbered, deploys) ==
  [directory |-> directory, files |-> files, numbered |-> numbered,
   commits |-> <<Commit("decoy", 1)>>, metrics |-> <<>>, torn |-> FALSE,
   deploys |-> deploys]

LiveSources ==
  {SourceOf(FALSE, <<<<RawRow(0, 2, "INFO"), RawRow(1, 4, "ERROR")>>>>, TRUE,
            <<Commit("culprit", 3)>>),
   SourceOf(FALSE, <<<<RawRow(1, 2, "INFO"), RawRow(NoId, 4, "ERROR")>>>>, FALSE, <<>>),
   SourceOf(FALSE, <<<<RawRow(NoId, 2, "INFO"), RawRow(0, 4, "ERROR")>>>>, FALSE, <<>>),
   SourceOf(TRUE, <<<<RawRow(NoId, 2, "INFO")>>, <<RawRow(NoId, 4, "ERROR")>>>>,
            FALSE, <<>>),
   SourceOf(FALSE, <<<<>>>>, TRUE, <<>>)}

ScenarioSource(s) ==
  [directory |-> FALSE, files |-> <<s.logs>>, numbered |-> TRUE,
   commits |-> s.commits, metrics |-> s.metrics, torn |-> FALSE, deploys |-> <<>>]

Job(caller, budget, cap) ==
  [caller |-> caller, budget |-> budget, cap |-> cap, hint |-> FALSE,
   pinned |-> FALSE, timing |-> FALSE, strict |-> FALSE, live |-> FALSE,
   script |-> <<>>, gold |-> {}, spec |-> <<>>]

Small == MakeScenario("bad_deploy", 2, 2)

(* A snapshot copied while the deploy file was being written.              *)
TornSnapshot ==
  [ScenarioSource(Small) EXCEPT !.torn = TRUE, !.deploys = <<Commit("late", 9)>>]

MCJobs ==
  {<<[Job("cli", CliSteps, 1) EXCEPT !.live = TRUE, !.strict = strict], src>> :
     strict \in BOOLEAN, src \in LiveSources}
  \cup {<<[Job("cli", CliSteps, 1) EXCEPT !.live = TRUE], Ingested(src)>> :
          src \in LiveSources}
  \cup {<<[Job("service", ServiceSteps, 1) EXCEPT !.hint = hint, !.pinned = pinned],
          ScenarioSource(Small)>> : hint \in BOOLEAN, pinned \in BOOLEAN}
  \cup {<<[Job("service", ServiceSteps, 1) EXCEPT !.pinned = TRUE], TornSnapshot>>}
  \cup {<<[Job("eval", EvalSteps, 0) EXCEPT !.timing = timing, !.pinned = pinned,
                                             !.gold = s.gold],
          ScenarioSource(s)>> : timing \in BOOLEAN, pinned \in BOOLEAN,
                                s \in {Small, TimeShift(Small)}}
  \cup {<<[Job("builder", 8, 0) EXCEPT !.script = x.script, !.spec = x,
                                       !.gold = x.scenario.gold],
          ScenarioSource(x.scenario)>> : x \in ExampleSpecs}
=============================================================================
