----------------------------- MODULE MatrixCell -----------------------------
(***************************************************************************)
(* A cell of the comparison matrix: evals/matrix/run_cell.py scores every   *)
(* scenario in some passes and leaves a directory behind, one file of       *)
(* records for a pass and a summary, cell.json, written last;               *)
(* evals/matrix/report.py makes a row of the summary.  The process may be   *)
(* killed between any two steps, and the cell may be run again, with other  *)
(* arguments, into the same directory.                                      *)
(*                                                                         *)
(* What run_scenario finds (AgentRun) is here a result: whether the judge   *)
(* agrees, how many handles are fabricated, whether the model abstained of  *)
(* its own, how many unobserved arguments it used, and the tokens of the    *)
(* calls it made of the reasoner and of the verifier.                       *)
(***************************************************************************)
EXTENDS Integers, Sequences, FiniteSets

CONSTANTS ScenarioCount,  \* scenarios in the directory, in the order of their names
          Overlaps,       \* those whose semantic core the training split has:
                          \* no holdout, whose records carry no such flag
          Arguments,      \* the command lines a cell is run with
          Results,        \* what run_scenario may find
          MaxStarts       \* bound: how often the cell is run

ASSUME ScenarioCountAssumption == ScenarioCount \in Nat \ {0}
ASSUME ArgumentsAssumption == \A a \in Arguments : a.passes \in Int
ASSUME ResultsAssumption ==
  \A r \in Results : r.calls \in Seq(Int) /\ r.verifierCalls \in Seq(Int)

Unreported  == -1         \* a backend that reports no tokens; no token total
Unset       == "unset"    \* an environment variable
DefaultModel == "default" \* DEFAULT_MODEL
StandardPasses   == 3     \* _STD_PASSES
StandardMaxSteps == 8     \* _STD_MAX_STEPS

VARIABLES cell,           \* cell.json: Absent, Torn or a summary
          passFile,       \* pass_N.jsonl, by N
          phase, args,    \* the process
          records, perPass, allRecords,
          calls, verifierCalls,      \* the providers' logs of calls
          reasonerSeen, verifierSeen,
          starts, exit, row          \* invocations; exit code; row reported

files   == <<cell, passFile>>
process == <<args, records, perPass, allRecords, calls, verifierCalls,
             reasonerSeen, verifierSeen>>
vars    == <<cell, passFile, phase, args, records, perPass, allRecords, calls,
             verifierCalls, reasonerSeen, verifierSeen, starts, exit, row>>

Absent == [file |-> "absent"]
Torn   == [file |-> "torn"]
Complete(c) == "file" \notin DOMAIN c

(* sum() of a list of numbers.                                             *)
Total(s) ==
  LET upto[n \in 0..Len(s)] == IF n = 0 THEN 0 ELSE upto[n - 1] + s[n]
  IN  upto[Len(s)]

(* The sum of what a backend reports, or of the totals of a report; nothing *)
(* when one is missing or there is none.                                    *)
SumOrNone(s) ==
  IF s = <<>> \/ \E n \in DOMAIN s : s[n] = Unreported THEN Unreported ELSE Total(s)

(* Slip: the model of the environment variable.                             *)
ReasonerConfigured(a) == a.model

(* The model the provider was made with.                                    *)
Reasoner(a) == IF a.model = Unset THEN DefaultModel ELSE a.model

(* Exit 2: nothing to run, or a verifier that is not pinned or would verify *)
(* its own diagnoses.                                                       *)
ConfigError(a) ==
  \/ a.passes < 1
  \/ a.verify /\ a.verifierModel = Unset
  \/ a.verify /\ a.verifierModel = Reasoner(a) /\ ~ a.allowSelf

Init ==
  /\ cell = Absent /\ passFile = <<>>
  /\ phase = "idle" /\ args = <<>>
  /\ records = <<>> /\ perPass = <<>> /\ allRecords = <<>>
  /\ calls = <<>> /\ verifierCalls = <<>>
  /\ reasonerSeen = 0 /\ verifierSeen = 0
  /\ starts = 0 /\ exit = "none" /\ row = <<>>

-----------------------------------------------------------------------------
Refuse ==
  /\ phase = "idle" /\ starts < MaxStarts
  /\ \E a \in Arguments : ConfigError(a)
  /\ starts' = starts + 1 /\ exit' = "2"
  /\ UNCHANGED <<files, process, phase, row>>

Start ==
  /\ phase = "idle" /\ starts < MaxStarts
  /\ \E a \in Arguments : ~ ConfigError(a) /\ args' = a
  /\ starts' = starts + 1 /\ exit' = "none"
  /\ phase' = "clear"
  /\ records' = <<>> /\ perPass' = <<>> /\ allRecords' = <<>>
  /\ calls' = <<>> /\ verifierCalls' = <<>>
  /\ reasonerSeen' = 0 /\ verifierSeen' = 0
  /\ UNCHANGED <<files, row>>

(* Slip: the summary of the last run stays until the new one is written.    *)
ClearCellLate ==
  /\ phase = "clear"
  /\ phase' = "stale"
  /\ UNCHANGED <<files, process, starts, exit, row>>

(* cell.json goes first.                                                    *)
ClearCell ==
  /\ phase = "clear"
  /\ cell' = Absent /\ phase' = "stale"
  /\ UNCHANGED <<passFile, process, starts, exit, row>>

(* Slip: only the passes this run will write are cleared.                   *)
StalePassesKnown == DOMAIN passFile \cap 1..args.passes

(* glob("pass_*.jsonl").                                                    *)
StalePasses == DOMAIN passFile

ClearPass ==
  /\ phase = "stale"
  /\ \E p \in StalePasses :
       passFile' = [q \in DOMAIN passFile \ {p} |-> passFile[q]]
  /\ UNCHANGED <<cell, process, phase, starts, exit, row>>

PassIndex == Len(perPass) + 1

(* open(..., "w"): a file that is there is emptied.                         *)
OpenPass ==
  /\ \/ phase = "stale" /\ StalePasses = {}
     \/ phase = "summed"
  /\ PassIndex <= args.passes
  /\ passFile' = [q \in DOMAIN passFile \cup {PassIndex} |->
                    IF q = PassIndex THEN <<>> ELSE passFile[q]]
  /\ records' = <<>> /\ phase' = "pass"
  /\ UNCHANGED <<cell, args, perPass, allRecords, calls, verifierCalls,
                 reasonerSeen, verifierSeen, starts, exit, row>>

(* Slip: the whole log is charged to the scenario.                          *)
UsageDeltaWhole(log, start) == [calls |-> Len(log), tokens |-> SumOrNone(log)]

(* _usage_delta: the calls since the last record.                           *)
UsageDelta(log, start) ==
  LET new == SubSeq(log, start + 1, Len(log))
  IN  [calls |-> Len(new), tokens |-> SumOrNone(new)]

(* _scenario_record.                                                        *)
ScenarioRecord(scenario, result, usage, verifierUsage) ==
  [run |-> starts, pass |-> PassIndex, scenario |-> scenario,
   passed |-> IF args.score = "abstain" THEN result.deliberate /\ result.fabricated = 0
              ELSE result.judged /\ result.fabricated = 0,
   fabricated |-> result.fabricated, deliberate |-> result.deliberate,
   unobserved |-> result.unobserved, overlaps |-> scenario \in Overlaps,
   usage |-> usage, verifierUsage |-> verifierUsage]

(* One scenario: run, priced, and its record written and flushed.           *)
Score(result) ==
  /\ calls' = calls \o result.calls
  /\ verifierCalls' = IF args.verify THEN verifierCalls \o result.verifierCalls
                      ELSE verifierCalls
  /\ LET record == ScenarioRecord(Len(records) + 1, result,
                                  UsageDelta(calls', reasonerSeen),
                                  UsageDelta(verifierCalls', verifierSeen))
     IN  /\ records' = Append(records, record)
         /\ passFile' = [passFile EXCEPT ![PassIndex] = Append(@, record)]
  /\ reasonerSeen' = Len(calls') /\ verifierSeen' = Len(verifierCalls')

ScenarioEnds ==
  /\ phase = "pass" /\ Len(records) < ScenarioCount
  /\ \E result \in Results : Score(result)
  /\ UNCHANGED <<cell, phase, args, perPass, allRecords, starts, exit, row>>

(* An exception out of run_scenario: exit 3 when the model cannot be        *)
(* reached, a traceback otherwise; the calls made until then, of the        *)
(* reasoner and of the verifier, stay logged.                               *)
ScenarioRaises ==
  /\ phase = "pass" /\ Len(records) < ScenarioCount
  /\ \E result \in Results :
       /\ calls' = calls \o result.calls
       /\ verifierCalls' = IF args.verify THEN verifierCalls \o result.verifierCalls
                           ELSE verifierCalls
  /\ phase' = "idle" /\ exit' \in {"3", "traceback"}
  /\ UNCHANGED <<files, args, records, perPass, allRecords, reasonerSeen,
                 verifierSeen, starts, row>>

Select(s, Field(_)) == [n \in DOMAIN s |-> Field(s[n])]

Count(s, Test(_)) == Cardinality({n \in DOMAIN s : Test(s[n])})

(* _pass_summary.                                                           *)
PassSummary(rs) ==
  [passed       |-> Count(rs, LAMBDA r : r.passed),
   fabricating  |-> Count(rs, LAMBDA r : r.fabricated > 0),
   deliberate   |-> Count(rs, LAMBDA r : r.deliberate),
   unobserved   |-> Total(Select(rs, LAMBDA r : r.unobserved)),
   tokens       |-> SumOrNone(Select(rs, LAMBDA r : r.usage.tokens)),
   verifierTokens |-> SumOrNone(Select(rs, LAMBDA r : r.verifierUsage.tokens)),
   calls        |-> Total(Select(rs, LAMBDA r : r.usage.calls)),
   verifierCalls |-> Total(Select(rs, LAMBDA r : r.verifierUsage.calls))]

PassEnds ==
  /\ phase = "pass" /\ Len(records) = ScenarioCount
  /\ perPass' = Append(perPass, PassSummary(records))
  /\ allRecords' = allRecords \o records
  /\ phase' = "summed"
  /\ UNCHANGED <<files, args, records, calls, verifierCalls, reasonerSeen,
                 verifierSeen, starts, exit, row>>

(* _core_split: scenarios, passes and records of one side.  A side without  *)
(* records, None in the code, is one of zeros; the summary of a holdout     *)
(* cell has neither side.                                                   *)
CoreSplit(rs, side) ==
  LET subset == {n \in DOMAIN rs : rs[n].overlaps = side}
  IN  [scenarios |-> Cardinality({rs[n].scenario : n \in subset}),
       passed    |-> Cardinality({n \in subset : rs[n].passed}),
       of        |-> Cardinality(subset)]

Summary ==
  [run |-> starts, args |-> args, model |-> Reasoner(args), perPass |-> perPass,
   passed |-> Total(Select(perPass, LAMBDA p : p.passed)),
   fabricating |-> Total(Select(perPass, LAMBDA p : p.fabricating)),
   recall |-> IF args.score = "abstain"
              THEN Total(Select(perPass, LAMBDA p : p.deliberate)) ELSE Unreported,
   unobserved |-> Total(Select(perPass, LAMBDA p : p.unobserved)),
   overlapping |-> CoreSplit(allRecords, TRUE), fresh |-> CoreSplit(allRecords, FALSE)]

(* The summary is written in place.                                         *)
CellOpened ==
  /\ phase = "summed" /\ Len(perPass) = args.passes
  /\ cell' = Torn /\ phase' = "writing"
  /\ UNCHANGED <<passFile, process, starts, exit, row>>

CellWritten ==
  /\ phase = "writing"
  /\ cell' = Summary
  /\ phase' = "idle" /\ exit' = "0"
  /\ UNCHANGED <<passFile, process, starts, row>>

Killed ==
  /\ phase # "idle"
  /\ phase' = "idle" /\ exit' = "killed"
  /\ UNCHANGED <<files, process, starts, row>>

-----------------------------------------------------------------------------
(* _conditions_flag.                                                        *)
ConditionsFlag(c) ==
  (IF c.args.passes < StandardPasses THEN {"passes"} ELSE {})
  \cup (IF c.args.maxSteps # StandardMaxSteps THEN {"max_steps"} ELSE {})
  \cup (IF c.args.verify /\ c.args.verifierModel = c.model THEN {"self-verify"}
        ELSE {})

(* _row.                                                                    *)
Row(c) ==
  [runs   |-> ScenarioCount * c.args.passes, passed |-> c.passed,
   tokens |-> SumOrNone(Select(c.perPass, LAMBDA p : p.tokens)),
   calls  |-> Total(Select(c.perPass, LAMBDA p : p.calls)),
   flags  |-> ConditionsFlag(c), args |-> c.args]

(* report.main: exit 1 when cell.json is missing, an error when it is torn. *)
Report ==
  /\ row' = IF Complete(cell) THEN <<Row(cell)>> ELSE <<>>
  /\ UNCHANGED <<files, process, phase, starts, exit>>

Next == \/ Refuse \/ Start \/ ClearCell \/ ClearPass \/ OpenPass
        \/ ScenarioEnds \/ ScenarioRaises \/ PassEnds
        \/ CellOpened \/ CellWritten \/ Killed
        \/ Report

Spec == Init /\ [][Next]_vars

-----------------------------------------------------------------------------
(* The variables have their types.                                         *)
CellTypeOK ==
  /\ Complete(cell) => cell.run \in 1..starts /\ cell.args \in Arguments
  /\ phase \in {"idle", "clear", "stale", "pass", "summed", "writing"}
  /\ exit \in {"none", "0", "2", "3", "traceback", "killed"}
  /\ starts \in 0..MaxStarts
  /\ Len(records) <= ScenarioCount
  /\ phase # "idle" => ~ ConfigError(args) /\ Len(perPass) <= args.passes
  /\ reasonerSeen <= Len(calls) /\ verifierSeen <= Len(verifierCalls)
  /\ Len(row) <= 1

(* The files of a cell that has its summary are that run's passes and no     *)
(* other, and every pass holds every scenario once and in order.            *)
FilesAreItsRun ==
  Complete(cell) =>
    /\ DOMAIN passFile = 1..cell.args.passes
    /\ \A p \in DOMAIN passFile :
         /\ Len(passFile[p]) = ScenarioCount
         /\ \A n \in 1..ScenarioCount :
              LET r == passFile[p][n]
              IN  r.run = cell.run /\ r.pass = p /\ r.scenario = n

(* A cell that has its summary is exactly the run the summary is of, however *)
(* many runs were cut short in the directory before: the files are that     *)
(* run's, and the totals are those of the records on the disk               *)
(* (run_cell.py:314); outside the holdout the two sides of the core split   *)
(* are all of them.                                                         *)
SummaryIsItsPasses ==
  /\ FilesAreItsRun
  /\ Complete(cell) =>
       LET c  == cell
           On == {<<p, n>> : p \in DOMAIN passFile, n \in 1..ScenarioCount}
           Of(Test(_)) == Cardinality({x \in On : Test(passFile[x[1]][x[2]])})
       IN  /\ c.passed      = Of(LAMBDA r : r.passed)
           /\ c.fabricating = Of(LAMBDA r : r.fabricated > 0)
           /\ c.recall # Unreported => c.recall = Of(LAMBDA r : r.deliberate)
           /\ c.overlapping.passed + c.fresh.passed = c.passed
           /\ c.overlapping.of + c.fresh.of = ScenarioCount * c.args.passes
           /\ c.overlapping.scenarios + c.fresh.scenarios = ScenarioCount

(* Every call of a model is charged to one scenario and no call to two, and *)
(* a total of tokens is only given when it counts every call of the run     *)
(* (run_cell.py:96).                                                        *)
UsageIsPartitioned ==
  LET current == allRecords \o (IF phase = "pass" THEN records ELSE <<>>)
      charged == Total(Select(current, LAMBDA r : r.usage.calls))
      verifierCharged == Total(Select(current, LAMBDA r : r.verifierUsage.calls))
  IN  /\ phase \in {"pass", "summed", "writing"} =>
           /\ charged = Len(calls) /\ verifierCharged = Len(verifierCalls)
      /\ exit = "0" =>
           LET priced == Row(cell)
           IN  /\ priced.calls = Len(calls)
               /\ priced.tokens # Unreported => priced.tokens = SumOrNone(calls)

(* A row of the table that carries no flag is of a run under the standard   *)
(* conditions, and a model that verified itself was told to and is flagged, *)
(* also when its name was left to the default (report.py:29).  Names are    *)
(* compared as they are spelled: two aliases of one artifact are two models *)
(* to the check (run_cell.py:272 says so) and to the flag alike.            *)
ReportIsHonest ==
  row # <<>> =>
    LET r == row[1]
        selfVerified == r.args.verify /\ r.args.verifierModel =
                          (IF r.args.model = Unset THEN DefaultModel ELSE r.args.model)
    IN  /\ r.flags = {} => /\ r.args.passes >= StandardPasses
                           /\ r.args.maxSteps = StandardMaxSteps
                           /\ ~ selfVerified
        /\ selfVerified => r.args.allowSelf /\ "self-verify" \in r.flags
=============================================================================
