-------------------------- MODULE TrainingExamples --------------------------
(***************************************************************************)
(* The generated scenarios of the evaluation (evals/scenarios/generator.py) *)
(* and the training examples built from them (evals/training/              *)
(* trajectories.py): the recipes that ablate or bait a scenario, the        *)
(* scripts of replies, and the gate a played-back example must pass.        *)
(*                                                                         *)
(* Of a row's text only what a label depends on is kept: the component a    *)
(* commit's files and message speak of, and the one an error's text names,  *)
(* if it names one.                                                         *)
(***************************************************************************)
EXTENDS IncidentSignals

FailureClasses == {"bad_deploy", "config_error", "resource_exhaustion"}

Readme == "README.md"          \* what a documentation commit touches

Nothing == "no component"      \* what a resource error's text names

(* The stems of the bank's modules: no two modules share one.               *)
Modules == {"auth", "billing", "cart"}

(* What the culprit's commit touches, by the class of the failure.          *)
Component(class) ==
  CASE class = "bad_deploy" -> "auth"
    [] class = "config_error" -> "config key"
    [] class = "resource_exhaustion" -> "pool"

(* _resource_metric: a baseline that jitters, a climb from the deploy on    *)
(* (in two steps for four) and a last point, at the first error, at the     *)
(* ceiling.                                                                 *)
ResourceMetric(deploy, firstError) ==
  [metric |-> "pool",
   points |-> [k \in 1..3 |-> [ts |-> deploy - 4 + k, value |-> 1 + (k % 2)]]
              \o <<[ts |-> deploy + 1, value |-> 3], [ts |-> deploy + 2, value |-> 4],
                   [ts |-> firstError, value |-> 4]>>]

(* _make_scenario: a baseline, the culprit's deploy, the first error, one   *)
(* row of another route, the rest of the errors; times in that order and    *)
(* the decoy commit before all.                                             *)
MakeScenario(class, baseline, errors) ==
  LET first   == baseline + 1
      deploy  == first + 1
      scarce  == class = "resource_exhaustion"
      calm(n) == n < first \/ n = first + 1
      Row(n)  == [id    |-> n - 1,
                  ts    |-> IF n < first THEN n + 1 ELSE n + 2,
                  level |-> IF calm(n) THEN "INFO" ELSE "ERROR",
                  route |-> IF n = first + 1 THEN "noise" ELSE "failing",
                  names |-> IF calm(n) \/ scarce THEN Nothing ELSE Component(class)]
  IN  [class   |-> class,
       now     |-> baseline + errors + 4,
       logs    |-> [n \in 1..(baseline + errors + 1) |-> Row(n)],
       commits |-> <<[sha |-> "decoy", ts |-> 1, touches |-> Readme],
                     [sha |-> "culprit", ts |-> deploy, touches |-> Component(class)]>>,
       metrics |-> IF scarce THEN <<ResourceMetric(deploy, first + 2)>> ELSE <<>>,
       gold    |-> {<<"commit", "culprit">>,
                    IF scarce THEN <<"metric", "pool">> ELSE <<"log", baseline>>}]

(* generate_scenarios, up to the bursts' lengths it draws.                  *)
GenerateScenarios ==
  {MakeScenario(class, baseline, errors) :
     class \in FailureClasses, baseline \in 2..3, errors \in 2..4}

ErrorRows(s) == SelectSeq(s.logs, LAMBDA r : r.level = "ERROR")

-----------------------------------------------------------------------------
(* Abstention recipes and traps: the same scenario but for one element.     *)

(* The errors' text is rewritten.                                           *)
Naming(s, what) ==
  [s EXCEPT !.logs = [n \in DOMAIN s.logs |->
     IF s.logs[n].level = "ERROR" THEN [s.logs[n] EXCEPT !.names = what]
     ELSE s.logs[n]]]

OnCulprit(s, field, value) ==
  [s EXCEPT !.commits = [n \in DOMAIN s.commits |->
     IF s.commits[n].sha = "culprit" THEN [s.commits[n] EXCEPT ![field] = value]
     ELSE s.commits[n]]]

NoCulprit(s) ==
  [s EXCEPT !.commits = SelectSeq(@, LAMBDA c : c.sha # "culprit")]

(* Slip: the metrics are left to climb.                                     *)
NoIncidentClimbing(s) == [s EXCEPT !.logs = SelectSeq(@, LAMBDA r : r.level # "ERROR")]

(* Every point of the series gets the value of its first one.               *)
Flattened(m) ==
  [m EXCEPT !.points = [n \in DOMAIN @ |-> [@[n] EXCEPT !.value = m.points[1].value]]]

NoIncident(s) ==
  [s EXCEPT !.logs    = SelectSeq(@, LAMBDA r : r.level # "ERROR"),
            !.metrics = [n \in DOMAIN @ |-> Flattened(@[n])]]

TimeShift(s) ==
  LET last == ErrorRows(s)[Len(ErrorRows(s))].ts
  IN  [OnCulprit(s, "ts", last + 1) EXCEPT !.now = last + 2]

(* The module is any that the culprit's commit has not touched.             *)
WeakLinks(s) ==
  {Naming(s, module) : module \in Modules \ {s.commits[n].touches : n \in DOMAIN s.commits}}

DecoyWall(s) == OnCulprit(s, "touches", Readme)

MetricBait(s) == Naming(s, Nothing)

AbstainVariants == {"no_culprit", "no_incident", "time_shift", "weak_link",
                    "decoy_wall"}

SolvableVariants == {"retry", "recovery", "narrowing", "metric_bait",
                     "decoy_bait", "canonical_commits_first",
                     "canonical_logs_first"}

(* The scenarios a variant may replay (ABSTAIN_RECIPES, _solvable_spec).    *)
(* The bait of decoy_bait is a wording.                                     *)
Variants(s, variant) ==
  CASE variant = "no_culprit"  -> {NoCulprit(s)}
    [] variant = "no_incident" -> {NoIncident(s)}
    [] variant = "time_shift"  -> {TimeShift(s)}
    [] variant = "weak_link"   -> WeakLinks(s)
    [] variant = "decoy_wall"  -> {DecoyWall(s)}
    [] variant = "metric_bait" -> {MetricBait(s)}
    [] OTHER                   -> {s}

(* _CONSTRAINTS: which scenarios a variant is drawn from (take_scenarios).  *)
DrawnFrom(s, variant) ==
  /\ variant = "weak_link"   => s.class = "bad_deploy"
  /\ variant = "metric_bait" => s.class # "resource_exhaustion"

-----------------------------------------------------------------------------
(* Scripts.  A reply is what the model says in one turn.                    *)

NoArgs == [a \in {} |-> 0]

Act(tool, args) == [kind |-> "tool", tool |-> tool, args |-> args]

Says(d) == [kind |-> "diagnose", diagnosis |-> d]

(* _diagnosis_payload: the gold evidence, in one hypothesis.                *)
GoldDiagnosis(s) == [abstained |-> FALSE, reason |-> "", hyps |-> <<s.gold>>]

(* _abstention_payload: whether the reason speaks of metrics.               *)
AbstentionPayload(s, recipe) ==
  [abstained |-> TRUE, hyps |-> <<>>,
   reason |-> IF recipe = "no_incident" /\ s.metrics # <<>>
              THEN "model, on metrics" ELSE "model"]

(* Slip: metrics are queried for a bait only.                               *)
ToolScriptUnprobed(s, order, narrowed, probe) ==
  LET err  == ErrorRows(s)
      logs == <<Act("query_logs", NoArgs)>>
              \o (IF narrowed /\ err # <<>>
                  THEN <<Act("query_logs", [level |-> "ERROR", route |-> err[1].route])>>
                  ELSE <<>>)
      commits == <<Act("get_recent_commits", NoArgs)>>
  IN  (IF order = "logs_first" THEN logs \o commits ELSE commits \o logs)
      \o (IF probe THEN <<Act("query_metrics", NoArgs)>> ELSE <<>>)

(* _tool_script: broad calls first; a narrowed one copies what it saw.      *)
ToolScript(s, order, narrowed, probe) ==
  LET err  == ErrorRows(s)
      logs == <<Act("query_logs", NoArgs)>>
              \o (IF narrowed /\ err # <<>>
                  THEN <<Act("query_logs", [level |-> "ERROR", route |-> err[1].route])>>
                  ELSE <<>>)
      commits == <<Act("get_recent_commits", NoArgs)>>
  IN  (IF order = "logs_first" THEN logs \o commits ELSE commits \o logs)
      \o (IF s.metrics # <<>> \/ probe
          THEN <<Act("query_metrics", NoArgs)>> ELSE <<>>)

(* The masked first call of a variant: a `since' that is not canonical, or  *)
(* one that finds nothing (_recovery_prefix).                               *)
MaskedPrefixes(s, variant) ==
  CASE variant = "retry"    -> {<<Act("query_logs", [since |-> 0])>>}
    [] variant = "recovery" -> {<<Act("query_logs", [since |-> s.now])>>,
                                <<Act("query_logs", [route |-> "absent"])>>}
    [] OTHER -> {<<>>}

(* _solvable_spec.                                                          *)
SolvableSpecs(base, variant) ==
  LET order == IF variant = "canonical_commits_first" THEN "commits_first"
               ELSE "logs_first"
      Example(s, prefix) ==
        [scenario |-> s, kind |-> "diagnose", variant |-> variant,
         script |-> prefix \o ToolScript(s, order, variant = "narrowing",
                                         variant = "metric_bait")
                           \o <<Says(GoldDiagnosis(s))>>,
         masked |-> 1..Len(prefix),
         violations |-> IF variant = "retry" THEN 1 ELSE 0]
  IN  {Example(s, prefix) : s \in Variants(base, variant),
                            prefix \in MaskedPrefixes(base, variant)}

(* _abstain_spec.                                                           *)
AbstainSpecs(base, recipe) ==
  {[scenario |-> s, kind |-> "abstain", variant |-> recipe,
    script |-> ToolScript(s, order, FALSE, FALSE)
               \o <<Says(AbstentionPayload(s, recipe))>>,
    masked |-> {}, violations |-> 0]
   : s \in Variants(base, recipe), order \in {"logs_first", "commits_first"}}

(* Every example build_examples may build, whatever it draws.               *)
ExampleSpecs ==
  LET drawn(variants) == {p \in GenerateScenarios \X variants : DrawnFrom(p[1], p[2])}
  IN  UNION {SolvableSpecs(p[1], p[2]) : p \in drawn(SolvableVariants)}
        \cup UNION {AbstainSpecs(p[1], p[2]) : p \in drawn(AbstainVariants)}

-----------------------------------------------------------------------------
(* The gate.  A turn of a transcript has a kind; an observation its tool    *)
(* and rows, an assistant's turn its reply.                                 *)

MaxAssistantTurns == 5         \* _MAX_ASSISTANT_TURNS

TurnsOf(transcript, kind) ==
  {n \in DOMAIN transcript : transcript[n].kind = kind}

(* The field of a row an argument speaks of.                                *)
FieldOf == [since |-> "ts", level |-> "level", route |-> "route", name |-> "metric"]

(* An earlier turn showed the value (a text search over the observations).  *)
ShownBefore(transcript, n, name, value) ==
  \E k \in TurnsOf(transcript, "observation") :
    /\ k < n
    /\ \E r \in DOMAIN transcript[k].rows :
         /\ FieldOf[name] \in DOMAIN transcript[k].rows[r]
         /\ transcript[k].rows[r][FieldOf[name]] = value

(* The reply of the n-th turn, counted among the assistant's.               *)
Position(transcript, n) ==
  Cardinality({k \in TurnsOf(transcript, "assistant") : k <= n})

GateDiagnosis(spec, result) ==
  LET s == spec.scenario
  IN  /\ Judged(result.diagnosis, s.gold)
      /\ Fabricated(result.diagnosis, s) = {}
      /\ Cited(result.diagnosis)
           \subseteq UNION {HandlesIn(result.transcript[n].rows) :
                            n \in TurnsOf(result.transcript, "observation")}
      /\ \A h \in Cited(result.diagnosis) : h[1] = "commit" => h \in s.gold

GateAbstention(result) ==
  /\ result.diagnosis.abstained
  /\ result.diagnosis.reason = "model, on metrics"
       => \E n \in TurnsOf(result.transcript, "observation") :
            result.transcript[n].tool = "query_metrics"

(* _gate, without the bounds on text.                                       *)
Gate(spec, result) ==
  /\ result.steps = Len(spec.script)
  /\ Cardinality(spec.masked) < Len(spec.script)
  /\ result.violations = spec.violations
  /\ Cardinality(TurnsOf(result.transcript, "assistant")) = Len(spec.script)
  /\ Len(spec.script) <= MaxAssistantTurns
  /\ IF spec.kind = "diagnose" THEN GateDiagnosis(spec, result)
     ELSE GateAbstention(result)
  /\ \A n \in TurnsOf(result.transcript, "assistant") :
       LET reply == result.transcript[n].reply
       IN  reply.kind = "tool" /\ Position(result.transcript, n) \notin spec.masked
             => \A name \in DOMAIN reply.args :
                  ShownBefore(result.transcript, n, name, reply.args[name])
=============================================================================
