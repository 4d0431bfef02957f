------------------------------ MODULE AgentRun ------------------------------
(***************************************************************************)
(* What the four callers of run_loop make of its result:                   *)
(*   "cli"     _diagnose: a citation check over the live files             *)
(*   "service" investigate: a citation check over the incident's snapshot, *)
(*             then the verifier when one is pinned                        *)
(*   "eval"    run_scenario and run_evals.main: the timing check, the      *)
(*             verifier, the judge                                         *)
(*   "builder" _build_example: a script played back, then the gate         *)
(* The model of the verifier is asked once for every hypothesis that has   *)
(* evidence at all.                                                        *)
(***************************************************************************)
EXTENDS AgentLoop

CONSTANTS Jobs            \* pairs of a job and the source it starts with

VARIABLES draft,          \* the diagnosis under verification
          verdicts,       \* VerifierResult.verdicts
          survivors,      \* positions in the draft of the hypotheses kept
          verified,       \* <<>> or <<the verified diagnosis>>
          fabricated,     \* handles the citation check reports
          outcome         \* what the caller ends with

afterVars == <<draft, verdicts, survivors, verified, fabricated, outcome>>

vars == <<job, source, phase, step, attempt, spent, transcript, toolCalls,
          violations, seen, diagnosis, draft, verdicts, survivors, verified,
          fabricated, outcome>>

Signals == SignalsOf(source)

Init ==
  /\ \E j \in Jobs : job = j[1] /\ source = j[2]
  /\ LoopInit
  /\ draft = diagnosis /\ verdicts = <<>> /\ survivors = <<>>
  /\ verified = <<>> /\ fabricated = {} /\ outcome = "none"

Returned(caller) == phase = "returned" /\ job.caller = caller

Ends(result) == phase' = "done" /\ outcome' = result

(* What the loop did is on record; nothing after it changes that.           *)
LoopKept == UNCHANGED <<job, source, step, transcript, toolCalls, violations,
                        seen, diagnosis>>

-----------------------------------------------------------------------------
(* The command line.                                                       *)

(* The postmortem cannot be written: exit 1, without a citation check.      *)
CliWriteFails ==
  /\ Returned("cli")
  /\ Ends("error")
  /\ LoopKept
  /\ UNCHANGED <<attempt, spent, draft, verdicts, survivors, verified, fabricated>>

(* _verify_citations has nothing to check against.                          *)
CliUncheckable == source.torn \/ RealHandles(Signals) = {}

(* Slip: the check reads the capped rows.                                   *)
CliFabricatedCapped ==
  Fabricated(diagnosis, [Signals EXCEPT !.logs = LastRows(@, job.cap)])

CliFabricated ==
  IF diagnosis.abstained \/ CliUncheckable THEN {} ELSE Fabricated(diagnosis, Signals)

CliChecks ==
  /\ Returned("cli")
  /\ fabricated' = CliFabricated
  /\ Ends(IF fabricated' # {} /\ job.strict THEN "fabrication" ELSE "ok")
  /\ LoopKept
  /\ UNCHANGED <<attempt, spent, draft, verdicts, survivors, verified>>

-----------------------------------------------------------------------------
(* The service and the evaluation.                                         *)

(* A diagnosis that abstains passes the verifier unchanged.                 *)
Verifies(d) ==
  /\ draft' = d
  /\ IF job.pinned /\ ~ d.abstained THEN phase' = "verify" /\ UNCHANGED verified
     ELSE /\ phase' = "verified"
          /\ verified' = IF job.pinned THEN <<d>> ELSE <<>>

(* The snapshot cannot be read (read_signals): a failed run, which carries  *)
(* the diagnosis unchecked.                                                 *)
ServiceReadRaises ==
  /\ Returned("service") /\ source.torn
  /\ Ends("failed")
  /\ LoopKept
  /\ UNCHANGED <<attempt, spent, draft, verdicts, survivors, verified, fabricated>>

ServiceChecks ==
  /\ Returned("service") /\ ~ source.torn
  /\ fabricated' = Fabricated(diagnosis, Signals)
  /\ Verifies(diagnosis)
  /\ LoopKept
  /\ UNCHANGED <<attempt, spent, verdicts, survivors, outcome>>

EvalTimes ==
  /\ Returned("eval")
  /\ Verifies(IF job.timing THEN VerifyTiming(diagnosis, Signals) ELSE diagnosis)
  /\ LoopKept
  /\ UNCHANGED <<attempt, spent, verdicts, survivors, fabricated, outcome>>

Unjudged == phase = "verify" /\ Len(verdicts) < Len(draft.hyps)

Hypothesis == draft.hyps[Len(verdicts) + 1]

Resolves(hyp) == hyp \cap RealHandles(Signals) # {}

(* Nothing cited exists: dropped without a call of the model.               *)
VerdictUnresolved ==
  /\ Unjudged /\ ~ Resolves(Hypothesis)
  /\ verdicts' = Append(verdicts, FALSE)
  /\ LoopKept
  /\ UNCHANGED <<phase, attempt, spent, draft, survivors, verified, fabricated,
                 outcome>>

VerifierAttemptFails ==
  /\ Unjudged /\ Resolves(Hypothesis) /\ MayRetry(attempt)
  /\ attempt' = attempt + 1 /\ spent' = spent + 1
  /\ LoopKept
  /\ UNCHANGED <<phase, draft, verdicts, survivors, verified, fabricated, outcome>>

(* Slip: a hypothesis is kept unless the reply says it is not supported.    *)
VerdictLenient ==
  /\ Unjudged
  /\ \E supported \in BOOLEAN :
       /\ verdicts' = Append(verdicts, supported)
       /\ survivors' = IF supported \/ ~ Resolves(Hypothesis)
                       THEN Append(survivors, Len(verdicts) + 1) ELSE survivors
  /\ attempt' = 0 /\ spent' = spent + 1
  /\ LoopKept
  /\ UNCHANGED <<phase, draft, verified, fabricated, outcome>>

(* _verdict_for: a reply that cannot be read is "not supported".            *)
Verdict ==
  /\ Unjudged /\ Resolves(Hypothesis)
  /\ \E supported \in BOOLEAN :
       /\ verdicts' = Append(verdicts, supported)
       /\ survivors' = IF supported THEN Append(survivors, Len(verdicts) + 1)
                       ELSE survivors
  /\ attempt' = 0 /\ spent' = spent + 1
  /\ LoopKept
  /\ UNCHANGED <<phase, draft, verified, fabricated, outcome>>

(* Slip: an empty list of survivors is returned as it is.                   *)
VerifierResultEmpty ==
  [draft EXCEPT !.hyps = [n \in DOMAIN survivors |-> draft.hyps[survivors[n]]],
                !.reason = ""]

VerifierResult ==
  IF survivors # <<>>
  THEN [draft EXCEPT !.hyps = [n \in DOMAIN survivors |-> draft.hyps[survivors[n]]],
                     !.reason = ""]
  ELSE Abstain("verifier")

VerifyEnds ==
  /\ phase = "verify" /\ Len(verdicts) = Len(draft.hyps)
  /\ verified' = <<VerifierResult>>
  /\ phase' = "verified"
  /\ LoopKept
  /\ UNCHANGED <<attempt, spent, draft, verdicts, survivors, fabricated, outcome>>

(* A verifier that cannot be asked: unverified for the service, raised by   *)
(* run_scenario.                                                            *)
VerifierRaises ==
  /\ Unjudged /\ Resolves(Hypothesis)
  /\ spent' = spent + 1
  /\ phase' \in IF job.caller = "service" THEN {"verified"}
                ELSE {"unreachable", "raised"}
  /\ LoopKept
  /\ UNCHANGED <<attempt, draft, verdicts, survivors, verified, fabricated, outcome>>

(* The run is on record and waits for the operator.                         *)
ServiceRecords ==
  /\ phase = "verified" /\ job.caller = "service"
  /\ Ends("pending_review")
  /\ LoopKept
  /\ UNCHANGED <<attempt, spent, draft, verdicts, survivors, verified, fabricated>>

(* EvalResult.passed, of the verified diagnosis when there is one.          *)
Scored == IF verified = <<>> THEN draft ELSE verified[1]

EvalScores ==
  /\ phase = "verified" /\ job.caller = "eval"
  /\ fabricated' = Fabricated(Scored, Signals)
  /\ Ends(IF Judged(Scored, job.gold) /\ fabricated' = {} THEN "pass" ELSE "fail")
  /\ LoopKept
  /\ UNCHANGED <<attempt, spent, draft, verdicts, survivors, verified>>

(* What an exception becomes: a clean exit 1, a failed run, and in the      *)
(* evaluation a skip when the model could not be reached or refused the key, *)
(* a crash otherwise.                                                       *)
CallerCatches ==
  /\ phase \in {"unreachable", "raised"}
  /\ \/ job.caller = "cli" /\ Ends("error")
     \/ job.caller = "service" /\ Ends("failed")
     \/ job.caller = "eval" /\ Ends(IF phase = "unreachable" THEN "skip" ELSE "crash")
  /\ LoopKept
  /\ UNCHANGED <<attempt, spent, draft, verdicts, survivors, verified, fabricated>>

-----------------------------------------------------------------------------
(* The builder.                                                            *)

Played == [steps |-> step, violations |-> violations, transcript |-> transcript,
           diagnosis |-> diagnosis]

BuilderGates ==
  /\ Returned("builder")
  /\ Ends(IF step = Len(job.script) /\ Gate(job.spec, Played)
          THEN "accepted" ELSE "refused")
  /\ LoopKept
  /\ UNCHANGED <<attempt, spent, draft, verdicts, survivors, verified, fabricated>>

-----------------------------------------------------------------------------
RunEnded == phase = "done" /\ UNCHANGED vars

AfterLoop == \/ CliWriteFails \/ CliChecks
             \/ ServiceReadRaises \/ ServiceChecks \/ EvalTimes
             \/ VerdictUnresolved \/ VerifierAttemptFails \/ Verdict
             \/ VerifyEnds \/ VerifierRaises
             \/ ServiceRecords \/ EvalScores \/ CallerCatches
             \/ BuilderGates

Next == \/ LoopStep /\ UNCHANGED afterVars
        \/ AfterLoop
        \/ FilesGrow /\ UNCHANGED afterVars
        \/ RunEnded

Spec == Init /\ [][Next]_vars
=============================================================================
