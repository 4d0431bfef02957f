--------------------------- MODULE AgentProperties ---------------------------
(***************************************************************************)
(* What one run of the agent promises its callers.                         *)
(***************************************************************************)
EXTENDS AgentRun

Callers == {"cli", "service", "eval", "builder"}

Phases == {"loop", "returned", "verify", "verified", "unreachable", "raised", "done"}

Outcomes == {"none", "error", "ok", "fabrication", "pending_review", "failed",
             "pass", "fail", "skip", "crash", "accepted", "refused"}

TurnKinds == {"system", "trigger", "hint", "assistant", "observation", "retry"}

(* The variables have their types, and the counters stay in the bounds of  *)
(* the loop (run_loop) and of the provider's retries.                      *)
RunTypeOK ==
  /\ job.caller \in Callers /\ job.budget \in Nat
  /\ phase \in Phases /\ outcome \in Outcomes
  /\ step \in 0..job.budget
  /\ attempt \in 0..(MaxRetries - 1)
  /\ spent \in Nat /\ violations \in 0..step
  /\ Len(toolCalls) <= step
  /\ \A n \in DOMAIN transcript : transcript[n].kind \in TurnKinds
  /\ Len(verdicts) <= Len(draft.hyps) /\ Len(survivors) <= Len(verdicts)
  /\ Len(verified) <= 1

-----------------------------------------------------------------------------
(* The model of the loop and of the verifier are asked at most MaxRetries   *)
(* times for each step and each verdict, whatever fails: a run of the       *)
(* service costs a bounded number of requests (max_steps, max_retries).     *)
CostIsBounded ==
  LET due == step + (IF phase \in {"loop", "returned"} THEN 0
                     ELSE Len(verdicts) + 1)
  IN  spent <= MaxRetries * due

Opening == IF job.hint /\ step > 0
           THEN <<Turn("system"), Turn("trigger"), Turn("hint")>>
           ELSE <<Turn("system"), Turn("trigger")>>

(* The reply the loop took its diagnosis from ends the transcript.          *)
EndsOnReply ==
  LET last == transcript[Len(transcript)]
  IN  /\ last.kind = "assistant" /\ last.reply.kind = "diagnose"
      /\ last.reply.diagnosis = diagnosis

(* LoopResult's contract (loop.py:54, which the training examples rest on): *)
(* after the opening every reply of the model is answered by one turn, the  *)
(* counters count turns of the transcript, the handles are those shown, and *)
(* the diagnosis is the model's last word or one of the loop's own          *)
(* abstentions, told apart by their reason.                                 *)
TranscriptContract ==
  LET opening  == Len(Opening)
      replies  == TurnsOf(transcript, "assistant")
      answers  == TurnsOf(transcript, "observation") \cup TurnsOf(transcript, "retry")
  IN  /\ SubSeq(transcript, 1, opening) = Opening
      /\ replies = {n \in (opening + 1)..Len(transcript) : (n - opening) % 2 = 1}
      /\ answers = {n \in (opening + 1)..Len(transcript) : (n - opening) % 2 = 0}
      /\ Cardinality(TurnsOf(transcript, "retry")) = violations
      /\ seen = UNION {HandlesIn(transcript[n].rows) :
                       n \in TurnsOf(transcript, "observation")}
      /\ phase = "loop" /\ attempt = 0 => Cardinality(replies) = step
      /\ phase = "returned" =>
           /\ Cardinality(replies) = step
           /\ diagnosis.reason \notin FallbackReasons => EndsOnReply
           /\ diagnosis.reason \in FallbackReasons =>
                /\ diagnosis = Abstain("exhausted")
                /\ step = job.budget /\ ~ EndsOnReply

-----------------------------------------------------------------------------
(* An observed log row is still the row its id names.                       *)
StillDenotes(row) ==
  "level" \in DOMAIN row =>
    {Signals.logs[n] : n \in {k \in DOMAIN Signals.logs : Signals.logs[k].id = row.id}}
      = {row}

(* A single file whose rows without an id come after those with one, each   *)
(* with an id of its own.                                                   *)
Unambiguous ==
  /\ ~ source.directory
  /\ \A n, k \in DOMAIN source.files[1] :
       n < k /\ source.files[1][k].id # NoId
         => source.files[1][n].id \notin {NoId, source.files[1][k].id}

(* What a tool has shown can be cited: while the files grow under the run,  *)
(* a handle the model saw stays real for the citation check (which reads    *)
(* them again, uncapped, when the loop has ended), in one file it goes on   *)
(* naming the row it named, and no check reports it as fabricated.          *)
SeenStaysReal ==
  /\ seen \subseteq RealHandles(Signals)
  /\ Unambiguous => \A n \in TurnsOf(transcript, "observation") :
                      \A r \in DOMAIN transcript[n].rows :
                        StillDenotes(transcript[n].rows[r])
  /\ fabricated \cap seen = {}

-----------------------------------------------------------------------------
(* The sequence t is s without some of its elements.                        *)
IsThinned(t, s) ==
  \E order \in [DOMAIN t -> DOMAIN s] :
    /\ \A m, n \in DOMAIN t : m < n => order[m] < order[n]
    /\ \A n \in DOMAIN t : t[n] = s[order[n]]

(* The checks after the loop (verify, verify_timing) only take hypotheses   *)
(* away: what is verified or scored is the model's diagnosis without some   *)
(* of its hypotheses, in its order, each with evidence that exists, or an   *)
(* abstention; an abstention of the model stays as it is, and nothing of a  *)
(* check looks like a run that was exhausted.                               *)
VerifierOnlyRemoves ==
  phase \in {"verified", "done"} /\ job.caller \in {"service", "eval"}
    /\ outcome \notin {"failed", "skip", "crash"}
    => /\ Valid(Scored)
       /\ diagnosis.abstained => Scored = diagnosis
       /\ IsThinned(Scored.hyps, diagnosis.hyps)
       /\ Scored.reason \in FallbackReasons => diagnosis = Scored
       /\ verified # <<>> =>
            \A n \in DOMAIN Scored.hyps : Resolves(Scored.hyps[n])

-----------------------------------------------------------------------------
(* Some point after t is above every point up to t.                         *)
Climbs(points, t) ==
  \E n \in DOMAIN points :
    /\ points[n].ts > t
    /\ \A k \in DOMAIN points : points[k].ts <= t => points[k].value < points[n].value

(* A commit that may be the cause of what a scenario shows: no change of    *)
(* documentation, and followed by every error, none of which names a        *)
(* component it has not touched, or by the climb of a metric.               *)
Explains(commit, s) ==
  LET errors == ErrorRows(s)
      burst  == /\ errors # <<>>
                /\ \A n \in DOMAIN errors :
                     /\ commit.ts <= errors[n].ts
                     /\ errors[n].names \in {Nothing, commit.touches}
      climb  == \E n \in DOMAIN s.metrics : Climbs(s.metrics[n].points, commit.ts)
  IN  commit.touches # Readme /\ (burst \/ climb)

(* The training examples teach the truth: every script plays back through   *)
(* the loop and passes the gate; the commits an example names can be the    *)
(* cause of what it shows, and the timing check of the evaluation does not  *)
(* object to them; where an example abstains, nothing left in it explains   *)
(* an error or a climb left in it, whichever recipe made it.  What the      *)
(* evaluation can see itself it refuses: the diagnosis of the unchanged     *)
(* scenario falls to the timing check under time_shift and to the check of  *)
(* citations under no_culprit.                                              *)
ExamplesAreSound ==
  phase = "done" /\ job.caller = "builder" =>
    LET s        == job.spec.scenario
        explains == {<<"commit", s.commits[n].sha>> :
                       n \in {k \in DOMAIN s.commits : Explains(s.commits[k], s)}}
    IN  /\ outcome = "accepted"
        /\ job.spec.kind = "diagnose" =>
             /\ {h \in Cited(diagnosis) : h[1] = "commit"} \subseteq explains
             /\ VerifyTiming(diagnosis, s) = diagnosis
        /\ job.spec.kind = "abstain" =>
             /\ explains = {}
             /\ job.spec.variant = "time_shift" =>
                  VerifyTiming(GoldDiagnosis(s), s).abstained
             /\ job.spec.variant = "no_culprit" =>
                  Fabricated(GoldDiagnosis(s), s) # {}
=============================================================================
