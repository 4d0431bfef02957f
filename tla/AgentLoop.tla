------------------------------ MODULE AgentLoop ------------------------------
(***************************************************************************)
(* One call of run_loop (agent/loop.py) with its provider (LiteLLMProvider *)
(* .complete with its retries, HintProvider, ScriptedProvider) and the     *)
(* tools over the signals: the model is asked at most `budget' times, and  *)
(* every reply either ends the run with a diagnosis or is answered with an *)
(* observation or a request to try again.                                  *)
(*                                                                         *)
(* The signals may be files that are written while the loop runs: a row is *)
(* appended to a log, the deploy file is rewritten with one more commit    *)
(* and is not readable in between.                                         *)
(***************************************************************************)
EXTENDS TrainingExamples

CONSTANTS Replies,        \* what a model may say in one turn
          MaxRetries,     \* LiteLLMProvider.max_retries
          NewRows,        \* what may be appended to a log
          MaxRows         \* bound: rows of a log file

ASSUME MaxRetriesAssumption == MaxRetries \in Nat \ {0}

VARIABLES job,            \* who runs the loop and how: nothing changes it
          source,         \* what the tools read
          phase,          \* "loop", "returned", "unreachable" or
                          \* "raised" (an exception), or the caller's
          step,           \* result.steps
          attempt,        \* failed attempts of the call in progress
          spent,          \* requests sent to a model, of the loop or after it
          transcript,     \* result.messages
          toolCalls,      \* result.tool_calls
          violations,     \* result.schema_violations
          seen,           \* result.seen_handles
          diagnosis       \* result.diagnosis

loopVars == <<job, source, phase, step, attempt, spent, transcript, toolCalls,
              violations, seen, diagnosis>>

Turn(kind) == [kind |-> kind]
AssistantTurn(reply) == [kind |-> "assistant", reply |-> reply]
Observation(tool, rows) == [kind |-> "observation", tool |-> tool, rows |-> rows]

(* A ScriptedProvider plays its script back and does not fail.              *)
Scripted == job.script # <<>>

LoopInit ==
  /\ phase = "loop" /\ step = 0 /\ attempt = 0 /\ spent = 0
  /\ transcript = <<Turn("system"), Turn("trigger")>>
  /\ toolCalls = <<>> /\ violations = 0 /\ seen = {}
  /\ diagnosis = Abstain("not run")

(* Slip: one attempt too many.                                              *)
MayRetryOnce(n) == n + 1 <= MaxRetries

(* LiteLLMProvider.complete tries again unless this was the last attempt.   *)
MayRetry(n) == n + 1 < MaxRetries

(* HintProvider: one more message with the first call.                      *)
Asked == IF job.hint /\ transcript = <<Turn("system"), Turn("trigger")>>
         THEN Append(transcript, Turn("hint")) ELSE transcript

(* A request of the loop's next step, or of the step being retried.         *)
Ask ==
  /\ phase = "loop"
  /\ attempt > 0 \/ step < job.budget
  /\ step' = IF attempt = 0 THEN step + 1 ELSE step
  /\ spent' = spent + 1
  /\ UNCHANGED <<job, source>>

AttemptFails ==
  /\ Ask /\ ~ Scripted /\ MayRetry(attempt)
  /\ attempt' = attempt + 1
  /\ transcript' = Asked
  /\ UNCHANGED <<phase, toolCalls, violations, seen, diagnosis>>

(* The last attempt fails, or any attempt in a way that is not retried.     *)
CallRaises ==
  /\ Ask /\ ~ Scripted
  /\ phase' \in {"unreachable", "raised"}
  /\ transcript' = Asked
  /\ UNCHANGED <<attempt, toolCalls, violations, seen, diagnosis>>

(* The model answers with `reply'.                                          *)
Answered(reply) ==
  /\ Ask
  /\ reply \in IF Scripted THEN {job.script[step']} ELSE Replies
  /\ attempt' = 0

(* Slip: the complaint is not shown to the model.                           *)
TryAgainSilently(reply) ==
  /\ transcript' = Append(Asked, AssistantTurn(reply))
  /\ violations' = violations + 1
  /\ UNCHANGED <<phase, seen, diagnosis>>

(* Recorded as a violation and answered with _retry_msg.                    *)
TryAgain(reply) ==
  /\ transcript' = Asked \o <<AssistantTurn(reply), Turn("retry")>>
  /\ violations' = violations + 1
  /\ UNCHANGED <<phase, seen, diagnosis>>

(* No JSON object, an action that is no tool's, a tool without an object of *)
(* arguments, a diagnosis that does not validate.                           *)
BadReply ==
  \E reply \in Replies :
    /\ Answered(reply)
    /\ \/ reply.kind \in {"text", "unknown", "bare_tool", "misshapen"}
       \/ reply.kind = "diagnose" /\ ~ Valid(reply.diagnosis)
    /\ TryAgain(reply)
    /\ UNCHANGED toolCalls

(* An action that cannot be looked up among the tools' names (a list or an  *)
(* object) raises out of the loop.                                          *)
Unhashable ==
  \E reply \in Replies :
    /\ Answered(reply) /\ reply.kind = "unhashable"
    /\ phase' = "raised"
    /\ transcript' = Append(Asked, AssistantTurn(reply))
    /\ UNCHANGED <<toolCalls, violations, seen, diagnosis>>

Diagnoses ==
  \E reply \in Replies \cup Range(job.script) :
    /\ Answered(reply) /\ reply.kind = "diagnose" /\ Valid(reply.diagnosis)
    /\ transcript' = Append(Asked, AssistantTurn(reply))
    /\ diagnosis' = reply.diagnosis
    /\ phase' = "returned"
    /\ UNCHANGED <<toolCalls, violations, seen>>

(* The arguments are refused, or the deploy file cannot be parsed now.      *)
ToolRaises(reply) ==
  \/ ArgumentsRaise(reply.tool, reply.args)
  \/ reply.tool = "get_recent_commits" /\ source.torn

ToolFails ==
  \E reply \in Replies \cup Range(job.script) :
    /\ Answered(reply) /\ reply.kind = "tool" /\ ToolRaises(reply)
    /\ toolCalls' = Append(toolCalls, reply.tool)
    /\ TryAgain(reply)

(* The tool's rows are shown, and their handles remembered (_record_seen).  *)
Observes ==
  \E reply \in Replies \cup Range(job.script) :
    /\ Answered(reply) /\ reply.kind = "tool" /\ ~ ToolRaises(reply)
    /\ LET rows == ToolRows(reply.tool, reply.args, SignalsOf(source), job.cap)
       IN  /\ transcript' = Asked \o <<AssistantTurn(reply),
                                       Observation(reply.tool, rows)>>
           /\ seen' = seen \cup HandlesIn(rows)
    /\ toolCalls' = Append(toolCalls, reply.tool)
    /\ UNCHANGED <<phase, violations, diagnosis>>

(* The budget is used up without a diagnosis.                               *)
Exhausts ==
  /\ phase = "loop" /\ attempt = 0 /\ step = job.budget
  /\ diagnosis' = Abstain("exhausted")
  /\ phase' = "returned"
  /\ UNCHANGED <<job, source, step, attempt, spent, transcript, toolCalls,
                 violations, seen>>

LoopStep == \/ AttemptFails \/ CallRaises \/ BadReply \/ Unhashable
            \/ Diagnoses \/ ToolFails \/ Observes \/ Exhausts

-----------------------------------------------------------------------------
(* Live files: other processes write them while the command line's run      *)
(* reads; nothing is ever removed from them.                                *)

Live == job.live /\ phase \in {"loop", "returned"}

LogGrows ==
  /\ Live
  /\ \E f \in DOMAIN source.files, row \in NewRows :
       LET n == Len(source.files[f])
       IN  /\ n < MaxRows
           /\ source' = [source EXCEPT !.files[f] =
                Append(@, [row EXCEPT !.id = IF source.numbered THEN n ELSE NoId])]
  /\ UNCHANGED <<job, phase, step, attempt, spent, transcript, toolCalls,
                 violations, seen, diagnosis>>

DeployStarts ==
  /\ Live /\ ~ source.torn /\ source.deploys # <<>>
  /\ source' = [source EXCEPT !.torn = TRUE]
  /\ UNCHANGED <<job, phase, step, attempt, spent, transcript, toolCalls,
                 violations, seen, diagnosis>>

DeployEnds ==
  /\ Live /\ source.torn
  /\ source' = [source EXCEPT !.torn = FALSE,
                              !.commits = Append(@, Head(source.deploys)),
                              !.deploys = Tail(@)]
  /\ UNCHANGED <<job, phase, step, attempt, spent, transcript, toolCalls,
                 violations, seen, diagnosis>>

FilesGrow == LogGrows \/ DeployStarts \/ DeployEnds
=============================================================================
