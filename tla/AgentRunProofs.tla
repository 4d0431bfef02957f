--------------------------- MODULE AgentRunProofs ---------------------------
(***************************************************************************)
(* A run of the agent costs a bounded number of requests, its transcript   *)
(* is a full account of it, the checks after the loop only take away from  *)
(* its diagnosis, and what a tool has shown stays citable: CostIsBounded,  *)
(* TranscriptContract, VerifierOnlyRemoves and SeenStaysReal of            *)
(* AgentProperties, for every job, source, set of replies and number of    *)
(* retries.                                                                *)
(***************************************************************************)
EXTENDS AgentProperties, FiniteSetTheorems, SequenceTheorems,
        WellFoundedInduction, TLAPS

(* What n calls of a model may cost.                                        *)
Cost(n) == MaxRetries * n

LEMMA CostOfOneMore ==
  /\ Cost(0) = 0
  /\ \A n \in Nat : Cost(n) \in Nat /\ Cost(n + 1) = Cost(n) + MaxRetries
BY MaxRetriesAssumption DEF Cost

(***************************************************************************)
(* The inductive invariant.  Between calls everything spent is paid for by *)
(* the steps taken and the verdicts given; inside a call the failed        *)
(* attempts come on top, and there are never as many as the call may cost, *)
(* so the attempt that ends the call is still paid for by it.              *)
(***************************************************************************)
CountersTyped ==
  /\ step \in Nat /\ spent \in Nat /\ verdicts \in Seq(BOOLEAN)
  /\ attempt \in Nat /\ attempt < MaxRetries

LoopPaid ==
  phase = "loop" =>
    /\ verdicts = <<>>
    /\ attempt = 0 => spent <= Cost(step)
    /\ attempt > 0 => spent + MaxRetries <= Cost(step) + attempt

ReturnPaid ==
  phase = "returned" => verdicts = <<>> /\ attempt = 0 /\ spent <= Cost(step)

VerifyPaid ==
  phase = "verify" => spent <= Cost(step + Len(verdicts)) + attempt

EndPaid ==
  phase \notin {"loop", "returned"} => spent <= Cost(step + Len(verdicts) + 1)

CostInv == CountersTyped /\ LoopPaid /\ ReturnPaid /\ VerifyPaid /\ EndPaid

LEMMA CostInvInit == Init => CostInv
<1> SUFFICES ASSUME Init PROVE CostInv
  OBVIOUS
<1>1. Cost(0) = 0
  BY CostOfOneMore
<1>2. step = 0 /\ spent = 0 /\ attempt = 0 /\ phase = "loop" /\ verdicts = <<>>
  BY DEF Init, LoopInit
<1>3. CountersTyped
  BY <1>2, MaxRetriesAssumption DEF CountersTyped
<1>4. LoopPaid /\ ReturnPaid /\ VerifyPaid /\ EndPaid
  BY <1>1, <1>2 DEF LoopPaid, ReturnPaid, VerifyPaid, EndPaid
<1> QED
  BY <1>3, <1>4 DEF CostInv

-----------------------------------------------------------------------------
(* A request of the loop, whatever comes of it, is paid for by the step it  *)
(* belongs to.                                                              *)
LEMMA AskIsPaid ==
  ASSUME CostInv, Ask
  PROVE  /\ phase = "loop" /\ verdicts = <<>>
         /\ step' \in Nat /\ spent' \in Nat
         /\ spent' <= Cost(step')
         /\ spent' + MaxRetries <= Cost(step') + attempt + 1
         /\ Cost(step') \in Nat
<1>1. /\ phase = "loop" /\ verdicts = <<>> /\ step \in Nat /\ spent \in Nat
      /\ attempt \in Nat /\ attempt < MaxRetries /\ spent' = spent + 1
  BY DEF Ask, CostInv, CountersTyped, LoopPaid
<1>a. /\ Cost(step) \in Nat /\ Cost(step + 1) = Cost(step) + MaxRetries
      /\ Cost(step + 1) \in Nat
  <2>1. step + 1 \in Nat
    BY <1>1
  <2> QED
    BY <1>1, <2>1, CostOfOneMore
<1>2. CASE attempt = 0
  <2>1. step' = step + 1 /\ spent <= Cost(step)
    BY <1>1, <1>2 DEF Ask, CostInv, LoopPaid
  <2> QED
    BY <1>1, <1>a, <1>2, <2>1, MaxRetriesAssumption
<1>3. CASE attempt > 0
  <2>1. step' = step /\ spent + MaxRetries <= Cost(step) + attempt
    BY <1>1, <1>3 DEF Ask, CostInv, LoopPaid
  <2> QED
    BY <1>1, <1>a, <1>3, <2>1, MaxRetriesAssumption
<1> QED
  BY <1>1, <1>2, <1>3

LEMMA LoopStepPaid ==
  ASSUME CostInv, LoopStep, UNCHANGED afterVars
  PROVE  CostInv'
<1>1. verdicts' = verdicts /\ CountersTyped
  BY DEF afterVars, CostInv
<1>2. CASE AttemptFails
  <2>1. Ask /\ attempt' = attempt + 1 /\ attempt + 1 < MaxRetries /\ phase' = phase
    BY <1>2 DEF AttemptFails, MayRetry
  <2>2. phase' = "loop" /\ CountersTyped' /\ attempt' > 0 /\ verdicts' = <<>>
    BY <1>1, <2>1, AskIsPaid DEF CountersTyped
  <2>3. spent' + MaxRetries <= Cost(step') + attempt'
    BY <1>1, <2>1, AskIsPaid, MaxRetriesAssumption DEF CountersTyped
  <2> QED
    BY <2>2, <2>3 DEF CostInv, LoopPaid, ReturnPaid, VerifyPaid, EndPaid, CountersTyped
<1>3. CASE CallRaises
  <2>1. Ask /\ phase' \in {"unreachable", "raised"} /\ attempt' = attempt
    BY <1>3 DEF CallRaises
  <2>2. CountersTyped' /\ verdicts' = <<>>
    BY <1>1, <2>1, AskIsPaid DEF CountersTyped
  <2>3. Cost(step') \in Nat /\ spent' <= Cost(step')
    BY <2>1, AskIsPaid
  <2>4. spent' <= Cost(step' + Len(verdicts') + 1)
    <3>1. step' + Len(verdicts') + 1 = step' + 1 /\ step' \in Nat
      BY <2>2 DEF CountersTyped
    <3>2. Cost(step' + 1) = Cost(step') + MaxRetries
      BY <3>1, CostOfOneMore
    <3> QED
      BY <2>2, <2>3, <3>1, <3>2, MaxRetriesAssumption DEF CountersTyped
  <2> QED
    BY <2>1, <2>2, <2>4 DEF CostInv, LoopPaid, ReturnPaid, VerifyPaid, EndPaid
<1>4. ASSUME NEW reply, Answered(reply), phase' \in {"loop", "returned", "raised"}
      PROVE  CostInv'
  <2>1. Ask /\ attempt' = 0
    BY <1>4 DEF Answered
  <2>2. CountersTyped' /\ verdicts' = <<>>
    BY <1>1, <2>1, AskIsPaid, MaxRetriesAssumption DEF CountersTyped
  <2>3. Cost(step') \in Nat /\ spent' <= Cost(step')
    BY <2>1, AskIsPaid
  <2>4. spent' <= Cost(step' + Len(verdicts') + 1)
    <3>1. step' + Len(verdicts') + 1 = step' + 1 /\ step' \in Nat
      BY <2>2 DEF CountersTyped
    <3>2. Cost(step' + 1) = Cost(step') + MaxRetries
      BY <3>1, CostOfOneMore
    <3> QED
      BY <2>2, <2>3, <3>1, <3>2, MaxRetriesAssumption DEF CountersTyped
  <2> QED
    BY <1>4, <2>1, <2>2, <2>3, <2>4
       DEF CostInv, LoopPaid, ReturnPaid, VerifyPaid, EndPaid
<1>5. CASE BadReply
  BY <1>4, <1>5, AskIsPaid DEF BadReply, TryAgain, Answered
<1>6. CASE Unhashable
  BY <1>4, <1>6 DEF Unhashable
<1>7. CASE Diagnoses
  BY <1>4, <1>7 DEF Diagnoses
<1>8. CASE ToolFails
  BY <1>4, <1>8, AskIsPaid DEF ToolFails, TryAgain, Answered
<1>9. CASE Observes
  BY <1>4, <1>9, AskIsPaid DEF Observes, Answered
<1>10. CASE Exhausts
  BY <1>1, <1>10
     DEF Exhausts, CostInv, CountersTyped, LoopPaid, ReturnPaid, VerifyPaid, EndPaid
<1> QED
  BY <1>2, <1>3, <1>5, <1>6, <1>7, <1>8, <1>9, <1>10 DEF LoopStep

-----------------------------------------------------------------------------
(* Counters that a caller leaves alone, in a phase that stays or ends.       *)
LEMMA LeftAlone ==
  ASSUME CostInv, UNCHANGED <<step, attempt, spent, verdicts>>,
         \/ phase' = phase
         \/ phase # "loop" /\ phase' \notin {"loop", "returned", "verify"}
         \/ phase = "returned" /\ phase' = "verify"
  PROVE  CostInv'
<1>1. CountersTyped' /\ CountersTyped
  BY DEF CostInv, CountersTyped
<1>3. CASE phase = "returned"
  <2>1. verdicts = <<>> /\ attempt = 0 /\ spent <= Cost(step)
    BY <1>1, <1>3 DEF CostInv, ReturnPaid, CountersTyped
  <2>2. step + Len(verdicts) = step /\ step + Len(verdicts) + 1 = step + 1
    BY <1>1, <2>1 DEF CountersTyped
  <2>3. Cost(step) \in Nat /\ Cost(step + 1) = Cost(step) + MaxRetries
    BY <1>1, CostOfOneMore DEF CountersTyped
  <2>4. /\ spent <= Cost(step + Len(verdicts)) + attempt
        /\ spent <= Cost(step + Len(verdicts) + 1)
    BY <1>1, <2>1, <2>2, <2>3, MaxRetriesAssumption DEF CountersTyped
  <2> QED
    BY <1>1, <1>3, <2>1, <2>4
       DEF CostInv, LoopPaid, ReturnPaid, VerifyPaid, EndPaid, CountersTyped
<1>4. CASE phase # "returned"
  BY <1>1, <1>4 DEF CostInv, LoopPaid, ReturnPaid, VerifyPaid, EndPaid
<1> QED
  BY <1>3, <1>4

(* Every call of the verifier is paid for by the verdict it leads to.        *)
LEMMA VerifierPaid ==
  ASSUME CostInv, phase = "verify",
         \/ VerdictUnresolved \/ VerifierAttemptFails \/ Verdict \/ VerifierRaises
  PROVE  CostInv'
<1> DEFINE given == step + Len(verdicts)
<1>1. CountersTyped /\ spent <= Cost(given) + attempt
  BY DEF CostInv, VerifyPaid
<1>a. step' = step
  BY DEF VerdictUnresolved, VerifierAttemptFails, Verdict, VerifierRaises, LoopKept
<1>b. given \in Nat /\ given + 1 \in Nat /\ Len(verdicts) \in Nat
  BY <1>1 DEF CountersTyped
<1> HIDE DEF given
<1>2. /\ Cost(given) \in Nat /\ Cost(given + 1) \in Nat
      /\ Cost(given + 1) = Cost(given) + MaxRetries
      /\ Cost(given + 1 + 1) = Cost(given + 1) + MaxRetries
  BY <1>b, CostOfOneMore
<1>3. ASSUME NEW b \in BOOLEAN, verdicts' = Append(verdicts, b), phase' = phase,
             \/ attempt' = attempt /\ spent' = spent
             \/ attempt' = 0 /\ spent' = spent + 1
      PROVE  CostInv'
  <2>1. CountersTyped'
    BY <1>1, <1>a, <1>3, MaxRetriesAssumption DEF CountersTyped
  <2>2. step' + Len(verdicts') = given + 1
    BY <1>1, <1>a, <1>3 DEF CountersTyped, given
  <2>3. spent' <= Cost(given + 1) + attempt'
    BY <1>1, <1>2, <1>3, MaxRetriesAssumption DEF CountersTyped
  <2>4. spent' <= Cost(given + 1 + 1)
    BY <1>2, <2>1, <2>3, MaxRetriesAssumption DEF CountersTyped
  <2> QED
    BY <1>3, <2>1, <2>2, <2>3, <2>4
       DEF CostInv, LoopPaid, ReturnPaid, VerifyPaid, EndPaid
<1>4. CASE VerdictUnresolved
  BY <1>3, <1>4 DEF VerdictUnresolved
<1>5. CASE Verdict
  BY <1>3, <1>5 DEF Verdict
<1>6. CASE VerifierAttemptFails
  <2>1. /\ attempt' = attempt + 1 /\ spent' = spent + 1 /\ attempt + 1 < MaxRetries
        /\ verdicts' = verdicts /\ phase' = phase
    BY <1>6 DEF VerifierAttemptFails, MayRetry
  <2>2. CountersTyped' /\ spent' <= Cost(given) + attempt'
    BY <1>1, <1>2, <1>a, <2>1 DEF CountersTyped
  <2>3. spent' <= Cost(given + 1)
    BY <1>1, <1>2, <2>1, <2>2, MaxRetriesAssumption DEF CountersTyped
  <2> QED
    BY <1>1, <1>a, <2>1, <2>2, <2>3
       DEF CostInv, LoopPaid, ReturnPaid, VerifyPaid, EndPaid, given
<1>7. CASE VerifierRaises
  <2>1. /\ attempt' = attempt /\ spent' = spent + 1 /\ verdicts' = verdicts
        /\ phase' \in {"verified", "unreachable", "raised"}
    BY <1>7 DEF VerifierRaises
  <2>2. CountersTyped' /\ spent' <= Cost(given + 1)
    BY <1>1, <1>2, <1>a, <2>1, MaxRetriesAssumption DEF CountersTyped
  <2> QED
    BY <1>1, <1>a, <2>1, <2>2 DEF CostInv, LoopPaid, ReturnPaid, VerifyPaid, EndPaid, given
<1> QED
  BY <1>4, <1>5, <1>6, <1>7

LEMMA CostInvStep ==
  ASSUME CostInv, [Next]_vars
  PROVE  CostInv'
<1>1. CASE LoopStep /\ UNCHANGED afterVars
  BY <1>1, LoopStepPaid
<1>2. CASE FilesGrow /\ UNCHANGED afterVars
  BY <1>2, LeftAlone DEF FilesGrow, LogGrows, DeployStarts, DeployEnds, afterVars
<1>3. CASE CliWriteFails \/ CliChecks
  BY <1>3, LeftAlone DEF CliWriteFails, CliChecks, Returned, Ends, LoopKept
<1>4. CASE ServiceChecks \/ EvalTimes
  BY <1>4, LeftAlone DEF ServiceChecks, EvalTimes, Verifies, Returned, LoopKept
<1>5. CASE VerdictUnresolved \/ VerifierAttemptFails \/ Verdict \/ VerifierRaises
  BY <1>5, VerifierPaid
     DEF VerdictUnresolved, VerifierAttemptFails, Verdict, VerifierRaises, Unjudged
<1>6. CASE VerifyEnds
  BY <1>6, LeftAlone DEF VerifyEnds, LoopKept
<1>7. CASE ServiceRecords \/ EvalScores
  BY <1>7, LeftAlone DEF ServiceRecords, EvalScores, Ends, LoopKept
<1>8. CASE CallerCatches
  BY <1>8, LeftAlone DEF CallerCatches, Ends, LoopKept
<1>9. CASE BuilderGates \/ ServiceReadRaises
  BY <1>9, LeftAlone DEF BuilderGates, ServiceReadRaises, Returned, Ends, LoopKept
<1>10. CASE RunEnded \/ UNCHANGED vars
  BY <1>10, LeftAlone DEF RunEnded, vars
<1> QED
  BY <1>1, <1>2, <1>3, <1>4, <1>5, <1>6, <1>7, <1>8, <1>9, <1>10 DEF Next, AfterLoop

(* Nothing is owed when the invariant holds.                                 *)
LEMMA InvBounded == CostInv => CostIsBounded
<1> SUFFICES ASSUME CostInv PROVE CostIsBounded
  OBVIOUS
<1>1. step \in Nat /\ spent \in Nat /\ attempt \in Nat /\ attempt < MaxRetries
  BY DEF CostInv, CountersTyped
<1>2. CASE phase \in {"loop", "returned"}
  <2>1. Cost(step) \in Nat
    BY <1>1, CostOfOneMore
  <2>2. spent <= Cost(step)
    BY <1>1, <1>2, <2>1, MaxRetriesAssumption DEF CostInv, LoopPaid, ReturnPaid
  <2> QED
    BY <1>1, <1>2, <2>2 DEF CostIsBounded, Cost
<1>3. CASE phase \notin {"loop", "returned"}
  <2>1. spent <= Cost(step + Len(verdicts) + 1)
    BY <1>3 DEF CostInv, EndPaid
  <2>2. step + Len(verdicts) + 1 = step + (Len(verdicts) + 1)
    BY <1>1 DEF CostInv, CountersTyped
  <2> QED
    BY <1>3, <2>1, <2>2 DEF CostIsBounded, Cost
<1> QED
  BY <1>2, <1>3

(* A bounded cost (loop.py 112, providers.py 114): the model is asked at     *)
(* most MaxRetries times for every step of the loop and every verdict, for   *)
(* all jobs, sources and replies and whatever fails.                         *)
THEOREM RunsAreAffordable == Spec => []CostIsBounded
BY CostInvInit, CostInvStep, InvBounded, PTL DEF Spec

-----------------------------------------------------------------------------
(* The transcript.                                                         *)

(* One more turn at the end of a transcript.                               *)
LEMMA TurnAppended ==
  ASSUME NEW S, NEW t \in Seq(S), NEW turn
  PROVE  /\ Append(t, turn) \in Seq(S \cup {turn})
         /\ Len(Append(t, turn)) = Len(t) + 1 /\ Len(t) \in Nat
         /\ DOMAIN Append(t, turn) = 1..(Len(t) + 1) /\ DOMAIN t = 1..Len(t)
         /\ \A k \in 1..Len(t) : Append(t, turn)[k] = t[k]
         /\ Append(t, turn)[Len(t) + 1] = turn
<1>1. t \in Seq(S \cup {turn})
  OBVIOUS
<1> QED
  BY <1>1

LEMMA TurnsAppended ==
  ASSUME NEW S, NEW t \in Seq(S), NEW turn, NEW kind
  PROVE  TurnsOf(Append(t, turn), kind) =
           IF turn.kind = kind THEN TurnsOf(t, kind) \cup {Len(t) + 1} ELSE TurnsOf(t, kind)
  BY TurnAppended DEF TurnsOf

(* The turns of a kind are counted, and what the observations showed.      *)
Counted(t, kind, n) ==
  IsFiniteSet(TurnsOf(t, kind)) /\ Cardinality(TurnsOf(t, kind)) = n

Shown(t) == UNION {HandlesIn(t[n].rows) : n \in TurnsOf(t, "observation")}

LEMMA CountAppended ==
  ASSUME NEW S, NEW t \in Seq(S), NEW turn, NEW kind, NEW n \in Nat, Counted(t, kind, n)
  PROVE  Counted(Append(t, turn), kind, IF turn.kind = kind THEN n + 1 ELSE n)
<1>1. CASE turn.kind = kind
  <2>1. Len(t) + 1 \notin TurnsOf(t, kind)
    BY TurnAppended DEF TurnsOf
  <2>2. TurnsOf(Append(t, turn), kind) = TurnsOf(t, kind) \cup {Len(t) + 1}
    BY <1>1, TurnsAppended
  <2> QED
    <3>1. IsFiniteSet(TurnsOf(t, kind)) /\ Cardinality(TurnsOf(t, kind)) = n
      BY DEF Counted
    <3>2. /\ IsFiniteSet(TurnsOf(t, kind) \cup {Len(t) + 1})
          /\ Cardinality(TurnsOf(t, kind) \cup {Len(t) + 1}) = n + 1
      BY ONLY <2>1, <3>1, FS_AddElement
    <3> QED
      BY ONLY <1>1, <2>2, <3>2 DEF Counted
<1>2. CASE turn.kind # kind
  BY <1>2, TurnsAppended DEF Counted
<1> QED
  BY <1>1, <1>2

LEMMA ShownAppended ==
  ASSUME NEW S, NEW t \in Seq(S), NEW turn
  PROVE  Shown(Append(t, turn)) =
           IF turn.kind = "observation" THEN Shown(t) \cup HandlesIn(turn.rows) ELSE Shown(t)
<1> DEFINE u == Append(t, turn)
           V(n) == HandlesIn(t[n].rows)
           W(n) == HandlesIn(u[n].rows)
           old == TurnsOf(t, "observation")
           new == TurnsOf(u, "observation")
<1>1. \A n \in old : W(n) = V(n)
  BY TurnAppended DEF TurnsOf
<1>2. W(Len(t) + 1) = HandlesIn(turn.rows)
  BY TurnAppended
<1>3. new = IF turn.kind = "observation" THEN old \cup {Len(t) + 1} ELSE old
  BY TurnsAppended
<1>4. Shown(t) = UNION {V(n) : n \in old} /\ Shown(u) = UNION {W(n) : n \in new}
  BY DEF Shown
<1> HIDE DEF u, V, W, old, new
<1>5. \A h : h \in UNION {V(n) : n \in old} <=> \E n \in old : h \in V(n)
  OBVIOUS
<1>6. \A h : h \in UNION {W(n) : n \in new} <=> \E n \in new : h \in W(n)
  OBVIOUS
<1>7. CASE turn.kind = "observation"
  <2>1. \A h : h \in Shown(u) <=> h \in Shown(t) \cup HandlesIn(turn.rows)
    BY ONLY <1>1, <1>2, <1>3, <1>4, <1>5, <1>6, <1>7
  <2> QED
    BY <1>7, <2>1 DEF u
<1>8. CASE turn.kind # "observation"
  <2>1. \A h : h \in Shown(u) <=> h \in Shown(t)
    BY ONLY <1>1, <1>3, <1>4, <1>5, <1>6, <1>8
  <2> QED
    BY <1>8, <2>1 DEF u
<1> QED
  BY <1>7, <1>8

(* A transcript after its opening: replies of the model and answers to     *)
(* them in turn.                                                           *)
Openings == {<<Turn("system"), Turn("trigger")>>,
             <<Turn("system"), Turn("trigger"), Turn("hint")>>}

Answers == {"observation", "retry"}

Laid(t, open) ==
  /\ Len(open) <= Len(t)
  /\ \A k \in 1..Len(open) : t[k] = open[k]
  /\ \A k \in (Len(open) + 1)..Len(t) :
       IF (k - Len(open)) % 2 = 1 THEN t[k].kind = "assistant"
       ELSE t[k].kind \in Answers

Settled(t, open) == (Len(t) - Len(open)) % 2 = 0

(* What is on record of a run: the transcript with the counts of replies   *)
(* and complaints and the handles it has shown.                            *)
Record(t, open, replies, complaints, shown) ==
  /\ \E S : t \in Seq(S)
  /\ open \in Openings /\ Laid(t, open)
  /\ replies \in Nat /\ Counted(t, "assistant", replies)
  /\ complaints \in Nat /\ Counted(t, "retry", complaints)
  /\ shown = Shown(t)

LEMMA OpeningLaid ==
  ASSUME NEW open \in Openings
  PROVE  Record(open, open, 0, 0, {}) /\ Settled(open, open)
<1>1. /\ open \in Seq({Turn("system"), Turn("trigger"), Turn("hint")})
      /\ \A k \in 1..Len(open) : open[k].kind \in {"system", "trigger", "hint"}
  <2>1. CASE open = <<Turn("system"), Turn("trigger")>>
    BY <2>1 DEF Turn
  <2>2. CASE open = <<Turn("system"), Turn("trigger"), Turn("hint")>>
    BY <2>2 DEF Turn
  <2> QED
    BY <2>1, <2>2 DEF Openings
<1>2. \A kind \in {"assistant", "retry", "observation"} : TurnsOf(open, kind) = {}
  BY <1>1 DEF TurnsOf
<1>3. Counted(open, "assistant", 0) /\ Counted(open, "retry", 0)
  BY <1>2, FS_EmptySet DEF Counted
<1>4. Shown(open) = {}
  BY <1>2 DEF Shown
<1>5. Laid(open, open) /\ Settled(open, open)
  BY <1>1 DEF Laid, Settled
<1> QED
  BY <1>1, <1>3, <1>4, <1>5 DEF Record

LEMMA Parity ==
  \A m \in Nat : (m % 2 = 0 \/ m % 2 = 1) /\ ((m + 1) % 2 = 1 <=> m % 2 = 0)
OBVIOUS

(* One more turn of the kind that is due.                                  *)
LEMMA TurnLaid ==
  ASSUME NEW S, NEW t \in Seq(S), NEW open \in Openings, NEW turn, Laid(t, open),
         Settled(t, open) => turn.kind = "assistant",
         ~ Settled(t, open) => turn.kind \in Answers
  PROVE  /\ Laid(Append(t, turn), open)
         /\ Settled(Append(t, turn), open) <=> ~ Settled(t, open)
<1> DEFINE u == Append(t, turn)
           first == Len(open)
           last == Len(t)
<1>1. /\ Len(u) = last + 1 /\ u[last + 1] = turn
      /\ \A k \in 1..last : u[k] = t[k]
  BY TurnAppended
<1>2. first \in Nat /\ last \in Nat /\ first <= last
  BY DEF Openings, Laid
<1>3. /\ \A k \in 1..first : t[k] = open[k]
      /\ \A k \in (first + 1)..last :
           IF (k - first) % 2 = 1 THEN t[k].kind = "assistant"
           ELSE t[k].kind \in Answers
  BY DEF Laid
<1>4. Settled(t, open) <=> (last - first) % 2 = 0
  BY DEF Settled
<1>5. Settled(u, open) <=> (Len(u) - first) % 2 = 0
  BY DEF Settled
<1> HIDE DEF u, first, last
<1>6. last - first \in Nat /\ last + 1 - first = (last - first) + 1
  BY <1>2
<1>7. (last + 1 - first) % 2 = 1 <=> (last - first) % 2 = 0
  BY ONLY <1>6, Parity
<1>8. (last + 1 - first) % 2 = 0 <=> (last - first) % 2 # 0
  BY ONLY <1>6, <1>7, Parity
<1>9. ASSUME NEW k \in (first + 1)..(last + 1)
      PROVE  IF (k - first) % 2 = 1 THEN u[k].kind = "assistant"
             ELSE u[k].kind \in Answers
  <2>1. CASE k = last + 1
    <3>1. (k - first) % 2 = 1 <=> Settled(t, open)
      BY ONLY <1>2, <1>4, <1>7, <2>1
    <3> QED
      BY <1>1, <2>1, <3>1
  <2>2. CASE k # last + 1
    <3>1. k \in (first + 1)..last /\ k \in 1..last
      BY <1>2, <2>2
    <3> QED
      BY <1>1, <1>3, <3>1
  <2> QED
    BY <2>1, <2>2
<1>10. \A k \in 1..first : u[k] = open[k]
  BY <1>1, <1>2, <1>3
<1>11. Laid(u, open)
  <2>1. /\ first <= Len(u)
        /\ \A k \in (first + 1)..Len(u) :
             IF (k - first) % 2 = 1 THEN u[k].kind = "assistant"
             ELSE u[k].kind \in Answers
    BY <1>1, <1>2, <1>9
  <2> QED
    BY <1>10, <2>1 DEF Laid, first
<1>12. Settled(u, open) <=> ~ Settled(t, open)
  <2>1. Settled(u, open) <=> (last + 1 - first) % 2 = 0
    BY ONLY <1>1, <1>2, <1>5
  <2> QED
    BY ONLY <1>4, <1>8, <2>1
<1> QED
  BY ONLY <1>11, <1>12 DEF u

(* A reply of the model follows.                                           *)
LEMMA ReplyLaid ==
  ASSUME NEW t, NEW open, NEW n, NEW v, NEW sh, NEW reply,
         Record(t, open, n, v, sh), Settled(t, open)
  PROVE  LET u == Append(t, AssistantTurn(reply))
         IN  Record(u, open, n + 1, v, sh) /\ ~ Settled(u, open)
<1> DEFINE turn == AssistantTurn(reply)
           u == Append(t, turn)
<1>1. PICK S : t \in Seq(S)
  BY DEF Record
<1>2. turn.kind = "assistant"
  BY DEF AssistantTurn
<1> HIDE DEF turn
<1>3. /\ u \in Seq(S \cup {turn}) /\ Len(u) = Len(t) + 1 /\ Len(t) \in Nat
      /\ \A k \in 1..Len(t) : u[k] = t[k]
      /\ u[Len(t) + 1] = turn
  BY <1>1, TurnAppended
<1>4. Counted(u, "assistant", n + 1) /\ Counted(u, "retry", v)
  BY <1>1, <1>2, CountAppended DEF Record
<1>5. sh = Shown(u)
  BY <1>1, <1>2, ShownAppended DEF Record
<1>6. Laid(u, open) /\ ~ Settled(u, open)
  BY <1>1, <1>2, TurnLaid DEF Record
<1> QED
  BY <1>3, <1>4, <1>5, <1>6 DEF Record, u, turn

(* An answer to it follows.                                                *)
LEMMA AnswerLaid ==
  ASSUME NEW t, NEW open, NEW n, NEW v, NEW sh, NEW turn, turn.kind \in Answers,
         Record(t, open, n, v, sh), ~ Settled(t, open)
  PROVE  LET u == Append(t, turn)
         IN  /\ Record(u, open, n, IF turn.kind = "retry" THEN v + 1 ELSE v,
                       IF turn.kind = "retry" THEN sh ELSE sh \cup HandlesIn(turn.rows))
             /\ Settled(u, open)
<1> DEFINE u == Append(t, turn)
           w == IF turn.kind = "retry" THEN v + 1 ELSE v
           su == IF turn.kind = "retry" THEN sh ELSE sh \cup HandlesIn(turn.rows)
<1>1. PICK S : t \in Seq(S)
  BY DEF Record
<1>2. turn.kind = "observation" \/ turn.kind = "retry"
  BY DEF Answers
<1>3. /\ u \in Seq(S \cup {turn}) /\ Len(u) = Len(t) + 1 /\ Len(t) \in Nat
      /\ \A k \in 1..Len(t) : u[k] = t[k]
      /\ u[Len(t) + 1] = turn
  BY <1>1, TurnAppended
<1>4. Counted(u, "assistant", n) /\ Counted(u, "retry", w) /\ w \in Nat
  BY <1>1, <1>2, CountAppended DEF Record
<1>5. su = Shown(u)
  BY <1>1, <1>2, ShownAppended DEF Record
<1>6. Laid(u, open) /\ Settled(u, open)
  BY <1>1, <1>2, TurnLaid DEF Record, Answers
<1> HIDE DEF u, w, su
<1>7. n \in Nat
  BY DEF Record
<1>8. Record(u, open, n, w, su) /\ Settled(u, open)
  BY <1>3, <1>4, <1>5, <1>6, <1>7 DEF Record
<1> QED
  BY <1>8 DEF u, w, su

-----------------------------------------------------------------------------
(* What a run keeps of its transcript.  In the loop a call has been         *)
(* answered once for every step, but for the step whose call is still being *)
(* tried again.                                                             *)
Replied == IF attempt = 0 THEN step ELSE step - 1

(* The diagnosis is one the model may give.                                 *)
FromModel ==
  \E reply \in Replies \cup Range(job.script) :
    reply.kind = "diagnose" /\ diagnosis = reply.diagnosis

Returns ==
  /\ Record(transcript, Opening, step, violations, seen)
  /\ \/ EndsOnReply /\ FromModel
     \/ /\ diagnosis = Abstain("exhausted") /\ step = job.budget
        /\ ~ EndsOnReply

ContractInv ==
  /\ \E j \in Jobs : job = j[1]
  /\ \E n : Record(transcript, Opening, n, violations, seen)
  /\ phase = "loop" =>
       /\ Record(transcript, Opening, Replied, violations, seen)
       /\ Settled(transcript, Opening)
       /\ attempt > 0 => step > 0
       /\ step = 0 => transcript = <<Turn("system"), Turn("trigger")>>
  /\ phase = "returned" => Returns

LEMMA ContractInvInit == Init => ContractInv
<1> SUFFICES ASSUME Init PROVE ContractInv
  OBVIOUS
<1>1. /\ step = 0 /\ attempt = 0 /\ phase = "loop" /\ violations = 0 /\ seen = {}
      /\ transcript = <<Turn("system"), Turn("trigger")>>
      /\ \E j \in Jobs : job = j[1]
  BY DEF Init, LoopInit
<1>2. Opening = transcript /\ Opening \in Openings /\ Replied = 0
  BY <1>1 DEF Opening, Openings, Replied
<1>3. Record(transcript, Opening, 0, 0, {}) /\ Settled(transcript, Opening)
  BY ONLY <1>2, OpeningLaid
<1> QED
  BY <1>1, <1>2, <1>3 DEF ContractInv

LEMMA HintAppended ==
  ASSUME NEW a, NEW b, NEW c
  PROVE  <<a, b>> \in Seq({a, b}) /\ Len(<<a, b>>) = 2 /\ Append(<<a, b>>, c) = <<a, b, c>>
<1>1. <<a, b>> \in Seq({a, b, c})
  OBVIOUS
<1>2. Len(<<a, b>>) = 2 /\ <<a, b>> \in Seq({a, b})
  OBVIOUS
<1>3. Append(<<a, b>>, c) \in Seq({a, b, c}) /\ <<a, b, c>> \in Seq({a, b, c})
  OBVIOUS
<1>4. Len(Append(<<a, b>>, c)) = 3 /\ Len(<<a, b, c>>) = 3
  BY <1>1, <1>2
<1>5. \A k \in 1..3 : Append(<<a, b>>, c)[k] = <<a, b, c>>[k]
  <2>1. /\ Append(<<a, b>>, c)[3] = c
        /\ \A k \in 1..2 : Append(<<a, b>>, c)[k] = <<a, b>>[k]
    BY <1>1, <1>2
  <2>2. /\ <<a, b>>[1] = a /\ <<a, b>>[2] = b
        /\ <<a, b, c>>[1] = a /\ <<a, b, c>>[2] = b /\ <<a, b, c>>[3] = c
    OBVIOUS
  <2>3. \A k \in 1..3 : k = 1 \/ k = 2 \/ k = 3
    OBVIOUS
  <2>4. 1 \in 1..2 /\ 2 \in 1..2
    OBVIOUS
  <2> QED
    BY ONLY <2>1, <2>2, <2>3, <2>4
<1>6. Append(<<a, b>>, c) = <<a, b, c>>
  BY ONLY <1>3, <1>4, <1>5, SeqEqual
<1> QED
  BY <1>2, <1>6

LEMMA OneBack == \A k \in Nat : k - 1 + 1 = k
OBVIOUS

(* The hint belongs to the opening.                                         *)
LEMMA HintLaid ==
  ASSUME NEW n, NEW v, NEW sh,
         Record(<<Turn("system"), Turn("trigger")>>,
                <<Turn("system"), Turn("trigger")>>, n, v, sh)
  PROVE  LET t == <<Turn("system"), Turn("trigger"), Turn("hint")>>
         IN  Record(t, t, n, v, sh) /\ Settled(t, t)
<1> DEFINE two == <<Turn("system"), Turn("trigger")>>
           three == <<Turn("system"), Turn("trigger"), Turn("hint")>>
<1>1. /\ two \in Seq({Turn("system"), Turn("trigger")})
      /\ three = Append(two, Turn("hint")) /\ three \in Openings
  BY DEF Openings
<1>2. Turn("hint").kind = "hint"
  BY DEF Turn
<1>3. /\ n \in Nat /\ Counted(two, "assistant", n)
      /\ v \in Nat /\ Counted(two, "retry", v) /\ sh = Shown(two)
  BY DEF Record
<1> HIDE DEF two, three
<1>4. Counted(three, "assistant", n) /\ Counted(three, "retry", v)
  BY <1>1, <1>2, <1>3, CountAppended
<1>5. sh = Shown(three)
  BY <1>1, <1>2, <1>3, ShownAppended
<1>6. Record(three, three, 0, 0, {}) /\ Settled(three, three)
  BY <1>1, OpeningLaid
<1> QED
  BY <1>3, <1>4, <1>5, <1>6 DEF Record, three

(* A request of the loop goes out after a transcript with every reply       *)
(* answered, and now there is a step.                                       *)
LEMMA AskedRecord ==
  ASSUME CostInv, ContractInv, Ask
  PROVE  /\ Record(Asked, Opening', step' - 1, violations, seen)
         /\ Settled(Asked, Opening')
         /\ step' \in Nat /\ step' > 0 /\ job' = job
<1>1. /\ phase = "loop" /\ job' = job /\ step' = IF attempt = 0 THEN step + 1 ELSE step
      /\ step \in Nat /\ attempt \in Nat
  BY DEF Ask, CostInv, CountersTyped
<1>2. /\ Record(transcript, Opening, Replied, violations, seen)
      /\ Settled(transcript, Opening)
      /\ attempt > 0 => step > 0
      /\ step = 0 => transcript = <<Turn("system"), Turn("trigger")>>
  BY <1>1 DEF ContractInv
<1>3. step' \in Nat /\ step' > 0 /\ Replied = step' - 1
  BY <1>1, <1>2 DEF Replied
<1>4. CASE step > 0 /\ job.hint
  <2>1. Opening' = Opening
    BY <1>1, <1>3, <1>4 DEF Opening
  <2>2. Opening = <<Turn("system"), Turn("trigger"), Turn("hint")>>
    BY <1>4 DEF Opening
  <2>3. Len(transcript) >= 3
    BY <1>2, <2>2 DEF Record, Laid
  <2>4. transcript # <<Turn("system"), Turn("trigger")>>
    BY ONLY <2>3, HintAppended
  <2>5. Asked = transcript
    BY ONLY <2>4 DEF Asked
  <2> QED
    BY <1>1, <1>2, <1>3, <2>1, <2>5
<1>5. CASE ~ job.hint
  <2>1. Opening' = Opening /\ Asked = transcript
    BY <1>1, <1>5 DEF Opening, Asked
  <2> QED
    BY <1>1, <1>2, <1>3, <2>1
<1>6. CASE step = 0 /\ job.hint
  <2>1. /\ transcript = <<Turn("system"), Turn("trigger")>>
        /\ Opening = <<Turn("system"), Turn("trigger")>>
    BY <1>2, <1>6 DEF Opening
  <2>2. Opening' = <<Turn("system"), Turn("trigger"), Turn("hint")>>
    BY <1>1, <1>3, <1>6 DEF Opening
  <2>3. Asked = <<Turn("system"), Turn("trigger"), Turn("hint")>>
    <3>1. Asked = Append(transcript, Turn("hint"))
      BY <1>6, <2>1 DEF Asked
    <3> QED
      BY ONLY <2>1, <3>1, HintAppended
  <2>4. Record(<<Turn("system"), Turn("trigger")>>,
               <<Turn("system"), Turn("trigger")>>, step' - 1, violations, seen)
    BY ONLY <1>2, <1>3, <2>1
  <2>5. Record(Asked, Opening', step' - 1, violations, seen) /\ Settled(Asked, Opening')
    BY ONLY <2>2, <2>3, <2>4, HintLaid
  <2> QED
    BY <1>1, <1>3, <2>5
<1> QED
  BY <1>1, <1>4, <1>5, <1>6

(* The model's reply follows it.                                            *)
LEMMA AnsweredRecord ==
  ASSUME CostInv, ContractInv, NEW reply, Answered(reply)
  PROVE  /\ Record(Append(Asked, AssistantTurn(reply)), Opening', step', violations, seen)
         /\ ~ Settled(Append(Asked, AssistantTurn(reply)), Opening')
         /\ step' \in Nat /\ step' > 0 /\ attempt' = 0 /\ Replied' = step'
         /\ job' = job
<1>1. Ask /\ attempt' = 0
  BY DEF Answered
<1>2. /\ Record(Asked, Opening', step' - 1, violations, seen)
      /\ Settled(Asked, Opening')
      /\ step' \in Nat /\ step' > 0 /\ job' = job
  BY <1>1, AskedRecord
<1>3. step' - 1 + 1 = step' /\ Replied' = step'
  <2>1. step' - 1 + 1 = step'
    <3>1. step' \in Nat
      BY <1>2
    <3> QED
      BY ONLY <3>1, OneBack
  <2>2. Replied' = step'
    BY <1>1 DEF Replied
  <2> QED
    BY <2>1, <2>2
<1>4. /\ Record(Append(Asked, AssistantTurn(reply)), Opening', step' - 1 + 1,
                violations, seen)
      /\ ~ Settled(Append(Asked, AssistantTurn(reply)), Opening')
  BY ONLY <1>2, ReplyLaid
<1> QED
  BY <1>1, <1>2, <1>3, <1>4

(* Two turns are added one after the other.                                 *)
LEMMA TwoTurns ==
  ASSUME NEW S, NEW t \in Seq(S), NEW a, NEW b
  PROVE  t \o <<a, b>> = Append(Append(t, a), b)
<1>1. t \in Seq(S \cup {a, b}) /\ a \in S \cup {a, b} /\ b \in S \cup {a, b}
  OBVIOUS
<1> QED
  BY <1>1

(* Answered, a transcript does not end with a reply.                        *)
LEMMA SettledEnds ==
  ASSUME NEW t, NEW open, NEW n, NEW v, NEW sh, Record(t, open, n, v, sh),
         Settled(t, open)
  PROVE  t[Len(t)].kind # "assistant"
<1>1. /\ open \in Seq({Turn("system"), Turn("trigger"), Turn("hint")})
      /\ Len(open) \in {2, 3}
      /\ \A k \in 1..Len(open) : open[k].kind \in {"system", "trigger", "hint"}
  <2>1. CASE open = <<Turn("system"), Turn("trigger")>>
    BY <2>1 DEF Turn
  <2>2. CASE open = <<Turn("system"), Turn("trigger"), Turn("hint")>>
    BY <2>2 DEF Turn
  <2> QED
    BY <2>1, <2>2 DEF Record, Openings
<1>2. /\ Len(t) \in Nat /\ Len(open) <= Len(t)
      /\ \A k \in 1..Len(open) : t[k] = open[k]
      /\ \A k \in (Len(open) + 1)..Len(t) :
           IF (k - Len(open)) % 2 = 1 THEN t[k].kind = "assistant"
           ELSE t[k].kind \in Answers
  BY DEF Record, Laid
<1>3. (Len(t) - Len(open)) % 2 = 0
  BY DEF Settled
<1>4. CASE Len(t) = Len(open)
  BY <1>1, <1>2, <1>4
<1>5. CASE Len(t) # Len(open)
  <2>1. Len(t) \in (Len(open) + 1)..Len(t)
    BY <1>1, <1>2, <1>5
  <2> QED
    BY <1>2, <1>3, <2>1 DEF Answers
<1> QED
  BY <1>4, <1>5

(* A reply that is answered with a complaint.                               *)
LEMMA ContractOfRetry ==
  ASSUME CostInv, ContractInv, NEW reply, Answered(reply), TryAgain(reply)
  PROVE  ContractInv'
<1> DEFINE said == Append(Asked, AssistantTurn(reply))
<1>1. /\ Record(said, Opening', step', violations, seen) /\ ~ Settled(said, Opening')
      /\ step' \in Nat /\ step' > 0 /\ attempt' = 0 /\ Replied' = step' /\ job' = job
  BY AnsweredRecord
<1>2. phase = "loop"
  BY DEF Answered, Ask
<1>3. /\ transcript' = Asked \o <<AssistantTurn(reply), Turn("retry")>>
      /\ violations' = violations + 1 /\ phase' = "loop" /\ seen' = seen
  BY <1>2 DEF TryAgain
<1>4. PICK S : Asked \in Seq(S)
  <2>1. Ask
    BY DEF Answered
  <2> QED
    BY <2>1, AskedRecord DEF Record
<1>5. transcript' = Append(said, Turn("retry"))
  BY <1>3, <1>4, TwoTurns
<1> HIDE DEF said
<1>6. Turn("retry").kind = "retry" /\ Turn("retry").kind \in Answers
  BY DEF Turn, Answers
<1>7. /\ Record(transcript', Opening', step', violations + 1, seen)
      /\ Settled(transcript', Opening')
  BY ONLY <1>1, <1>5, <1>6, AnswerLaid
<1>8. /\ Record(transcript', Opening', Replied', violations', seen')
      /\ Settled(transcript', Opening')
  BY ONLY <1>1, <1>3, <1>7
<1>9. \E j \in Jobs : job' = j[1]
  BY <1>1 DEF ContractInv
<1>10. attempt' > 0 => step' > 0
  BY <1>1
<1>11. step' # 0
  BY <1>1
<1> QED
  BY ONLY <1>3, <1>8, <1>9, <1>10, <1>11 DEF ContractInv

(* A reply that is answered with an observation.                            *)
LEMMA ContractOfObserves ==
  ASSUME CostInv, ContractInv, Observes
  PROVE  ContractInv'
<1>1. PICK reply \in Replies \cup Range(job.script) :
        /\ Answered(reply)
        /\ LET rows == ToolRows(reply.tool, reply.args, SignalsOf(source), job.cap)
           IN  /\ transcript' = Asked \o <<AssistantTurn(reply),
                                           Observation(reply.tool, rows)>>
               /\ seen' = seen \cup HandlesIn(rows)
        /\ UNCHANGED <<phase, violations, diagnosis>>
  BY DEF Observes
<1> DEFINE said == Append(Asked, AssistantTurn(reply))
           rows == ToolRows(reply.tool, reply.args, SignalsOf(source), job.cap)
           turn == Observation(reply.tool, rows)
<1>2. /\ Record(said, Opening', step', violations, seen) /\ ~ Settled(said, Opening')
      /\ step' \in Nat /\ step' > 0 /\ attempt' = 0 /\ Replied' = step' /\ job' = job
  BY <1>1, AnsweredRecord
<1>3. phase = "loop" /\ phase' = "loop"
  BY <1>1 DEF Answered, Ask
<1>4. PICK S : Asked \in Seq(S)
  <2>1. Ask
    BY <1>1 DEF Answered
  <2> QED
    BY <2>1, AskedRecord DEF Record
<1>5. transcript' = Append(said, turn) /\ seen' = seen \cup HandlesIn(rows)
  <2>1. transcript' = Asked \o <<AssistantTurn(reply), turn>>
    BY <1>1
  <2> QED
    BY <1>1, <1>4, <2>1, TwoTurns
<1>6. /\ turn.kind = "observation" /\ turn.kind \in Answers /\ turn.rows = rows
      /\ turn.kind # "retry"
  BY DEF Observation, Answers
<1>7. violations' = violations
  BY <1>1
<1> HIDE DEF said, rows, turn
<1>8. /\ Record(transcript', Opening', step', violations, seen \cup HandlesIn(rows))
      /\ Settled(transcript', Opening')
  <2>1. LET u == Append(said, turn)
        IN  /\ Record(u, Opening', step', IF turn.kind = "retry" THEN violations + 1
                                          ELSE violations,
                      IF turn.kind = "retry" THEN seen
                      ELSE seen \cup HandlesIn(turn.rows))
            /\ Settled(u, Opening')
    BY ONLY <1>2, <1>6, AnswerLaid
  <2> QED
    BY ONLY <1>5, <1>6, <2>1
<1>9. /\ Record(transcript', Opening', Replied', violations', seen')
      /\ Settled(transcript', Opening')
  BY ONLY <1>2, <1>5, <1>7, <1>8
<1>10. \E j \in Jobs : job' = j[1]
  BY <1>2 DEF ContractInv
<1>11. step' # 0 /\ (attempt' > 0 => step' > 0)
  BY <1>2
<1> QED
  BY ONLY <1>3, <1>9, <1>10, <1>11 DEF ContractInv

(* A reply that ends the loop.                                              *)
LEMMA ContractOfDiagnoses ==
  ASSUME CostInv, ContractInv, Diagnoses
  PROVE  ContractInv'
<1>1. PICK reply \in Replies \cup Range(job.script) :
        /\ Answered(reply) /\ reply.kind = "diagnose"
        /\ transcript' = Append(Asked, AssistantTurn(reply))
        /\ diagnosis' = reply.diagnosis
        /\ phase' = "returned"
        /\ UNCHANGED <<violations, seen>>
  BY DEF Diagnoses
<1>2. /\ Record(transcript', Opening', step', violations', seen') /\ job' = job
  BY <1>1, AnsweredRecord
<1>3. PICK S : Asked \in Seq(S)
  <2>1. Ask
    BY <1>1 DEF Answered
  <2> QED
    BY <2>1, AskedRecord DEF Record
<1>4. transcript'[Len(transcript')] = AssistantTurn(reply)
  BY <1>1, <1>3, TurnAppended
<1>5. EndsOnReply'
  BY <1>1, <1>4 DEF EndsOnReply, AssistantTurn
<1>6. FromModel'
  BY <1>1, <1>2 DEF FromModel
<1>7. \E j \in Jobs : job' = j[1]
  BY <1>2 DEF ContractInv
<1> QED
  BY <1>1, <1>2, <1>5, <1>6, <1>7 DEF ContractInv, Returns

LEMMA ContractOfExhausts ==
  ASSUME CostInv, ContractInv, Exhausts
  PROVE  ContractInv'
<1>1. /\ phase = "loop" /\ attempt = 0 /\ step = job.budget /\ phase' = "returned"
      /\ diagnosis' = Abstain("exhausted")
      /\ UNCHANGED <<job, step, transcript, violations, seen>>
  BY DEF Exhausts
<1>2. Record(transcript, Opening, step, violations, seen) /\ Settled(transcript, Opening)
  BY <1>1 DEF ContractInv, Replied
<1>3. Opening' = Opening
  BY <1>1 DEF Opening
<1>4. Record(transcript', Opening', step', violations', seen')
  BY <1>1, <1>2, <1>3
<1>5. ~ EndsOnReply'
  BY <1>1, <1>2, SettledEnds DEF EndsOnReply
<1>6. \E j \in Jobs : job' = j[1]
  BY <1>1 DEF ContractInv
<1> QED
  BY <1>1, <1>4, <1>5, <1>6 DEF ContractInv, Returns

(* A call that ends without a reply, or with one that raises.               *)
LEMMA ContractOfFailures ==
  ASSUME CostInv, ContractInv, AttemptFails \/ CallRaises \/ Unhashable
  PROVE  ContractInv'
<1>1. Ask
  BY DEF AttemptFails, CallRaises, Unhashable, Answered
<1>2. /\ Record(Asked, Opening', step' - 1, violations, seen)
      /\ Settled(Asked, Opening')
      /\ step' \in Nat /\ step' > 0 /\ job' = job
  BY <1>1, AskedRecord
<1>3. \E j \in Jobs : job' = j[1]
  BY <1>2 DEF ContractInv
<1>4. CASE AttemptFails
  <2>1. /\ transcript' = Asked /\ UNCHANGED <<phase, violations, seen>>
        /\ attempt' = attempt + 1 /\ attempt \in Nat
    BY <1>4 DEF AttemptFails, CostInv, CountersTyped
  <2>2. Replied' = step' - 1 /\ phase' # "returned"
    BY <1>1, <2>1 DEF Replied, Ask
  <2>3. /\ Record(transcript', Opening', Replied', violations', seen')
        /\ Settled(transcript', Opening')
    BY ONLY <1>2, <2>1, <2>2
  <2>4. (attempt' > 0 => step' > 0) /\ step' # 0
    BY <1>2
  <2> QED
    BY ONLY <1>3, <2>2, <2>3, <2>4 DEF ContractInv
<1>5. CASE CallRaises
  <2>1. /\ transcript' = Asked /\ UNCHANGED <<violations, seen>>
        /\ phase' \in {"unreachable", "raised"}
    BY <1>5 DEF CallRaises
  <2>2. Record(transcript', Opening', step' - 1, violations', seen')
    BY ONLY <1>2, <2>1
  <2> QED
    BY ONLY <1>3, <2>1, <2>2 DEF ContractInv
<1>6. CASE Unhashable
  <2>1. PICK reply \in Replies :
          /\ Answered(reply) /\ transcript' = Append(Asked, AssistantTurn(reply))
          /\ phase' = "raised" /\ UNCHANGED <<violations, seen>>
    BY <1>6 DEF Unhashable
  <2>2. Record(transcript', Opening', step', violations', seen')
    BY <2>1, AnsweredRecord
  <2> QED
    BY ONLY <1>3, <2>1, <2>2 DEF ContractInv
<1> QED
  BY <1>4, <1>5, <1>6

(* Once the loop has ended nothing is added.                                *)
LEMMA ContractLeftAlone ==
  ASSUME ContractInv, UNCHANGED <<job, step, transcript, violations, seen>>,
         \/ phase' = phase /\ UNCHANGED <<attempt, diagnosis>>
         \/ phase # "loop" /\ phase' \notin {"loop", "returned"}
         \/ phase \notin {"loop", "returned"} /\ phase' = phase
  PROVE  ContractInv'
<1>1. Opening' = Opening
  BY DEF Opening
<1>2. /\ \E j \in Jobs : job' = j[1]
      /\ \E n : Record(transcript', Opening', n, violations', seen')
  BY <1>1 DEF ContractInv
<1>3. CASE phase' = phase /\ UNCHANGED <<attempt, diagnosis>>
  <2>1. Replied' = Replied /\ (EndsOnReply' <=> EndsOnReply) /\ (FromModel' <=> FromModel)
    BY <1>3 DEF Replied, EndsOnReply, FromModel
  <2>2. phase' = "loop" =>
          /\ Record(transcript', Opening', Replied', violations', seen')
          /\ Settled(transcript', Opening')
          /\ attempt' > 0 => step' > 0
          /\ step' = 0 => transcript' = <<Turn("system"), Turn("trigger")>>
    BY <1>1, <1>3, <2>1 DEF ContractInv
  <2>3. phase' = "returned" => Returns'
    BY <1>1, <1>3, <2>1 DEF ContractInv, Returns
  <2> QED
    BY ONLY <1>2, <2>2, <2>3 DEF ContractInv
<1>4. CASE phase' \notin {"loop", "returned"}
  BY ONLY <1>2, <1>4 DEF ContractInv
<1> QED
  BY <1>3, <1>4

LEMMA ContractInvStep ==
  ASSUME CostInv, ContractInv, [Next]_vars
  PROVE  ContractInv'
<1>1. CASE LoopStep
  <2>1. CASE AttemptFails \/ CallRaises \/ Unhashable
    BY <2>1, ContractOfFailures
  <2>2. CASE BadReply
    BY <2>2, ContractOfRetry DEF BadReply
  <2>3. CASE ToolFails
    BY <2>3, ContractOfRetry DEF ToolFails
  <2>4. CASE Diagnoses
    BY <2>4, ContractOfDiagnoses
  <2>5. CASE Observes
    BY <2>5, ContractOfObserves
  <2>6. CASE Exhausts
    BY <2>6, ContractOfExhausts
  <2> QED
    BY <1>1, <2>1, <2>2, <2>3, <2>4, <2>5, <2>6 DEF LoopStep
<1>2. CASE FilesGrow
  BY <1>2, ContractLeftAlone DEF FilesGrow, LogGrows, DeployStarts, DeployEnds
<1>3. CASE CliWriteFails \/ CliChecks
  BY <1>3, ContractLeftAlone DEF CliWriteFails, CliChecks, Returned, Ends, LoopKept
<1>4. CASE ServiceChecks \/ EvalTimes
  BY <1>4, ContractLeftAlone DEF ServiceChecks, EvalTimes, Verifies, Returned, LoopKept
<1>5. CASE VerdictUnresolved \/ VerifierAttemptFails \/ Verdict \/ VerifierRaises
  BY <1>5, ContractLeftAlone
     DEF VerdictUnresolved, VerifierAttemptFails, Verdict, VerifierRaises, Unjudged,
         LoopKept
<1>6. CASE VerifyEnds
  BY <1>6, ContractLeftAlone DEF VerifyEnds, LoopKept
<1>7. CASE ServiceRecords \/ EvalScores
  BY <1>7, ContractLeftAlone DEF ServiceRecords, EvalScores, Ends, LoopKept
<1>8. CASE CallerCatches
  BY <1>8, ContractLeftAlone DEF CallerCatches, Ends, LoopKept
<1>9. CASE BuilderGates \/ ServiceReadRaises
  BY <1>9, ContractLeftAlone DEF BuilderGates, ServiceReadRaises, Returned, Ends, LoopKept
<1>10. CASE RunEnded \/ UNCHANGED vars
  BY <1>10, ContractLeftAlone DEF RunEnded, vars
<1> QED
  BY <1>1, <1>2, <1>3, <1>4, <1>5, <1>6, <1>7, <1>8, <1>9, <1>10 DEF Next, AfterLoop

(* The model and the scripts leave the loop's own reasons to the loop       *)
(* (loop.py 30): nothing in the code keeps a model from using its words.    *)
OwnWords ==
  \A reply \in Replies \cup UNION {Range(j[1].script) : j \in Jobs} :
    reply.kind = "diagnose" => reply.diagnosis.reason \notin FallbackReasons

LEMMA ModelsReason ==
  ASSUME OwnWords, FromModel, \E j \in Jobs : job = j[1]
  PROVE  diagnosis.reason \notin FallbackReasons
<1>1. PICK reply \in Replies \cup Range(job.script) :
        reply.kind = "diagnose" /\ diagnosis = reply.diagnosis
  BY DEF FromModel
<1>2. PICK j \in Jobs : job = j[1]
  OBVIOUS
<1>3. reply \in Replies \cup UNION {Range(i[1].script) : i \in Jobs}
  BY <1>1, <1>2
<1> QED
  BY <1>1, <1>3 DEF OwnWords

(* What the record says, in the words of the contract.                      *)
LEMMA RecordContract ==
  ASSUME NEW n, NEW v, NEW sh, Record(transcript, Opening, n, v, sh)
  PROVE  LET opening == Len(Opening)
             replies == TurnsOf(transcript, "assistant")
             answers == TurnsOf(transcript, "observation") \cup TurnsOf(transcript, "retry")
         IN  /\ SubSeq(transcript, 1, opening) = Opening
             /\ replies = {k \in (opening + 1)..Len(transcript) : (k - opening) % 2 = 1}
             /\ answers = {k \in (opening + 1)..Len(transcript) : (k - opening) % 2 = 0}
<1> DEFINE t == transcript
           opening == Len(Opening)
<1>1. /\ Opening \in Seq({Turn("system"), Turn("trigger"), Turn("hint")})
      /\ opening \in {2, 3}
      /\ \A k \in 1..opening : Opening[k].kind \in {"system", "trigger", "hint"}
  <2>1. CASE Opening = <<Turn("system"), Turn("trigger")>>
    BY <2>1 DEF Turn
  <2>2. CASE Opening = <<Turn("system"), Turn("trigger"), Turn("hint")>>
    BY <2>2 DEF Turn
  <2> QED
    BY <2>1, <2>2 DEF Record, Openings
<1>2. /\ opening <= Len(t)
      /\ \A k \in 1..opening : t[k] = Opening[k]
      /\ \A k \in (opening + 1)..Len(t) :
           IF (k - opening) % 2 = 1 THEN t[k].kind = "assistant"
           ELSE t[k].kind \in Answers
  BY DEF Record, Laid
<1>3. PICK S : t \in Seq(S)
  BY DEF Record
<1>4. Len(t) \in Nat /\ DOMAIN t = 1..Len(t)
  BY <1>3
<1>5. SubSeq(t, 1, opening) = Opening
  <2> DEFINE R == {t[k] : k \in 1..opening}
  <2>1. Opening \in Seq(R) /\ DOMAIN Opening = 1..opening
    BY <1>1, <1>2
  <2>2. /\ SubSeq(t, 1, opening) \in Seq(S) /\ Len(SubSeq(t, 1, opening)) = opening
        /\ \A k \in 1..opening : SubSeq(t, 1, opening)[k] = t[k]
    BY <1>1, <1>2, <1>3, <1>4
  <2>3. Opening \in Seq(S \cup R) /\ SubSeq(t, 1, opening) \in Seq(S \cup R)
    BY <2>1, <2>2
  <2> QED
    BY <1>2, <2>2, <2>3, SeqEqual
<1> HIDE DEF t, opening
<1>6. \A k \in 1..Len(t) : k \in 1..opening \/ k \in (opening + 1)..Len(t)
  BY <1>1, <1>2, <1>4
<1>7. \A k \in (opening + 1)..Len(t) :
        k \in 1..Len(t) /\ ((k - opening) % 2 = 0 \/ (k - opening) % 2 = 1)
  BY <1>1, <1>2, <1>4
<1>8. TurnsOf(t, "assistant") = {k \in (opening + 1)..Len(t) : (k - opening) % 2 = 1}
  BY <1>1, <1>2, <1>4, <1>6, <1>7 DEF TurnsOf, Answers
<1>9. TurnsOf(t, "observation") \cup TurnsOf(t, "retry")
        = {k \in 1..Len(t) : t[k].kind \in Answers}
  BY <1>4 DEF TurnsOf, Answers
<1>10. \A k \in 1..Len(t) :
         t[k].kind \in Answers <=> k \in (opening + 1)..Len(t) /\ (k - opening) % 2 = 0
  <2> TAKE k \in 1..Len(t)
  <2>1. CASE k \in 1..opening
    <3>1. t[k].kind \notin Answers
      BY <1>1, <1>2, <2>1 DEF Answers
    <3>2. k \notin (opening + 1)..Len(t)
      BY <1>1, <2>1
    <3> QED
      BY <3>1, <3>2
  <2>2. CASE k \in (opening + 1)..Len(t)
    <3>1. CASE (k - opening) % 2 = 1
      BY <1>2, <2>2, <3>1 DEF Answers
    <3>2. CASE (k - opening) % 2 = 0
      BY <1>2, <2>2, <3>2 DEF Answers
    <3> QED
      BY <1>7, <2>2, <3>1, <3>2
  <2> QED
    BY <1>6, <2>1, <2>2
<1>11. {k \in 1..Len(t) : t[k].kind \in Answers}
        = {k \in (opening + 1)..Len(t) : (k - opening) % 2 = 0}
  BY <1>7, <1>10
<1> QED
  BY <1>5, <1>8, <1>9, <1>11 DEF t, opening

LEMMA InvContract ==
  ASSUME OwnWords, ContractInv
  PROVE  TranscriptContract
<1>1. PICK n : Record(transcript, Opening, n, violations, seen)
  BY DEF ContractInv
<1>2. LET opening == Len(Opening)
          replies == TurnsOf(transcript, "assistant")
          answers == TurnsOf(transcript, "observation") \cup TurnsOf(transcript, "retry")
      IN  /\ SubSeq(transcript, 1, opening) = Opening
          /\ replies = {k \in (opening + 1)..Len(transcript) : (k - opening) % 2 = 1}
          /\ answers = {k \in (opening + 1)..Len(transcript) : (k - opening) % 2 = 0}
  BY <1>1, RecordContract
<1>3. /\ Cardinality(TurnsOf(transcript, "retry")) = violations
      /\ seen = UNION {HandlesIn(transcript[k].rows) :
                         k \in TurnsOf(transcript, "observation")}
  BY <1>1 DEF Record, Counted, Shown
<1>4. phase = "loop" /\ attempt = 0 =>
        Cardinality(TurnsOf(transcript, "assistant")) = step
  BY DEF ContractInv, Record, Counted, Replied
<1>5. phase = "returned" =>
        /\ Cardinality(TurnsOf(transcript, "assistant")) = step
        /\ diagnosis.reason \notin FallbackReasons => EndsOnReply
        /\ diagnosis.reason \in FallbackReasons =>
             /\ diagnosis = Abstain("exhausted")
             /\ step = job.budget /\ ~ EndsOnReply
  <2> SUFFICES ASSUME phase = "returned"
               PROVE  /\ Cardinality(TurnsOf(transcript, "assistant")) = step
                      /\ diagnosis.reason \notin FallbackReasons => EndsOnReply
                      /\ diagnosis.reason \in FallbackReasons =>
                           /\ diagnosis = Abstain("exhausted")
                           /\ step = job.budget /\ ~ EndsOnReply
    OBVIOUS
  <2>1. Returns /\ \E j \in Jobs : job = j[1]
    BY DEF ContractInv
  <2>2. Cardinality(TurnsOf(transcript, "assistant")) = step
    BY <2>1 DEF Returns, Record, Counted
  <2>3. CASE EndsOnReply /\ FromModel
    BY <2>1, <2>2, <2>3, ModelsReason
  <2>4. CASE /\ diagnosis = Abstain("exhausted") /\ step = job.budget
             /\ ~ EndsOnReply
    BY <2>2, <2>4 DEF Abstain, FallbackReasons
  <2> QED
    BY <2>1, <2>3, <2>4 DEF Returns
<1> QED
  BY ONLY <1>2, <1>3, <1>4, <1>5 DEF TranscriptContract

(* The contract of LoopResult (loop.py 54): whatever the model replies,     *)
(* whatever fails and however the files grow, the transcript is the opening *)
(* and then replies answered in turn, its turns are what the counters       *)
(* count, its observations are what was seen, and a run that returns ends   *)
(* on the reply its diagnosis was taken from, or on none when its budget    *)
(* was used up.                                                             *)
THEOREM TranscriptsAreComplete ==
  ASSUME OwnWords
  PROVE  Spec => []TranscriptContract
<1>1. ContractInv => TranscriptContract
  BY InvContract
<1> QED
  BY <1>1, CostInvInit, CostInvStep, ContractInvInit, ContractInvStep, PTL DEF Spec

-----------------------------------------------------------------------------
(* Elements in an order.  What InOrder lists is defined by counting: the    *)
(* n-th has n - 1 before it.  In a total order of a finite set every rank   *)
(* below the number of elements is taken, by one element.                   *)

(* R is a strict total order of S.                                          *)
Orders(R, S) ==
  /\ \A i \in S : <<i, i>> \notin R
  /\ \A i, j \in S : i # j => <<i, j>> \in R \/ <<j, i>> \in R
  /\ \A i, j, k \in S : <<i, j>> \in R /\ <<j, k>> \in R => <<i, k>> \in R

Below(R, S, i) == {j \in S : <<j, i>> \in R}

Rank(R, S, i) == Cardinality(Below(R, S, i))

(* Ranks grow along the order, and below the number of elements every rank *)
(* is taken.                                                               *)
LEMMA RanksGrow ==
  ASSUME NEW S, IsFiniteSet(S), NEW R, Orders(R, S)
  PROVE  /\ \A i \in S : Rank(R, S, i) \in Nat /\ Rank(R, S, i) < Cardinality(S)
         /\ \A i, j \in S : <<i, j>> \in R => Rank(R, S, i) < Rank(R, S, j)
<1>1. \A i \in S : /\ IsFiniteSet(Below(R, S, i)) /\ Rank(R, S, i) \in Nat
                   /\ Below(R, S, i) \in SUBSET S
  BY FS_Subset, FS_CardinalityType DEF Below, Rank
<1>2. ASSUME NEW A, IsFiniteSet(A), NEW B \in SUBSET A, B # A
      PROVE  Cardinality(B) < Cardinality(A)
  BY <1>2, FS_Subset, FS_CardinalityType
<1>3. ASSUME NEW i \in S
      PROVE  Rank(R, S, i) < Cardinality(S)
  <2>1. i \notin Below(R, S, i)
    BY DEF Below, Orders
  <2> QED
    BY <1>1, <1>2, <2>1 DEF Rank
<1>4. ASSUME NEW i \in S, NEW j \in S, <<i, j>> \in R
      PROVE  Rank(R, S, i) < Rank(R, S, j)
  <2>1. i \in Below(R, S, j) /\ i \notin Below(R, S, i)
    BY <1>4 DEF Below, Orders
  <2>2. Below(R, S, i) \in SUBSET Below(R, S, j)
    BY <1>4 DEF Below, Orders
  <2> QED
    BY <1>1, <1>2, <2>1, <2>2 DEF Rank
<1> QED
  BY <1>1, <1>3, <1>4

LEMMA RanksTaken ==
  ASSUME NEW S, IsFiniteSet(S), NEW R, Orders(R, S),
         NEW n \in 1..Cardinality(S)
  PROVE  \E i \in S : Rank(R, S, i) = n - 1
<1> DEFINE f == [i \in S |-> Rank(R, S, i) + 1]
           T == 1..Cardinality(S)
<1>1. Cardinality(S) \in Nat
  BY FS_CardinalityType
<1>2. IsFiniteSet(T) /\ Cardinality(T) = Cardinality(S)
  BY <1>1, FS_Interval
<1>3. f \in [S -> T]
  BY <1>1, RanksGrow
<1>4. \A i, j \in S : f[i] = f[j] => i = j
  <2> SUFFICES ASSUME NEW i \in S, NEW j \in S, i # j PROVE f[i] # f[j]
    OBVIOUS
  <2>1. <<i, j>> \in R \/ <<j, i>> \in R
    BY DEF Orders
  <2>2. /\ Rank(R, S, i) \in Nat /\ Rank(R, S, j) \in Nat
        /\ Rank(R, S, i) < Rank(R, S, j) \/ Rank(R, S, j) < Rank(R, S, i)
    BY <2>1, RanksGrow
  <2>3. f[i] = Rank(R, S, i) + 1 /\ f[j] = Rank(R, S, j) + 1
    OBVIOUS
  <2> QED
    BY ONLY <2>2, <2>3
<1> HIDE DEF f, T
<1>5. f \in Injection(S, T)
  BY <1>3, <1>4 DEF Injection, IsInjective
<1>6. f \in Surjection(S, T)
  BY <1>2, <1>5, FS_Injection
<1>7. PICK i \in S : f[i] = n
  BY <1>6 DEF Surjection, T
<1> QED
  BY <1>7, RanksGrow DEF f

(* The elements of S, each at its rank, are S in the order R.              *)
LEMMA Listed ==
  ASSUME NEW S, IsFiniteSet(S), NEW R, Orders(R, S), NEW order,
         \A n \in 1..Cardinality(S) : order[n] \in S /\ Rank(R, S, order[n]) = n - 1
  PROVE  \A m, n \in 1..Cardinality(S) : m < n => <<order[m], order[n]>> \in R
<1> SUFFICES ASSUME NEW m \in 1..Cardinality(S), NEW n \in 1..Cardinality(S), m < n
             PROVE  <<order[m], order[n]>> \in R
  OBVIOUS
<1>1. m \in Int /\ n \in Int
  BY FS_CardinalityType
<1>2. order[m] \in S /\ order[n] \in S
  OBVIOUS
<1>3. /\ Rank(R, S, order[m]) = m - 1 /\ Rank(R, S, order[n]) = n - 1
      /\ <<order[n], order[m]>> \in R => Rank(R, S, order[n]) < Rank(R, S, order[m])
  BY <1>2, RanksGrow
<1>4. order[m] # order[n] /\ <<order[n], order[m]>> \notin R
  BY ONLY <1>1, <1>3, m < n
<1> QED
  BY <1>2, <1>4 DEF Orders

(* The elements picked at some positions stay in their order.              *)
LEMMA PickedInOrder ==
  ASSUME NEW s, NEW S \in SUBSET Nat, IsFiniteSet(S)
  PROVE  \E order \in [1..Cardinality(S) -> S] :
           /\ Cardinality(S) \in Nat
           /\ \A m, n \in 1..Cardinality(S) : m < n => order[m] < order[n]
           /\ Picked(s, S) = [n \in 1..Cardinality(S) |-> s[order[n]]]
<1> DEFINE R == {x \in S \X S : x[1] < x[2]}
           order == InOrder(S, LAMBDA i, j : i < j)
<1>1. \A i, j \in S : <<i, j>> \in R <=> i < j
  OBVIOUS
<1>2. Orders(R, S)
  BY <1>1 DEF Orders
<1>3. \A i \in S : Rank(R, S, i) = Cardinality({j \in S : j < i})
  <2> TAKE i \in S
  <2>1. {j \in S : j < i} = Below(R, S, i)
    BY <1>1 DEF Below
  <2> QED
    BY <2>1 DEF Rank
<1>4. /\ order = [n \in 1..Cardinality(S) |->
                   CHOOSE i \in S : Cardinality({j \in S : j < i}) = n - 1]
      /\ Picked(s, S) = [n \in DOMAIN order |-> s[order[n]]]
  BY DEF Picked, InOrder
<1> HIDE DEF R, order
<1>5. \A n \in 1..Cardinality(S) : order[n] \in S /\ Rank(R, S, order[n]) = n - 1
  <2> TAKE n \in 1..Cardinality(S)
  <2>1. \E i \in S : Rank(R, S, i) = n - 1
    BY <1>2, RanksTaken
  <2> QED
    BY ONLY <1>3, <1>4, <2>1, n \in 1..Cardinality(S)
<1>6. \A m, n \in 1..Cardinality(S) : m < n => order[m] < order[n]
  BY <1>1, <1>2, <1>5, Listed
<1>7. order \in [1..Cardinality(S) -> S] /\ Cardinality(S) \in Nat
  BY <1>4, <1>5, FS_CardinalityType
<1> QED
  BY <1>4, <1>6, <1>7

-----------------------------------------------------------------------------
(* A diagnosis has the fields of its schema.                               *)
Shaped(d) ==
  \E R, S : d \in [abstained : BOOLEAN, reason : R, hyps : Seq(S)]

(* Only an abstention carries one of the loop's own reasons.               *)
Sound(d) ==
  Valid(d) /\ Shaped(d) /\ (d.reason \in FallbackReasons => d.abstained)

(* What a check makes of d is a diagnosis again, with fewer hypotheses.     *)
Reduced(r, d) ==
  /\ Sound(r)
  /\ d.abstained => r = d
  /\ IsThinned(r.hyps, d.hyps)
  /\ r.reason \in FallbackReasons => r = d

(* Taking away is transitive.                                               *)
LEMMA ThinnedSelf == ASSUME NEW S, NEW s \in Seq(S) PROVE IsThinned(s, s)
<1> DEFINE order == [n \in DOMAIN s |-> n]
<1>1. /\ order \in [DOMAIN s -> DOMAIN s]
      /\ \A m, n \in DOMAIN s : m < n => order[m] < order[n]
      /\ \A n \in DOMAIN s : s[n] = s[order[n]]
  OBVIOUS
<1> QED
  BY <1>1 DEF IsThinned

LEMMA NoPositions == DOMAIN <<>> = {}
OBVIOUS

LEMMA ThinnedEmpty == ASSUME NEW s PROVE IsThinned(<<>>, s)
<1> DEFINE order == [n \in {} |-> n]
<1>1. DOMAIN <<>> = {} /\ order \in [{} -> DOMAIN s]
  OBVIOUS
<1> QED
  BY <1>1 DEF IsThinned

LEMMA ThinnedAgain ==
  ASSUME NEW t, NEW u, NEW S, NEW s \in Seq(S), IsThinned(t, u), IsThinned(u, s)
  PROVE  IsThinned(t, s)
<1>1. PICK f \in [DOMAIN t -> DOMAIN u] :
        /\ \A m, n \in DOMAIN t : m < n => f[m] < f[n]
        /\ \A n \in DOMAIN t : t[n] = u[f[n]]
  BY DEF IsThinned
<1>2. PICK g \in [DOMAIN u -> DOMAIN s] :
        /\ \A m, n \in DOMAIN u : m < n => g[m] < g[n]
        /\ \A n \in DOMAIN u : u[n] = s[g[n]]
  BY DEF IsThinned
<1> DEFINE order == [n \in DOMAIN t |-> g[f[n]]]
<1>3. /\ order \in [DOMAIN t -> DOMAIN s]
      /\ \A m, n \in DOMAIN t : m < n => order[m] < order[n]
      /\ \A n \in DOMAIN t : t[n] = s[order[n]]
  BY <1>1, <1>2
<1> QED
  BY <1>3 DEF IsThinned

(* The abstentions the code writes are diagnoses.                           *)
LEMMA AbstainSound ==
  ASSUME NEW why \in Reasons \ {""}
  PROVE  /\ Sound(Abstain(why)) /\ Abstain(why).hyps = <<>>
         /\ Abstain(why).reason = why
<1> DEFINE r == Abstain(why)
<1>1. r = [abstained |-> TRUE, reason |-> why, hyps |-> <<>>]
  BY DEF Abstain
<1> HIDE DEF r
<1>2. r.hyps = <<>> /\ r.reason = why
  BY <1>1
<1>6. r.abstained = TRUE
  BY <1>1
<1>3. r \in [abstained : BOOLEAN, reason : Reasons, hyps : Seq(Nat)]
  <2>1. <<>> \in Seq(Nat)
    BY EmptySeq
  <2>2. why \in Reasons /\ TRUE \in BOOLEAN
    OBVIOUS
  <2> QED
    BY ONLY <1>1, <2>1, <2>2
<1>4. Shaped(r)
  BY <1>3 DEF Shaped
<1>5. Valid(r)
  <2>1. DOMAIN r.hyps = {}
    BY <1>2, NoPositions
  <2>2. why # ""
    OBVIOUS
  <2> QED
    BY <1>2, <1>6, <2>1, <2>2 DEF Valid
<1> QED
  BY <1>2, <1>4, <1>5, <1>6 DEF Sound, r

LEMMA AbstainReduces ==
  ASSUME NEW d, ~ d.abstained, NEW reason \in {"verifier", "timing"}
  PROVE  Reduced(Abstain(reason), d)
<1>1. reason \notin FallbackReasons /\ reason \in Reasons \ {""}
  BY DEF FallbackReasons, Reasons
<1> QED
  BY <1>1, AbstainSound, ThinnedEmpty DEF Reduced

(* Hypotheses are left out, but not all.                                   *)
Keeping(d, kept) == [d EXCEPT !.hyps = kept, !.reason = ""]

LEMMA KeptReduces ==
  ASSUME NEW d, Sound(d), ~ d.abstained, NEW kept, NEW c \in Nat, c # 0,
         NEW order \in [1..c -> DOMAIN d.hyps],
         \A m, n \in 1..c : m < n => order[m] < order[n],
         kept = [n \in 1..c |-> d.hyps[order[n]]]
  PROVE  Reduced(Keeping(d, kept), d)
<1> DEFINE r == Keeping(d, kept)
<1>1. PICK R, S : d \in [abstained : BOOLEAN, reason : R, hyps : Seq(S)]
  BY DEF Sound, Shaped
<1>2. d.hyps \in Seq(S) /\ d.hyps \in [DOMAIN d.hyps -> S]
  BY <1>1
<1>3. kept \in Seq(S) /\ DOMAIN kept = 1..c
  BY <1>2
<1>4. r \in [abstained : BOOLEAN, reason : R \cup {""}, hyps : Seq(S)]
  BY <1>1, <1>3 DEF Keeping
<1>a. r.hyps = kept
  BY <1>1 DEF Keeping
<1>b. r.reason = "" /\ r.abstained = d.abstained
  BY <1>1 DEF Keeping
<1> HIDE DEF r
<1>5. IsThinned(r.hyps, d.hyps)
  BY <1>3, <1>a DEF IsThinned
<1>6. Valid(r)
  <2>1. \A n \in DOMAIN d.hyps : d.hyps[n] # {}
    BY DEF Sound, Valid
  <2>2. \A n \in DOMAIN r.hyps : r.hyps[n] # {}
    BY <1>3, <1>a, <2>1
  <2>3. r.hyps # <<>>
    BY <1>3, <1>a
  <2> QED
    BY <1>b, <2>2, <2>3 DEF Valid
<1>7. Sound(r) /\ r.reason \notin FallbackReasons
  <2>1. r.reason \notin FallbackReasons
    BY <1>b DEF FallbackReasons
  <2> QED
    BY <1>4, <1>6, <2>1 DEF Sound, Shaped
<1> QED
  BY <1>5, <1>7 DEF Reduced, r

(* The timing check (verify_timing).                                       *)
LEMMA TimingReduces ==
  ASSUME NEW d, Sound(d), NEW signals
  PROVE  Reduced(VerifyTiming(d, signals), d)
<1>1. PICK R, S : d \in [abstained : BOOLEAN, reason : R, hyps : Seq(S)]
  BY DEF Sound, Shaped
<1>2. CASE d.abstained
  BY <1>1, <1>2, ThinnedSelf DEF VerifyTiming, Reduced
<1>3. CASE ~ d.abstained
  <2> DEFINE K == {n \in DOMAIN d.hyps : ~ TimingObjection(d.hyps[n], signals)}
             kept == Picked(d.hyps, K)
  <2>1. K \in SUBSET Nat /\ K \subseteq DOMAIN d.hyps /\ IsFiniteSet(K)
    <3>1. DOMAIN d.hyps = 1..Len(d.hyps) /\ Len(d.hyps) \in Nat
      BY <1>1
    <3>2. IsFiniteSet(1..Len(d.hyps))
      BY <3>1, FS_Interval
    <3> QED
      BY <3>1, <3>2, FS_Subset
  <2>2. VerifyTiming(d, signals) =
          IF kept # <<>> THEN Keeping(d, kept) ELSE Abstain("timing")
    BY <1>3 DEF VerifyTiming, Keeping
  <2> HIDE DEF K
  <2>3. PICK order \in [1..Cardinality(K) -> K] :
          /\ Cardinality(K) \in Nat
          /\ \A m, n \in 1..Cardinality(K) : m < n => order[m] < order[n]
          /\ kept = [n \in 1..Cardinality(K) |-> d.hyps[order[n]]]
    BY <2>1, PickedInOrder
  <2> HIDE DEF kept
  <2>4. CASE kept # <<>>
    <3>1. Cardinality(K) # 0
      BY <2>3, <2>4
    <3>2. order \in [1..Cardinality(K) -> DOMAIN d.hyps]
      BY <2>1
    <3>3. Reduced(Keeping(d, kept), d)
      BY <1>3, <2>3, <3>1, <3>2, KeptReduces
    <3> QED
      BY <2>2, <2>4, <3>3
  <2>5. CASE kept = <<>>
    BY <1>3, <2>2, <2>5, AbstainReduces
  <2> QED
    BY <2>4, <2>5
<1> QED
  BY <1>2, <1>3

LEMMA ReducedAgain ==
  ASSUME NEW d, NEW u, NEW r, Sound(d), Reduced(u, d), Reduced(r, u)
  PROVE  Reduced(r, d)
<1>1. PICK R, S : d \in [abstained : BOOLEAN, reason : R, hyps : Seq(S)]
  BY DEF Sound, Shaped
<1>2. d.hyps \in Seq(S)
  BY <1>1
<1>3. IsThinned(r.hyps, d.hyps)
  BY <1>2, ThinnedAgain DEF Reduced
<1> QED
  BY <1>3 DEF Reduced

-----------------------------------------------------------------------------
(* The checks of a run of the service or the evaluation that did not fail.  *)
Checking ==
  \/ phase \in {"verify", "verified"}
  \/ /\ phase = "done" /\ job.caller \in {"service", "eval"}
     /\ outcome \notin {"failed", "skip", "crash"}

(* The verifier keeps positions of the draft in its order, each of a        *)
(* hypothesis with evidence that exists.                                    *)
SurvivorsInOrder ==
  /\ verdicts \in Seq(BOOLEAN) /\ survivors \in Seq(Nat)
  /\ Len(verdicts) <= Len(draft.hyps)
  /\ \A m \in 1..Len(survivors) : /\ survivors[m] \in 1..Len(verdicts)
                                  /\ Resolves(draft.hyps[survivors[m]])
  /\ \A m, n \in 1..Len(survivors) : m < n => survivors[m] < survivors[n]

IsVerified(v) ==
  Reduced(v, draft) /\ \A n \in DOMAIN v.hyps : Resolves(v.hyps[n])

(* The inductive invariant of the checks: what is verified is a reduction   *)
(* of the draft, the draft one of the diagnosis, and the files no longer    *)
(* change under the checks.                                                 *)
CheckInv ==
  /\ \E j \in Jobs : job = j[1]
  /\ phase \in {"loop", "returned"} =>
       verdicts = <<>> /\ survivors = <<>> /\ verified = <<>>
  /\ phase = "returned" => Sound(diagnosis)
  /\ Checking => Sound(diagnosis) /\ Reduced(draft, diagnosis)
  /\ phase = "verify" => ~ draft.abstained /\ verified = <<>> /\ SurvivorsInOrder
  /\ Checking => verified = <<>> \/ \E v : verified = <<v>> /\ IsVerified(v)

(* A diagnosis of the model or of a script has the fields of its schema     *)
(* (schema.py): a reply that does not parse into them is of another kind.   *)
OwnShapes ==
  \A reply \in Replies \cup UNION {Range(j[1].script) : j \in Jobs} :
    reply.kind = "diagnose" => Shaped(reply.diagnosis)

LEMMA SignalsKept ==
  ASSUME source' = source
  PROVE  Signals' = Signals /\ \A h : Resolves(h)' <=> Resolves(h)
BY DEF Signals, Resolves

LEMMA SelfReduced ==
  ASSUME NEW d, Sound(d)
  PROVE  Reduced(d, d)
<1>1. PICK R, S : d \in [abstained : BOOLEAN, reason : R, hyps : Seq(S)]
  BY DEF Sound, Shaped
<1> QED
  BY <1>1, ThinnedSelf DEF Reduced

(* The loop returns a diagnosis that is the model's or its own.             *)
LEMMA CheckOfDiagnoses ==
  ASSUME OwnWords, OwnShapes, CheckInv, Diagnoses, UNCHANGED afterVars
  PROVE  CheckInv'
<1>1. PICK reply \in Replies \cup Range(job.script) :
        /\ reply.kind = "diagnose" /\ Valid(reply.diagnosis)
        /\ diagnosis' = reply.diagnosis /\ phase' = "returned"
        /\ phase = "loop" /\ job' = job
  BY DEF Diagnoses, Answered, Ask
<1>2. PICK j \in Jobs : job = j[1]
  BY DEF CheckInv
<1>3. reply \in Replies \cup UNION {Range(i[1].script) : i \in Jobs}
  BY <1>1, <1>2
<1>4. Sound(diagnosis')
  BY <1>1, <1>3 DEF OwnWords, OwnShapes, Sound
<1> QED
  BY <1>1, <1>2, <1>4 DEF CheckInv, Checking, afterVars

LEMMA CheckOfExhausts ==
  ASSUME CheckInv, Exhausts, UNCHANGED afterVars
  PROVE  CheckInv'
<1>1. /\ diagnosis' = Abstain("exhausted") /\ phase' = "returned"
      /\ phase = "loop" /\ job' = job
  BY DEF Exhausts
<1>2. Sound(diagnosis')
  BY <1>1, AbstainSound DEF Reasons
<1> QED
  BY <1>1, <1>2 DEF CheckInv, Checking, afterVars

(* The loop goes on, or is left by an exception.                            *)
LEMMA CheckInLoop ==
  ASSUME CheckInv, UNCHANGED afterVars, job' = job,
         phase = "loop", phase' \in {"loop", "unreachable", "raised"}
  PROVE  CheckInv'
BY DEF CheckInv, Checking, afterVars

(* The files grow before the checks only.                                   *)
LEMMA CheckOfFiles ==
  ASSUME CheckInv, FilesGrow, UNCHANGED afterVars
  PROVE  CheckInv'
<1>1. /\ phase' = phase /\ job' = job /\ diagnosis' = diagnosis
      /\ phase \in {"loop", "returned"}
  BY DEF FilesGrow, LogGrows, DeployStarts, DeployEnds, Live
<1> QED
  BY <1>1 DEF CheckInv, Checking, afterVars

(* What the verifier is given.                                              *)
LEMMA CheckOfStart ==
  ASSUME CheckInv, ServiceChecks \/ EvalTimes
  PROVE  CheckInv'
<1>1. /\ phase = "returned" /\ LoopKept
      /\ UNCHANGED <<verdicts, survivors, outcome>>
  BY DEF ServiceChecks, EvalTimes, Returned
<1>2. /\ verdicts = <<>> /\ survivors = <<>> /\ verified = <<>> /\ Sound(diagnosis)
      /\ \E j \in Jobs : job = j[1]
  BY <1>1 DEF CheckInv
<1>3. PICK d : Verifies(d) /\ Reduced(d, diagnosis)
  BY <1>2, TimingReduces, SelfReduced DEF ServiceChecks, EvalTimes
<1>4. draft' = d /\ diagnosis' = diagnosis /\ job' = job /\ source' = source
  BY <1>1, <1>3 DEF Verifies, LoopKept
<1>5. Sound(d)
  BY <1>3 DEF Reduced
<1>6. CASE job.pinned /\ ~ d.abstained
  <2>1. phase' = "verify" /\ verified' = <<>>
    BY <1>2, <1>3, <1>6 DEF Verifies
  <2>2. SurvivorsInOrder'
    <3>1. verdicts' = <<>> /\ survivors' = <<>> /\ Len(draft'.hyps) \in Nat
      BY <1>1, <1>2, <1>4, <1>5 DEF Sound, Shaped
    <3> QED
      BY <3>1 DEF SurvivorsInOrder
  <2> QED
    BY <1>2, <1>3, <1>4, <1>6, <2>1, <2>2 DEF CheckInv, Checking
<1>7. CASE d.abstained
  <2>1. phase' = "verified" /\ (verified' = <<d>> \/ verified' = <<>>)
    <3>1. CASE job.pinned
      BY <1>3, <1>7, <3>1 DEF Verifies
    <3>2. CASE ~ job.pinned
      BY <1>3, <1>7, <3>2 DEF Verifies
    <3> QED
      BY <3>1, <3>2
  <2>2. IsVerified(d)'
    <3>1. d.hyps = <<>>
      BY <1>5, <1>7 DEF Sound, Valid
    <3>2. Reduced(d, draft')
      BY <1>4, <1>5, SelfReduced
    <3> QED
      BY <3>1, <3>2, NoPositions DEF IsVerified
  <2>3. Sound(diagnosis') /\ Reduced(draft', diagnosis') /\ \E j \in Jobs : job' = j[1]
    BY <1>2, <1>3, <1>4
  <2> QED
    BY ONLY <2>1, <2>2, <2>3 DEF CheckInv
<1>8. CASE ~ job.pinned
  <2>1. phase' = "verified" /\ verified' = <<>>
    BY <1>3, <1>8 DEF Verifies
  <2>2. Sound(diagnosis') /\ Reduced(draft', diagnosis') /\ \E j \in Jobs : job' = j[1]
    BY <1>2, <1>3, <1>4
  <2> QED
    BY ONLY <2>1, <2>2 DEF CheckInv
<1> QED
  BY <1>6, <1>7, <1>8

(* One hypothesis is judged.                                                *)
LEMMA CheckOfVerdict ==
  ASSUME CheckInv, VerdictUnresolved \/ VerifierAttemptFails \/ Verdict
  PROVE  CheckInv'
<1>1. /\ phase = "verify" /\ phase' = phase /\ LoopKept
      /\ Len(verdicts) < Len(draft.hyps)
      /\ UNCHANGED <<draft, verified, outcome>>
  BY DEF VerdictUnresolved, VerifierAttemptFails, Verdict, Unjudged
<1>2. /\ ~ draft.abstained /\ verified = <<>> /\ SurvivorsInOrder
      /\ Sound(diagnosis) /\ Reduced(draft, diagnosis)
      /\ \E j \in Jobs : job = j[1]
  BY <1>1 DEF CheckInv, Checking
<1>3. /\ job' = job /\ source' = source /\ diagnosis' = diagnosis
      /\ \A h : Resolves(h)' <=> Resolves(h)
  BY <1>1, SignalsKept DEF LoopKept
<1>4. Len(draft.hyps) \in Nat /\ Len(verdicts) \in Nat /\ Len(survivors) \in Nat
  BY <1>2 DEF SurvivorsInOrder, Reduced, Sound, Shaped
<1>5. ASSUME NEW b \in BOOLEAN, verdicts' = Append(verdicts, b)
      PROVE  verdicts' \in Seq(BOOLEAN) /\ Len(verdicts') = Len(verdicts) + 1
  BY <1>2, <1>5 DEF SurvivorsInOrder
<1>6. /\ \/ verdicts' = verdicts
         \/ \E b \in BOOLEAN : verdicts' = Append(verdicts, b)
      /\ \/ survivors' = survivors
         \/ /\ survivors' = Append(survivors, Len(verdicts) + 1)
            /\ Resolves(draft.hyps[Len(verdicts) + 1])
            /\ \E b \in BOOLEAN : verdicts' = Append(verdicts, b)
  BY DEF VerdictUnresolved, VerifierAttemptFails, Verdict, Hypothesis
<1>7. /\ verdicts' \in Seq(BOOLEAN) /\ Len(verdicts') \in Nat
      /\ Len(verdicts) <= Len(verdicts') /\ Len(verdicts') <= Len(draft.hyps)
  BY <1>1, <1>2, <1>4, <1>5, <1>6 DEF SurvivorsInOrder
<1>8. SurvivorsInOrder'
  <2>1. CASE survivors' = survivors
    BY <1>1, <1>2, <1>3, <1>4, <1>7, <2>1 DEF SurvivorsInOrder
  <2>2. CASE /\ survivors' = Append(survivors, Len(verdicts) + 1)
             /\ Resolves(draft.hyps[Len(verdicts) + 1])
             /\ \E b \in BOOLEAN : verdicts' = Append(verdicts, b)
    <3> DEFINE k == Len(verdicts) + 1
    <3>1. Len(verdicts') = k /\ k \in Nat
      BY <1>4, <1>5, <2>2
    <3>2. /\ survivors' \in Seq(Nat) /\ Len(survivors') = Len(survivors) + 1
          /\ \A m \in 1..Len(survivors) : survivors'[m] = survivors[m]
          /\ survivors'[Len(survivors) + 1] = k
      BY <1>2, <2>2, <3>1 DEF SurvivorsInOrder
    <3>3. \A m \in 1..Len(survivors) :
            /\ survivors[m] \in 1..Len(verdicts) /\ survivors[m] < k
            /\ survivors[m] \in 1..k
            /\ Resolves(draft.hyps[survivors[m]])
      BY <1>2, <1>4 DEF SurvivorsInOrder
    <3>4. \A m \in 1..Len(survivors') : m \in 1..Len(survivors) \/ m = Len(survivors) + 1
      BY <1>4, <3>2
    <3>5. \A m \in 1..Len(survivors') :
            survivors'[m] \in 1..k /\ Resolves(draft.hyps[survivors'[m]])
      BY <2>2, <3>1, <3>2, <3>3, <3>4
    <3>6. \A m, n \in 1..Len(survivors') : m < n => survivors'[m] < survivors'[n]
      <4> SUFFICES ASSUME NEW m \in 1..Len(survivors'), NEW n \in 1..Len(survivors'),
                          m < n
                   PROVE  survivors'[m] < survivors'[n]
        OBVIOUS
      <4>1. m \in 1..Len(survivors)
        BY <1>4, <3>2, <3>4
      <4>2. CASE n \in 1..Len(survivors)
        BY <1>2, <3>2, <4>1, <4>2 DEF SurvivorsInOrder
      <4>3. CASE n = Len(survivors) + 1
        BY <3>2, <3>3, <4>1, <4>3
      <4> QED
        BY <3>4, <4>2, <4>3
    <3> HIDE DEF k
    <3> QED
      BY <1>1, <1>3, <1>7, <3>1, <3>2, <3>5, <3>6 DEF SurvivorsInOrder
  <2> QED
    BY <1>6, <2>1, <2>2
<1> QED
  BY <1>1, <1>2, <1>3, <1>8 DEF CheckInv, Checking

(* The verified diagnosis.                                                  *)
LEMMA CheckOfResult ==
  ASSUME CheckInv, VerifyEnds
  PROVE  CheckInv'
<1>1. /\ phase = "verify" /\ phase' = "verified" /\ LoopKept
      /\ verified' = <<VerifierResult>> /\ draft' = draft
  BY DEF VerifyEnds
<1>2. /\ ~ draft.abstained /\ SurvivorsInOrder
      /\ Sound(diagnosis) /\ Reduced(draft, diagnosis)
      /\ \E j \in Jobs : job = j[1]
  BY <1>1 DEF CheckInv, Checking
<1>3. /\ job' = job /\ diagnosis' = diagnosis
      /\ \A h : Resolves(h)' <=> Resolves(h)
  BY <1>1, SignalsKept DEF LoopKept
<1>4. IsVerified(VerifierResult)
  <2>1. CASE survivors = <<>>
    <3>1. VerifierResult = Abstain("verifier")
      BY <2>1 DEF VerifierResult
    <3>2. DOMAIN Abstain("verifier").hyps = {}
      BY DEF Abstain
    <3> QED
      BY <1>2, <3>1, <3>2, AbstainReduces DEF IsVerified
  <2>2. CASE survivors # <<>>
    <3> DEFINE c == Len(survivors)
               kept == [n \in 1..c |-> draft.hyps[survivors[n]]]
    <3>1. /\ c \in Nat /\ c # 0 /\ DOMAIN survivors = 1..c
          /\ Len(verdicts) \in Nat
      BY <1>2, <2>2 DEF SurvivorsInOrder
    <3>2. PICK R, S : draft \in [abstained : BOOLEAN, reason : R, hyps : Seq(S)]
      BY <1>2 DEF Reduced, Sound, Shaped
    <3>3. DOMAIN draft.hyps = 1..Len(draft.hyps) /\ Len(draft.hyps) \in Nat
      BY <3>2
    <3>4. survivors \in [1..c -> DOMAIN draft.hyps]
      BY <1>2, <3>1, <3>3 DEF SurvivorsInOrder
    <3>5. \A m, n \in 1..c : m < n => survivors[m] < survivors[n]
      BY <1>2 DEF SurvivorsInOrder
    <3>6. VerifierResult = Keeping(draft, kept)
      BY <2>2, <3>1 DEF VerifierResult, Keeping
    <3>7. \A n \in 1..c : Resolves(kept[n])
      BY <1>2 DEF SurvivorsInOrder
    <3>8. DOMAIN kept = 1..c
      OBVIOUS
    <3>9. kept = [n \in 1..c |-> draft.hyps[survivors[n]]]
      OBVIOUS
    <3> HIDE DEF kept, c
    <3>10. Reduced(VerifierResult, draft)
      BY <1>2, <3>1, <3>4, <3>5, <3>6, <3>9, KeptReduces DEF Reduced
    <3>11. VerifierResult.hyps = kept
      BY <3>2, <3>6 DEF Keeping
    <3> QED
      BY <3>7, <3>8, <3>10, <3>11 DEF IsVerified
  <2> QED
    BY <2>1, <2>2
<1> QED
  BY <1>1, <1>2, <1>3, <1>4 DEF CheckInv, Checking, IsVerified

(* A caller that leaves the diagnoses alone.                                *)
LEMMA CheckLeftAlone ==
  ASSUME CheckInv,
         UNCHANGED <<job, source, diagnosis, draft, verdicts, survivors, verified>>,
         \/ phase' = phase /\ outcome' = outcome
         \/ phase \in {"verify", "verified"} /\ phase' \in {"verified", "done"}
         \/ phase' \in {"unreachable", "raised"}
         \/ phase' = "done" /\ job.caller \notin {"service", "eval"}
         \/ phase' = "done" /\ outcome' \in {"failed", "skip", "crash"}
  PROVE  CheckInv'
<1>1. \A h : Resolves(h)' <=> Resolves(h)
  BY SignalsKept
<1>2. \A v : IsVerified(v)' <=> IsVerified(v)
  BY <1>1 DEF IsVerified
<1>3. SurvivorsInOrder' <=> SurvivorsInOrder
  BY <1>1 DEF SurvivorsInOrder
<1> QED
  BY <1>2, <1>3 DEF CheckInv, Checking

LEMMA CheckInvStep ==
  ASSUME OwnWords, OwnShapes, CheckInv, [Next]_vars
  PROVE  CheckInv'
<1>1. CASE LoopStep /\ UNCHANGED afterVars
  <2>1. CASE AttemptFails \/ CallRaises \/ BadReply \/ Unhashable \/ ToolFails \/ Observes
    BY <1>1, <2>1, CheckInLoop
       DEF AttemptFails, CallRaises, BadReply, Unhashable, ToolFails, Observes,
           TryAgain, Answered, Ask
  <2>2. CASE Diagnoses
    BY <1>1, <2>2, CheckOfDiagnoses
  <2>3. CASE Exhausts
    BY <1>1, <2>3, CheckOfExhausts
  <2> QED
    BY <1>1, <2>1, <2>2, <2>3 DEF LoopStep
<1>2. CASE FilesGrow /\ UNCHANGED afterVars
  BY <1>2, CheckOfFiles
<1>3. CASE CliWriteFails \/ CliChecks \/ BuilderGates
  BY <1>3, CheckLeftAlone DEF CliWriteFails, CliChecks, BuilderGates, Returned, Ends,
                              LoopKept
<1>4. CASE ServiceChecks \/ EvalTimes
  BY <1>4, CheckOfStart
<1>5. CASE VerdictUnresolved \/ VerifierAttemptFails \/ Verdict
  BY <1>5, CheckOfVerdict
<1>6. CASE VerifyEnds
  BY <1>6, CheckOfResult
<1>7. CASE VerifierRaises
  BY <1>7, CheckLeftAlone DEF VerifierRaises, LoopKept, Unjudged
<1>8. CASE ServiceRecords \/ EvalScores
  BY <1>8, CheckLeftAlone DEF ServiceRecords, EvalScores, Ends, LoopKept
<1>9. CASE CallerCatches \/ ServiceReadRaises
  BY <1>9, CheckLeftAlone DEF CallerCatches, ServiceReadRaises, Ends, LoopKept
<1>10. CASE RunEnded \/ UNCHANGED vars
  BY <1>10, CheckLeftAlone DEF RunEnded, vars
<1> QED
  BY <1>1, <1>2, <1>3, <1>4, <1>5, <1>6, <1>7, <1>8, <1>9, <1>10 DEF Next, AfterLoop

LEMMA CheckInvRemoves == CheckInv => VerifierOnlyRemoves
<1> SUFFICES ASSUME CheckInv, Checking, phase \in {"verified", "done"}
             PROVE  /\ Valid(Scored)
                    /\ diagnosis.abstained => Scored = diagnosis
                    /\ IsThinned(Scored.hyps, diagnosis.hyps)
                    /\ Scored.reason \in FallbackReasons => diagnosis = Scored
                    /\ verified # <<>> =>
                         \A n \in DOMAIN Scored.hyps : Resolves(Scored.hyps[n])
  BY DEF VerifierOnlyRemoves, Checking
<1>1. Sound(diagnosis) /\ Reduced(draft, diagnosis)
  BY DEF CheckInv
<1>2. CASE verified = <<>>
  BY <1>1, <1>2 DEF Scored, Reduced, Sound
<1>3. CASE \E v : verified = <<v>> /\ IsVerified(v)
  <2>1. PICK v : verified = <<v>> /\ IsVerified(v)
    BY <1>3
  <2>2. Scored = v
    BY <2>1 DEF Scored
  <2>3. Reduced(v, diagnosis)
    BY <1>1, <2>1, ReducedAgain DEF IsVerified
  <2> QED
    BY <2>1, <2>2, <2>3 DEF Reduced, Sound, IsVerified
<1> QED
  BY <1>2, <1>3 DEF CheckInv

(* The checks only take away (verifier.py, timing_verifier.py): whatever the *)
(* model and its verifier say and whatever fails, what is recorded or scored *)
(* is the model's diagnosis without some of its hypotheses, in its order,    *)
(* each of those the verifier kept with evidence that exists, or an          *)
(* abstention that no one can take for an exhausted run.                     *)
THEOREM ChecksOnlyRemove ==
  ASSUME OwnWords, OwnShapes
  PROVE  Spec => []VerifierOnlyRemoves
<1>1. Init => CheckInv
  BY DEF Init, LoopInit, CheckInv, Checking
<1>2. CheckInv /\ [Next]_vars => CheckInv'
  BY CheckInvStep
<1> QED
  BY <1>1, <1>2, CheckInvRemoves, PTL DEF Spec

-----------------------------------------------------------------------------
(* Induction over the natural numbers is here by a least counterexample.    *)
LEMMA LeastNatural ==
  ASSUME NEW T, T \subseteq Nat, T # {}
  PROVE  \E n \in T : \A m \in T : n <= m
<1>1. PICK n \in T : \A m \in T : ~ (<<m, n>> \in OpToRel(<, Nat))
  BY NatLessThanWellFounded, WFMin
<1>2. \A m \in T : ~ (m < n)
  BY <1>1 DEF OpToRel
<1> QED
  BY <1>2

LEMMA UpTo ==
  ASSUME NEW N \in Nat, NEW S, 0 \in S, \A n \in 1..N : n - 1 \in S => n \in S
  PROVE  \A n \in 0..N : n \in S
<1> DEFINE T == {n \in 0..N : n \notin S}
<1> SUFFICES ASSUME T # {} PROVE FALSE
  OBVIOUS
<1>1. PICK n \in T : \A m \in T : n <= m
  <2>1. T \subseteq Nat
    OBVIOUS
  <2> QED
    BY <2>1, LeastNatural
<1>2. n \in 0..N /\ n # 0 /\ n \notin S
  BY <1>1
<1>3. n - 1 \in 0..N /\ n - 1 \notin T /\ n \in 1..N
  BY <1>1, <1>2
<1> QED
  BY <1>2, <1>3

-----------------------------------------------------------------------------
(* The ids of a file.  A row without one gets the next id after all those   *)
(* before it, so what follows a row does not matter to it.                  *)
After(f, n) == {0} \cup {f[k] + 1 : k \in 1..n}

LEMMA MaxOfIds ==
  ASSUME NEW N \in Nat, NEW f, \A k \in 1..N : f[k] \in Int
  PROVE  /\ Max(After(f, N)) \in Int
         /\ \A k \in 1..N : Max(After(f, N)) > f[k]
<1> DEFINE P(n) == \E m \in After(f, n) : \A y \in After(f, n) : m >= y
           S == {n \in 0..N : P(n)}
<1>1. \A n \in 0..N : After(f, n) \subseteq Int
  BY DEF After
<1>2. 0 \in S
  <2>1. After(f, 0) = {0}
    BY DEF After
  <2> QED
    BY <2>1
<1>3. ASSUME NEW n \in 1..N, n - 1 \in S PROVE n \in S
  <2>1. PICK m \in After(f, n - 1) : \A y \in After(f, n - 1) : m >= y
    BY <1>3
  <2>2. After(f, n) = After(f, n - 1) \cup {f[n] + 1}
    <3>1. \A k : k \in 1..n <=> k \in 1..(n - 1) \/ k = n
      OBVIOUS
    <3> QED
      BY <3>1 DEF After
  <2>3. m \in Int /\ f[n] + 1 \in Int /\ n - 1 \in 0..N /\ n \in 0..N
        /\ After(f, n - 1) \subseteq Int
    BY <1>1, <2>1
  <2>4. P(n)
    <3>1. CASE m >= f[n] + 1
      BY <2>1, <2>2, <3>1
    <3>2. CASE ~ (m >= f[n] + 1)
      <4>1. \A y \in After(f, n - 1) : f[n] + 1 >= y
        BY <2>1, <2>3, <3>2
      <4>2. f[n] + 1 >= f[n] + 1 /\ f[n] + 1 \in After(f, n)
        BY <2>2, <2>3
      <4> QED
        BY <2>2, <4>1, <4>2
    <3> QED
      BY <3>1, <3>2
  <2> QED
    BY <2>3, <2>4
<1> HIDE DEF S
<1>4. N \in S
  BY <1>2, <1>3, UpTo
<1>5. \E m \in After(f, N) : \A y \in After(f, N) : m >= y
  BY <1>4 DEF S
<1>6. /\ Max(After(f, N)) \in After(f, N)
      /\ \A y \in After(f, N) : Max(After(f, N)) >= y
  BY <1>5 DEF Max
<1>7. \A k \in 1..N : f[k] + 1 \in After(f, N)
  BY DEF After
<1>8. Max(After(f, N)) \in Int
  BY <1>1, <1>6
<1> QED
  BY <1>6, <1>7, <1>8

(* The id of the n-th row, when f has those before it.                      *)
IdAt(f, raw, n) == IF raw[n].id # NoId THEN raw[n].id ELSE Max(After(f, n - 1))

Numbered(f, raw, N) ==
  f \in [1..N -> Int] /\ \A n \in 1..N : f[n] = IdAt(f, raw, n)

(* A row's id depends on the ids before it alone.                           *)
LEMMA IdFromBefore ==
  ASSUME NEW f, NEW g, NEW raw, NEW n \in Nat, \A k \in 1..(n - 1) : f[k] = g[k]
  PROVE  IdAt(f, raw, n) = IdAt(g, raw, n)
<1>1. After(f, n - 1) = After(g, n - 1)
  BY DEF After
<1> QED
  BY <1>1 DEF IdAt

LEMMA IdsExist ==
  ASSUME NEW N \in Nat, NEW raw, \A n \in 1..N : raw[n].id \in Int
  PROVE  \E f : Numbered(f, raw, N)
<1> DEFINE S == {n \in 0..N : \E f : Numbered(f, raw, n)}
<1>1. 0 \in S
  <2>1. Numbered([k \in 1..0 |-> 0], raw, 0)
    BY DEF Numbered
  <2> QED
    BY <2>1
<1>2. ASSUME NEW n \in 1..N, n - 1 \in S PROVE n \in S
  <2>1. PICK f : Numbered(f, raw, n - 1)
    BY <1>2
  <2> DEFINE g == [k \in 1..n |-> IF k = n THEN IdAt(f, raw, n) ELSE f[k]]
  <2>2. \A k \in 1..(n - 1) : f[k] \in Int /\ f[k] = IdAt(f, raw, k)
    BY <2>1 DEF Numbered
  <2>3. IdAt(f, raw, n) \in Int
    <3>1. n - 1 \in Nat /\ raw[n].id \in Int
      OBVIOUS
    <3>2. Max(After(f, n - 1)) \in Int
      BY <2>2, <3>1, MaxOfIds
    <3> QED
      BY <3>1, <3>2 DEF IdAt
  <2>4. \A k \in 1..n : k = n \/ k \in 1..(n - 1)
    OBVIOUS
  <2>5. /\ g[n] = IdAt(f, raw, n) /\ g \in [1..n -> Int]
        /\ \A k \in 1..(n - 1) : g[k] = f[k]
    BY <2>2, <2>3, <2>4
  <2> HIDE DEF g
  <2>6. \A k \in 1..n : IdAt(g, raw, k) = IdAt(f, raw, k)
    <3> TAKE k \in 1..n
    <3>1. k \in Nat /\ \A j \in 1..(k - 1) : f[j] = g[j]
      BY <2>5
    <3> QED
      BY <3>1, IdFromBefore
  <2>7. \A k \in 1..n : g[k] = IdAt(g, raw, k)
    BY <2>2, <2>4, <2>5, <2>6
  <2>8. Numbered(g, raw, n)
    BY <2>5, <2>7 DEF Numbered
  <2> QED
    BY <2>8
<1> HIDE DEF S
<1>3. N \in S
  BY <1>1, <1>2, UpTo
<1> QED
  BY <1>3 DEF S

(* The ids of a file are those of every file that goes on from it.          *)
LEMMA IdsStay ==
  ASSUME NEW N \in Nat, NEW M \in Nat, N <= M, NEW s, NEW t, NEW f, NEW g,
         Numbered(f, s, N), Numbered(g, t, M), \A n \in 1..N : t[n] = s[n]
  PROVE  \A n \in 1..N : g[n] = f[n]
<1> DEFINE S == {n \in 0..N : \A k \in 1..n : g[k] = f[k]}
<1>1. 0 \in S
  OBVIOUS
<1>2. ASSUME NEW n \in 1..N, n - 1 \in S PROVE n \in S
  <2>1. \A k \in 1..(n - 1) : f[k] = g[k]
    BY <1>2
  <2>2. n \in Nat /\ n \in 1..M /\ t[n] = s[n]
    OBVIOUS
  <2>3. IdAt(f, s, n) = IdAt(g, s, n)
    BY <2>1, <2>2, IdFromBefore
  <2>4. IdAt(g, s, n) = IdAt(g, t, n)
    BY <2>2 DEF IdAt
  <2>5. f[n] = g[n]
    BY <2>2, <2>3, <2>4 DEF Numbered
  <2>6. \A k \in 1..n : k = n \/ k \in 1..(n - 1)
    OBVIOUS
  <2> QED
    BY <2>1, <2>5, <2>6
<1> HIDE DEF S
<1>3. N \in S
  BY <1>1, <1>2, UpTo
<1> QED
  BY <1>3 DEF S

LEMMA AssignedAreNumbered ==
  ASSUME NEW N \in Nat, NEW raw, DOMAIN raw = 1..N, \A n \in 1..N : raw[n].id \in Int
  PROVE  Numbered(AssignedIds(raw), raw, N)
<1> DEFINE Step(f) == [n \in DOMAIN raw |->
                         IF raw[n].id # NoId THEN raw[n].id
                         ELSE Max({0} \cup {f[k] + 1 : k \in 1..(n - 1)})]
           ids == CHOOSE f : f = Step(f)
<1>1. PICK f : Numbered(f, raw, N)
  BY IdsExist
<1>2. f = Step(f)
  BY <1>1 DEF Numbered, IdAt, After
<1>3. ids = Step(ids)
  BY <1>2
<1>4. AssignedIds(raw) = ids
  BY DEF AssignedIds
<1> HIDE DEF ids
<1>5. \A n \in 1..N : ids[n] = IdAt(ids, raw, n)
  BY <1>3 DEF IdAt, After
<1>6. ids = [n \in 1..N |-> ids[n]]
  BY <1>3
<1> DEFINE S == {n \in 0..N : \A k \in 1..n : ids[k] \in Int}
<1>7. 0 \in S
  OBVIOUS
<1>8. ASSUME NEW n \in 1..N, n - 1 \in S PROVE n \in S
  <2>1. n - 1 \in Nat /\ raw[n].id \in Int /\ \A k \in 1..(n - 1) : ids[k] \in Int
    BY <1>8
  <2>2. Max(After(ids, n - 1)) \in Int
    BY <2>1, MaxOfIds
  <2>3. ids[n] \in Int
    BY <1>5, <2>1, <2>2 DEF IdAt
  <2>4. \A k \in 1..n : k = n \/ k \in 1..(n - 1)
    OBVIOUS
  <2> QED
    BY <2>1, <2>3, <2>4
<1> HIDE DEF S
<1>9. N \in S
  BY ONLY N \in Nat, <1>7, <1>8, UpTo
<1>10. \A k \in 1..N : ids[k] \in Int
  BY <1>9 DEF S
<1> QED
  BY <1>4, <1>5, <1>6, <1>10 DEF Numbered

-----------------------------------------------------------------------------
(* The rows of a source.                                                    *)
IsList(s) == s \in Seq(Range(s))

LogRow(r) ==
  /\ {"id", "ts"} \subseteq DOMAIN r /\ "metric" \notin DOMAIN r
  /\ r.id \in Int /\ r.ts \in Int

LogFile(s) == IsList(s) /\ \A n \in DOMAIN s : LogRow(s[n])

LEMMA IdGiven ==
  ASSUME NEW r, LogRow(r), NEW i \in Int
  PROVE  /\ LogRow([r EXCEPT !.id = i]) /\ [r EXCEPT !.id = i].id = i
         /\ HandleOf([r EXCEPT !.id = i]) = <<"log", i>>
<1> DEFINE q == [r EXCEPT !.id = i]
<1>1. /\ DOMAIN q = DOMAIN r /\ q.id = i /\ q.ts = r.ts
  BY DEF LogRow
<1> HIDE DEF q
<1>2. LogRow(q) /\ q.id = i /\ HandleOf(q) = <<"log", i>>
  BY <1>1 DEF LogRow, HandleOf
<1> QED
  BY <1>2 DEF q

LEMMA ListPlaces ==
  ASSUME NEW s, IsList(s)
  PROVE  Len(s) \in Nat /\ DOMAIN s = 1..Len(s)
BY DEF IsList

LEMMA ListAppended ==
  ASSUME NEW s, IsList(s), NEW x
  PROVE  /\ IsList(Append(s, x)) /\ Len(Append(s, x)) = Len(s) + 1
         /\ \A n \in 1..Len(s) : Append(s, x)[n] = s[n]
         /\ Append(s, x)[Len(s) + 1] = x
<1>1. s \in Seq(Range(s) \cup {x}) /\ x \in Range(s) \cup {x}
  BY DEF IsList
<1>2. /\ Append(s, x) \in Seq(Range(s) \cup {x})
      /\ Len(Append(s, x)) = Len(s) + 1
      /\ \A n \in 1..Len(s) : Append(s, x)[n] = s[n]
      /\ Append(s, x)[Len(s) + 1] = x
  BY <1>1
<1>3. \A t : t \in Seq(Range(s) \cup {x}) => t \in Seq(Range(t))
  <2> TAKE t
  <2> HAVE t \in Seq(Range(s) \cup {x})
  <2>1. Len(t) \in Nat /\ t \in [1..Len(t) -> Range(t)]
    BY DEF Range
  <2> QED
    BY <2>1
<1> QED
  BY <1>2, <1>3 DEF IsList

LEMMA NormalizedFile ==
  ASSUME NEW raw, LogFile(raw)
  PROVE  /\ Len(raw) \in Nat /\ Numbered(AssignedIds(raw), raw, Len(raw))
         /\ DOMAIN raw = 1..Len(raw) /\ DOMAIN NormalizeLogRows(raw) = 1..Len(raw)
         /\ \A n \in 1..Len(raw) :
              /\ NormalizeLogRows(raw)[n] = [raw[n] EXCEPT !.id = AssignedIds(raw)[n]]
              /\ LogRow(NormalizeLogRows(raw)[n])
              /\ NormalizeLogRows(raw)[n].id = AssignedIds(raw)[n]
<1>1. Len(raw) \in Nat /\ DOMAIN raw = 1..Len(raw)
  BY ListPlaces DEF LogFile
<1>2. \A n \in 1..Len(raw) : LogRow(raw[n]) /\ raw[n].id \in Int
  BY <1>1 DEF LogFile, LogRow
<1>3. Numbered(AssignedIds(raw), raw, Len(raw))
  BY <1>1, <1>2, AssignedAreNumbered
<1>4. \A n \in 1..Len(raw) : AssignedIds(raw)[n] \in Int
  BY <1>3 DEF Numbered
<1>5. /\ DOMAIN NormalizeLogRows(raw) = 1..Len(raw)
      /\ \A n \in 1..Len(raw) :
           NormalizeLogRows(raw)[n] = [raw[n] EXCEPT !.id = AssignedIds(raw)[n]]
  BY <1>1 DEF NormalizeLogRows
<1>6. \A n \in 1..Len(raw) : /\ LogRow(NormalizeLogRows(raw)[n])
                             /\ NormalizeLogRows(raw)[n].id = AssignedIds(raw)[n]
  BY <1>2, <1>4, <1>5, IdGiven
<1> QED
  BY <1>1, <1>3, <1>5, <1>6

(* Rows stay what they were when a file goes on.                            *)
LEMMA NormalizedGrows ==
  ASSUME NEW raw, LogFile(raw), NEW x, LogRow(x)
  PROVE  /\ LogFile(Append(raw, x)) /\ Len(Append(raw, x)) = Len(raw) + 1
         /\ \A n \in 1..Len(raw) :
              NormalizeLogRows(Append(raw, x))[n] = NormalizeLogRows(raw)[n]
<1> DEFINE more == Append(raw, x)
           N == Len(raw)
<1>1. /\ N \in Nat /\ DOMAIN raw = 1..N
      /\ IsList(more) /\ Len(more) = N + 1 /\ DOMAIN more = 1..(N + 1)
      /\ \A n \in 1..N : more[n] = raw[n]
      /\ more[N + 1] = x
  <2>1. IsList(raw)
    BY DEF LogFile
  <2>2. /\ IsList(more) /\ Len(more) = N + 1 /\ more[N + 1] = x
        /\ \A n \in 1..N : more[n] = raw[n]
    BY <2>1, ListAppended
  <2>3. N \in Nat /\ DOMAIN raw = 1..N /\ DOMAIN more = 1..(N + 1)
    BY <2>1, <2>2, ListPlaces
  <2> QED
    BY <2>2, <2>3
<1> HIDE DEF more, N
<1>2. LogFile(more)
  <2>1. \A n \in 1..(N + 1) : n = N + 1 \/ n \in 1..N
    BY <1>1
  <2> QED
    BY <1>1, <2>1 DEF LogFile
<1>3. /\ Numbered(AssignedIds(raw), raw, N) /\ Numbered(AssignedIds(more), more, N + 1)
  BY <1>1, <1>2, NormalizedFile DEF N
<1>4. \A n \in 1..N : AssignedIds(more)[n] = AssignedIds(raw)[n]
  <2>1. N + 1 \in Nat /\ N <= N + 1
    BY <1>1
  <2> QED
    BY <1>1, <1>3, <2>1, IdsStay
<1>5. \A n \in 1..N : NormalizeLogRows(more)[n] = NormalizeLogRows(raw)[n]
  <2> TAKE n \in 1..N
  <2>1. n \in 1..(N + 1)
    BY <1>1
  <2>2. NormalizeLogRows(raw)[n] = [raw[n] EXCEPT !.id = AssignedIds(raw)[n]]
    BY NormalizedFile DEF N
  <2>3. NormalizeLogRows(more)[n] = [more[n] EXCEPT !.id = AssignedIds(more)[n]]
    BY <1>1, <1>2, <2>1, NormalizedFile
  <2> QED
    BY <1>1, <1>4, <2>2, <2>3
<1> QED
  BY <1>1, <1>2, <1>5 DEF more, N

(* Where the rows without an id come last, and the others differ, so do all *)
(* the ids that are given out.                                              *)
LEMMA IdsDiffer ==
  ASSUME NEW raw, LogFile(raw),
         \A n, k \in DOMAIN raw :
           n < k /\ raw[k].id # NoId => raw[n].id \notin {NoId, raw[k].id}
  PROVE  \A n, k \in 1..Len(raw) :
           NormalizeLogRows(raw)[n].id = NormalizeLogRows(raw)[k].id => n = k
<1> DEFINE ids == AssignedIds(raw)
           N == Len(raw)
<1>1. /\ N \in Nat /\ DOMAIN raw = 1..N /\ Numbered(ids, raw, N)
      /\ \A n \in 1..N : NormalizeLogRows(raw)[n].id = ids[n]
  BY NormalizedFile
<1> HIDE DEF ids, N
<1>2. ASSUME NEW n \in 1..N, NEW k \in 1..N, n < k PROVE ids[n] # ids[k]
  <2>1. CASE raw[k].id # NoId
    BY <1>1, <1>2, <2>1 DEF Numbered, IdAt
  <2>2. CASE raw[k].id = NoId
    <3>1. ids[k] = Max(After(ids, k - 1))
      BY <1>1, <2>2 DEF Numbered, IdAt
    <3>2. k - 1 \in Nat /\ n \in 1..(k - 1) /\ \A j \in 1..(k - 1) : ids[j] \in Int
      BY <1>1, <1>2 DEF Numbered
    <3>3. ids[k] > ids[n] /\ ids[k] \in Int /\ ids[n] \in Int
      BY <3>1, <3>2, MaxOfIds
    <3> QED
      BY <3>3
  <2> QED
    BY <2>1, <2>2
<1>3. \A n, k \in 1..N : n = k \/ n < k \/ k < n
  BY <1>1
<1> QED
  BY <1>1, <1>2, <1>3 DEF N

-----------------------------------------------------------------------------
(* The files of a directory, one after the other.                           *)
Flat(g, files, N) ==
  \A i \in 1..N : g[i] = IF i = 1 THEN files[i] ELSE g[i - 1] \o files[i]

LEMMA FlatRows ==
  ASSUME NEW R, NEW N \in Nat, NEW files, \A i \in 1..N : files[i] \in Seq(R),
         NEW g, Flat(g, files, N)
  PROVE  \A i \in 1..N : g[i] \in Seq(R)
<1> DEFINE S == {n \in 0..N : n > 0 => g[n] \in Seq(R)}
<1>1. 0 \in S
  OBVIOUS
<1>2. ASSUME NEW n \in 1..N, n - 1 \in S PROVE n \in S
  <2>1. CASE n = 1
    BY <2>1 DEF Flat
  <2>2. CASE n # 1
    <3>1. g[n - 1] \in Seq(R) /\ files[n] \in Seq(R) /\ g[n] = g[n - 1] \o files[n]
      <4>1. n - 1 > 0 /\ n \in 1..N
        BY <2>2
      <4>2. g[n - 1] \in Seq(R) /\ files[n] \in Seq(R)
        BY <1>2, <4>1
      <4>3. g[n] = IF n = 1 THEN files[n] ELSE g[n - 1] \o files[n]
        BY <4>1 DEF Flat
      <4> QED
        BY <2>2, <4>2, <4>3
    <3>2. g[n] \in Seq(R)
      BY <3>1
    <3> QED
      BY <3>2
  <2> QED
    BY <2>1, <2>2
<1> HIDE DEF S
<1>3. \A n \in 0..N : n \in S
  BY ONLY N \in Nat, <1>1, <1>2, UpTo
<1> QED
  BY <1>3 DEF S

LEMMA FlatExists ==
  ASSUME NEW N \in Nat, NEW files
  PROVE  \E g : g = [i \in 1..N |-> g[i]] /\ Flat(g, files, N)
<1> DEFINE S == {n \in 0..N : \E g : g = [i \in 1..n |-> g[i]] /\ Flat(g, files, n)}
<1>1. 0 \in S
  <2> DEFINE none == [i \in 1..0 |-> 0]
  <2>1. none = [i \in 1..0 |-> none[i]]
    OBVIOUS
  <2> HIDE DEF none
  <2>2. Flat(none, files, 0)
    BY DEF Flat
  <2>3. \E g : g = [i \in 1..0 |-> g[i]] /\ Flat(g, files, 0)
    BY <2>1, <2>2, Zenon
  <2>4. 0 \in 0..N
    OBVIOUS
  <2> QED
    BY <2>3, <2>4
<1>2. ASSUME NEW n \in 1..N, n - 1 \in S PROVE n \in S
  <2>1. PICK g : Flat(g, files, n - 1)
    BY <1>2
  <2> DEFINE v == IF n = 1 THEN files[n] ELSE g[n - 1] \o files[n]
             h == [i \in 1..n |-> IF i = n THEN v ELSE g[i]]
  <2>2. /\ h = [i \in 1..n |-> h[i]] /\ h[n] = v
        /\ \A i \in 1..n : i # n => h[i] = g[i]
    OBVIOUS
  <2> HIDE DEF h
  <2>3. ASSUME NEW i \in 1..n
        PROVE  h[i] = IF i = 1 THEN files[i] ELSE h[i - 1] \o files[i]
    <3>1. i # 1 => i - 1 \in 1..n /\ i - 1 # n
      OBVIOUS
    <3>2. i # 1 => h[i - 1] = g[i - 1]
      BY <2>2, <3>1
    <3>3. CASE i = n
      BY <2>2, <3>2, <3>3
    <3>4. CASE i # n
      <4>1. i \in 1..(n - 1)
        BY <3>4
      <4>2. g[i] = IF i = 1 THEN files[i] ELSE g[i - 1] \o files[i]
        BY <2>1, <4>1 DEF Flat
      <4> QED
        BY <2>2, <3>2, <3>4, <4>2
    <3> QED
      BY <3>3, <3>4
  <2>4. Flat(h, files, n)
    BY <2>3 DEF Flat
  <2> QED
    BY <2>2, <2>4
<1> HIDE DEF S
<1>3. N \in S
  BY ONLY N \in Nat, <1>1, <1>2, UpTo
<1> QED
  BY <1>3 DEF S

LEMMA FlattenIs ==
  ASSUME NEW files, Len(files) \in Nat, Len(files) # 0
  PROVE  \E g : Flat(g, files, Len(files)) /\ FlattenSeq(files) = g[Len(files)]
<1> DEFINE N == Len(files)
           Step(g) == [i \in 1..N |-> IF i = 1 THEN files[i] ELSE g[i - 1] \o files[i]]
           flatten == CHOOSE g : g = Step(g)
<1>1. PICK g : g = [i \in 1..N |-> g[i]] /\ Flat(g, files, N)
  BY FlatExists
<1>2. g = Step(g)
  <2>1. \A i \in 1..N : g[i] = Step(g)[i]
    BY <1>1 DEF Flat
  <2> HIDE DEF N
  <2>2. Step(g) = [i \in 1..N |-> Step(g)[i]]
    OBVIOUS
  <2> HIDE DEF Step
  <2> QED
    BY <1>1, <2>1, <2>2
<1>3. flatten = Step(flatten)
  BY <1>2
<1>4. FlattenSeq(files) = flatten[N]
  BY DEF FlattenSeq
<1> HIDE DEF flatten
<1>5. Flat(flatten, files, N)
  BY <1>3 DEF Flat
<1> QED
  BY <1>4, <1>5

(* More rows in the files are more rows of the directory.                   *)
LEMMA FlatLonger ==
  ASSUME NEW R, NEW N \in Nat, NEW s, NEW t, NEW g, NEW h,
         \A i \in 1..N : s[i] \in Seq(R) /\ t[i] \in Seq(R) /\ Len(s[i]) <= Len(t[i]),
         Flat(g, s, N), Flat(h, t, N)
  PROVE  \A i \in 1..N : Len(g[i]) <= Len(h[i])
<1>1. \A i \in 1..N : g[i] \in Seq(R) /\ h[i] \in Seq(R)
  BY FlatRows
<1> DEFINE S == {n \in 0..N : n > 0 => Len(g[n]) <= Len(h[n])}
<1>2. 0 \in S
  OBVIOUS
<1>3. ASSUME NEW n \in 1..N, n - 1 \in S PROVE n \in S
  <2>1. CASE n = 1
    BY <2>1 DEF Flat
  <2>2. CASE n # 1
    <3>1. n - 1 \in 1..N
      BY <2>2
    <3>2. /\ Len(g[n - 1]) <= Len(h[n - 1]) /\ Len(s[n]) <= Len(t[n])
          /\ g[n] = g[n - 1] \o s[n] /\ h[n] = h[n - 1] \o t[n]
          /\ s[n] \in Seq(R) /\ t[n] \in Seq(R)
          /\ g[n - 1] \in Seq(R) /\ h[n - 1] \in Seq(R)
      <4>1. n - 1 > 0 /\ n \in 1..N
        BY <2>2
      <4>2. Len(g[n - 1]) <= Len(h[n - 1])
        BY <1>3, <4>1
      <4>3. /\ g[n] = IF n = 1 THEN s[n] ELSE g[n - 1] \o s[n]
            /\ h[n] = IF n = 1 THEN t[n] ELSE h[n - 1] \o t[n]
        BY <4>1 DEF Flat
      <4>4. /\ s[n] \in Seq(R) /\ t[n] \in Seq(R) /\ Len(s[n]) <= Len(t[n])
            /\ g[n - 1] \in Seq(R) /\ h[n - 1] \in Seq(R)
        BY <1>1, <3>1, <4>1
      <4> QED
        BY <2>2, <4>2, <4>3, <4>4
    <3>3. /\ Len(g[n]) = Len(g[n - 1]) + Len(s[n])
          /\ Len(h[n]) = Len(h[n - 1]) + Len(t[n])
          /\ Len(g[n - 1]) \in Nat /\ Len(h[n - 1]) \in Nat
          /\ Len(s[n]) \in Nat /\ Len(t[n]) \in Nat
      BY ONLY <3>2
    <3>4. \A a, b, c, d \in Nat : a <= b /\ c <= d => a + c <= b + d
      OBVIOUS
    <3>5. Len(g[n]) <= Len(h[n])
      BY ONLY <3>2, <3>3, <3>4
    <3> QED
      BY <3>5
  <2> QED
    BY <2>1, <2>2
<1> HIDE DEF S
<1>4. \A n \in 0..N : n \in S
  BY ONLY N \in Nat, <1>2, <1>3, UpTo
<1> QED
  BY <1>4 DEF S

-----------------------------------------------------------------------------
(* Rows in the order of time are rows of the source, one at each place.     *)
LEMMA KeysOrder ==
  ASSUME NEW S \in SUBSET Nat, NEW key, \A i \in S : key[i] \in Int, NEW R,
         \A i, j \in S : <<i, j>> \in R <=>
                           key[i] < key[j] \/ (key[i] = key[j] /\ i < j)
  PROVE  Orders(R, S)
<1>1. \A i \in S : i \in Nat
  OBVIOUS
<1>2. \A i \in S : <<i, i>> \notin R
  BY <1>1
<1>3. \A i, j \in S : i # j => <<i, j>> \in R \/ <<j, i>> \in R
  <2> TAKE i, j \in S
  <2>1. /\ key[i] \in Int /\ key[j] \in Int /\ i \in Nat /\ j \in Nat
    BY <1>1
  <2>2. /\ <<i, j>> \in R <=> key[i] < key[j] \/ (key[i] = key[j] /\ i < j)
        /\ <<j, i>> \in R <=> key[j] < key[i] \/ (key[j] = key[i] /\ j < i)
    OBVIOUS
  <2> QED
    BY ONLY <2>1, <2>2
<1>4. \A i, j, k \in S : <<i, j>> \in R /\ <<j, k>> \in R => <<i, k>> \in R
  <2> TAKE i, j, k \in S
  <2>1. /\ key[i] \in Int /\ key[j] \in Int /\ key[k] \in Int
        /\ i \in Nat /\ j \in Nat /\ k \in Nat
    BY <1>1
  <2> QED
    BY <2>1
<1> QED
  BY <1>2, <1>3, <1>4 DEF Orders

LEMMA SortedRows ==
  ASSUME NEW s, NEW S \in SUBSET Nat, IsFiniteSet(S), \A i \in S : s[i].ts \in Int,
         NEW sign \in {1, -1}
  PROVE  /\ Cardinality(S) \in Nat
         /\ DOMAIN Sorted(s, S, sign) = 1..Cardinality(S)
         /\ \A n \in 1..Cardinality(S) : \E i \in S : Sorted(s, S, sign)[n] = s[i]
<1> DEFINE key == [i \in S |-> sign * s[i].ts]
           Before(i, j) == \/ sign * s[i].ts < sign * s[j].ts
                           \/ s[i].ts = s[j].ts /\ i < j
           R == {x \in S \X S : Before(x[1], x[2])}
           order == InOrder(S, LAMBDA i, j : \/ sign * s[i].ts < sign * s[j].ts
                                             \/ s[i].ts = s[j].ts /\ i < j)
<1>1. \A i \in S : key[i] \in Int /\ key[i] = sign * s[i].ts
  <2> TAKE i \in S
  <2>1. s[i].ts \in Int
    OBVIOUS
  <2> QED
    BY <2>1
<1>2. \A i, j \in S : key[i] = key[j] <=> s[i].ts = s[j].ts
  <2> TAKE i, j \in S
  <2>1. \A a, b \in Int : sign * a = sign * b <=> a = b
    OBVIOUS
  <2> QED
    BY <1>1, <2>1
<1>3. \A i, j \in S : <<i, j>> \in R <=> Before(i, j)
  OBVIOUS
<1>4. \A i, j \in S : <<i, j>> \in R <=>
                        key[i] < key[j] \/ (key[i] = key[j] /\ i < j)
  <2> TAKE i, j \in S
  <2>1. <<i, j>> \in R <=> \/ sign * s[i].ts < sign * s[j].ts
                           \/ s[i].ts = s[j].ts /\ i < j
    BY <1>3
  <2>2. /\ key[i] = sign * s[i].ts /\ key[j] = sign * s[j].ts
        /\ key[i] = key[j] <=> s[i].ts = s[j].ts
    BY <1>1, <1>2
  <2> HIDE DEF key, R
  <2> QED
    BY <2>1, <2>2
<1>5. Orders(R, S)
  <2> HIDE DEF key, R
  <2> QED
    BY <1>1, <1>4, KeysOrder
<1>6. \A i \in S : Rank(R, S, i) = Cardinality({j \in S : Before(j, i)})
  <2> TAKE i \in S
  <2>1. {j \in S : Before(j, i)} = Below(R, S, i)
    BY <1>3 DEF Below
  <2> QED
    BY <2>1 DEF Rank
<1>7. /\ order = [n \in 1..Cardinality(S) |->
                   CHOOSE i \in S : Cardinality({j \in S : Before(j, i)}) = n - 1]
      /\ Sorted(s, S, sign) = [n \in DOMAIN order |-> s[order[n]]]
  BY DEF Sorted, InOrder
<1> HIDE DEF R, order, Before, key
<1>8. \A n \in 1..Cardinality(S) : order[n] \in S
  <2> TAKE n \in 1..Cardinality(S)
  <2>1. \E i \in S : Rank(R, S, i) = n - 1
    BY <1>5, RanksTaken
  <2> QED
    BY ONLY <1>6, <1>7, <2>1, n \in 1..Cardinality(S)
<1>9. Cardinality(S) \in Nat
  BY FS_CardinalityType
<1> QED
  BY <1>7, <1>8, <1>9

-----------------------------------------------------------------------------
(* Merged and numbered from 0.                                              *)
LEMMA MergedRows ==
  ASSUME NEW raw, LogFile(raw), NEW out,
         out = LET sorted == Sorted(raw, DOMAIN raw, 1)
               IN  [n \in DOMAIN sorted |-> [sorted[n] EXCEPT !.id = n - 1]]
  PROVE  /\ Len(raw) \in Nat /\ DOMAIN out = 1..Len(raw)
         /\ \A n \in 1..Len(raw) :
              LogRow(out[n]) /\ HandleOf(out[n]) = <<"log", n - 1>>
<1> DEFINE sorted == Sorted(raw, DOMAIN raw, 1)
           N == Len(raw)
<1>1. N \in Nat /\ DOMAIN raw = 1..N
  BY ListPlaces DEF LogFile
<1>2. IsFiniteSet(DOMAIN raw) /\ Cardinality(DOMAIN raw) = N
  BY <1>1, FS_Interval
<1>3. \A n \in DOMAIN raw : LogRow(raw[n]) /\ raw[n].ts \in Int
  BY DEF LogFile, LogRow
<1>4. /\ DOMAIN sorted = 1..N
      /\ \A n \in 1..N : \E i \in DOMAIN raw : sorted[n] = raw[i]
  <2>1. DOMAIN raw \in SUBSET Nat /\ 1 \in {1, -1}
    BY <1>1
  <2> QED
    BY <1>2, <1>3, <2>1, SortedRows
<1>5. out = [n \in DOMAIN sorted |-> [sorted[n] EXCEPT !.id = n - 1]]
  OBVIOUS
<1> HIDE DEF sorted, N
<1>6. ASSUME NEW n \in 1..N
      PROVE  LogRow(out[n]) /\ HandleOf(out[n]) = <<"log", n - 1>>
  <2>1. LogRow(sorted[n]) /\ n - 1 \in Int /\ out[n] = [sorted[n] EXCEPT !.id = n - 1]
    BY <1>1, <1>3, <1>4, <1>5
  <2> QED
    BY <2>1, IdGiven
<1> QED
  BY <1>1, <1>4, <1>5, <1>6 DEF N

-----------------------------------------------------------------------------
(* What a source holds: the reader of logs gets files of rows, with a       *)
(* commit and a metric being no log row.                                    *)
CommitRow(c) == c.ts \in Int /\ "level" \notin DOMAIN c

MetricRow(m) == {"level", "id"} \cap DOMAIN m = {} /\ "metric" \in DOMAIN m

SourceShaped(src) ==
  /\ {"directory", "files", "numbered", "commits", "metrics", "torn", "deploys"}
       \subseteq DOMAIN src
  /\ IsList(src.files) /\ \A f \in DOMAIN src.files : LogFile(src.files[f])
  /\ ~ src.directory => src.files # <<>>
  /\ IsList(src.commits) /\ \A n \in DOMAIN src.commits : CommitRow(src.commits[n])
  /\ IsList(src.metrics) /\ \A n \in DOMAIN src.metrics : MetricRow(src.metrics[n])
  /\ IsList(src.deploys) /\ \A n \in DOMAIN src.deploys : CommitRow(src.deploys[n])
  /\ src.torn => src.deploys # <<>>

LEMMA SeqIsList == ASSUME NEW R, NEW s \in Seq(R) PROVE IsList(s)
<1>1. Len(s) \in Nat /\ s \in [1..Len(s) -> Range(s)]
  BY DEF Range
<1> QED
  BY <1>1 DEF IsList

(* All rows of the files, and the files as lists of them.                   *)
LEMMA FilesOfRows ==
  ASSUME NEW files, IsList(files), \A f \in DOMAIN files : LogFile(files[f])
  PROVE  \E R : /\ \A r \in R : LogRow(r)
                /\ \A f \in DOMAIN files : files[f] \in Seq(R)
<1> DEFINE R == UNION {Range(files[f]) : f \in DOMAIN files}
<1>1. \A f \in DOMAIN files : files[f] \in Seq(Range(files[f])) /\ Range(files[f]) \subseteq R
  BY DEF LogFile, IsList
<1>2. \A r \in R : LogRow(r)
  BY DEF LogFile, Range
<1> HIDE DEF R
<1>3. \A f \in DOMAIN files : files[f] \in Seq(R)
  <2> TAKE f \in DOMAIN files
  <2>1. files[f] \in Seq(Range(files[f])) /\ Range(files[f]) \subseteq R
    BY <1>1
  <2> QED
    BY <2>1
<1> QED
  BY <1>2, <1>3

LEMMA FlattenedFile ==
  ASSUME NEW files, IsList(files), \A f \in DOMAIN files : LogFile(files[f])
  PROVE  LogFile(FlattenSeq(files))
<1>1. Len(files) \in Nat /\ DOMAIN files = 1..Len(files)
  BY ListPlaces
<1>2. CASE Len(files) = 0
  <2>1. FlattenSeq(files) = files
    BY <1>2 DEF FlattenSeq
  <2>2. DOMAIN files = {}
    BY <1>1, <1>2
  <2> QED
    BY <2>1, <2>2 DEF LogFile
<1>3. CASE Len(files) # 0
  <2>1. PICK R : /\ \A r \in R : LogRow(r)
                 /\ \A f \in DOMAIN files : files[f] \in Seq(R)
    BY FilesOfRows
  <2>2. PICK g : Flat(g, files, Len(files)) /\ FlattenSeq(files) = g[Len(files)]
    BY <1>1, <1>3, FlattenIs
  <2>3. FlattenSeq(files) \in Seq(R)
    <3>1. \A i \in 1..Len(files) : g[i] \in Seq(R)
      BY <1>1, <2>1, <2>2, FlatRows
    <3>2. Len(files) \in 1..Len(files)
      BY <1>1, <1>3
    <3> QED
      BY <2>2, <3>1, <3>2
  <2>4. \A n \in DOMAIN FlattenSeq(files) : FlattenSeq(files)[n] \in R
    BY <2>3
  <2> QED
    BY <2>1, <2>3, <2>4, SeqIsList DEF LogFile
<1> QED
  BY <1>2, <1>3

(* A row more in one of the files.                                          *)
LEMMA FileGrows ==
  ASSUME NEW files, IsList(files), \A f \in DOMAIN files : LogFile(files[f]),
         NEW f \in DOMAIN files, NEW x, LogRow(x), NEW more,
         more = [files EXCEPT ![f] = Append(files[f], x)]
  PROVE  /\ IsList(more) /\ DOMAIN more = DOMAIN files
         /\ \A i \in DOMAIN files : /\ LogFile(more[i]) /\ Len(files[i]) <= Len(more[i])
                                    /\ i # f => more[i] = files[i]
         /\ more[f] = Append(files[f], x)
<1>1. Len(files) \in Nat /\ DOMAIN files = 1..Len(files)
  BY ListPlaces
<1>2. /\ DOMAIN more = DOMAIN files /\ more[f] = Append(files[f], x)
      /\ \A i \in DOMAIN files : i # f => more[i] = files[i]
  BY DEF IsList
<1>3. IsList(more)
  <2>1. more \in [1..Len(files) -> Range(more)]
    <3>1. more = [i \in DOMAIN files |-> more[i]]
      OBVIOUS
    <3>2. \A i \in DOMAIN more : more[i] \in Range(more)
      BY DEF Range
    <3> QED
      BY <1>1, <1>2, <3>1, <3>2
  <2>2. more \in Seq(Range(more))
    <3>1. \A A : \A n \in Nat : \A t \in [1..n -> A] : t \in Seq(A)
      OBVIOUS
    <3> QED
      BY ONLY <1>1, <2>1, <3>1
  <2> QED
    BY <2>2 DEF IsList
<1>4. /\ LogFile(more[f]) /\ Len(more[f]) = Len(files[f]) + 1 /\ Len(files[f]) \in Nat
  BY <1>2, NormalizedGrows, NormalizedFile
<1>5. \A i \in DOMAIN files : LogFile(files[i]) /\ Len(files[i]) \in Nat
  BY ListPlaces DEF LogFile
<1>6. \A i \in DOMAIN files : LogFile(more[i]) /\ Len(files[i]) <= Len(more[i])
  <2> TAKE i \in DOMAIN files
  <2>1. CASE i = f
    BY <1>4, <2>1
  <2>2. CASE i # f
    BY <1>2, <1>5, <2>2
  <2> QED
    BY <2>1, <2>2
<1> QED
  BY <1>2, <1>3, <1>6

LEMMA FlattenedLonger ==
  ASSUME NEW s, NEW t, IsList(s), IsList(t), DOMAIN t = DOMAIN s,
         \A i \in DOMAIN s : LogFile(s[i]) /\ LogFile(t[i]) /\ Len(s[i]) <= Len(t[i])
  PROVE  Len(FlattenSeq(s)) <= Len(FlattenSeq(t))
<1> DEFINE N == Len(s)
<1>1. N \in Nat /\ DOMAIN s = 1..N /\ Len(t) = N
  <2>1. /\ Len(s) \in Nat /\ DOMAIN s = 1..Len(s)
        /\ Len(t) \in Nat /\ DOMAIN t = 1..Len(t)
    BY ListPlaces
  <2>2. 1..Len(s) = 1..Len(t)
    BY <2>1
  <2>3. \A n \in Nat : Cardinality(1..n) = n
    BY FS_Interval
  <2>4. Len(s) = Len(t)
    BY ONLY <2>1, <2>2, <2>3
  <2> QED
    BY <2>1, <2>4
<1> HIDE DEF N
<1>2. CASE N = 0
  <2>1. FlattenSeq(s) = s /\ FlattenSeq(t) = t
    BY <1>1, <1>2 DEF FlattenSeq, N
  <2> QED
    BY <1>1, <2>1 DEF N
<1>3. CASE N # 0
  <2>1. PICK g : Flat(g, s, N) /\ FlattenSeq(s) = g[N]
    BY <1>1, <1>3, FlattenIs DEF N
  <2>2. PICK h : Flat(h, t, N) /\ FlattenSeq(t) = h[N]
    <3>1. \E h : Flat(h, t, Len(t)) /\ FlattenSeq(t) = h[Len(t)]
      BY <1>1, <1>3, FlattenIs
    <3> QED
      BY <1>1, <3>1
  <2>3. PICK R : /\ \A i \in 1..N : s[i] \in Seq(R) /\ t[i] \in Seq(R)
    <3>1. PICK A : \A i \in 1..N : s[i] \in Seq(A)
      BY <1>1, FilesOfRows
    <3>2. PICK B : \A i \in 1..N : t[i] \in Seq(B)
      BY <1>1, FilesOfRows
    <3>3. \A i \in 1..N : s[i] \in Seq(A \cup B) /\ t[i] \in Seq(A \cup B)
      BY <3>1, <3>2
    <3> QED
      BY <3>3
  <2>4. \A i \in 1..N : Len(g[i]) <= Len(h[i])
    BY <1>1, <2>1, <2>2, <2>3, FlatLonger
  <2>5. N \in 1..N
    BY <1>1, <1>3
  <2> QED
    BY <2>1, <2>2, <2>4, <2>5
<1> QED
  BY <1>2, <1>3

-----------------------------------------------------------------------------
(* What the readers make of a source.                                       *)
LEMMA LogsRead ==
  ASSUME NEW src, SourceShaped(src)
  PROVE  \E N \in Nat : /\ DOMAIN ReadLogSource(src) = 1..N
                        /\ \A n \in 1..N : LogRow(ReadLogSource(src)[n])
<1>1. IsList(src.files) /\ \A f \in DOMAIN src.files : LogFile(src.files[f])
  BY DEF SourceShaped
<1>2. CASE ~ src.directory
  <2>1. 1 \in DOMAIN src.files
    <3>1. src.files # <<>>
      BY <1>2 DEF SourceShaped
    <3>2. Len(src.files) \in Nat /\ DOMAIN src.files = 1..Len(src.files)
      BY <1>1, ListPlaces
    <3>3. src.files \in Seq(Range(src.files))
      BY <1>1 DEF IsList
    <3> QED
      BY <3>1, <3>2, <3>3
  <2>2. LogFile(src.files[1])
    BY <1>1, <2>1
  <2>3. ReadLogSource(src) = NormalizeLogRows(src.files[1])
    BY <1>2 DEF ReadLogSource
  <2> QED
    BY <2>2, <2>3, NormalizedFile
<1>3. CASE src.directory
  <2>1. LogFile(FlattenSeq(src.files))
    BY <1>1, FlattenedFile
  <2>2. ReadLogSource(src) =
          LET sorted == Sorted(FlattenSeq(src.files), DOMAIN FlattenSeq(src.files), 1)
          IN  [n \in DOMAIN sorted |-> [sorted[n] EXCEPT !.id = n - 1]]
    BY <1>3 DEF ReadLogSource
  <2> QED
    BY <2>1, <2>2, MergedRows
<1> QED
  BY <1>2, <1>3

LEMMA HandlesOfRange ==
  ASSUME NEW s, NEW t, Range(s) \subseteq Range(t)
  PROVE  HandlesIn(s) \subseteq HandlesIn(t)
<1> SUFFICES ASSUME NEW n \in DOMAIN s PROVE \E k \in DOMAIN t : t[k] = s[n]
  BY DEF HandlesIn
<1> QED
  BY DEF Range

(* A file that grows under the agent.                                       *)
Grown(src, f, x) == [src EXCEPT !.files = [src.files EXCEPT ![f] = Append(src.files[f], x)]]

LEMMA SourceGrows ==
  ASSUME NEW src, SourceShaped(src), NEW f \in DOMAIN src.files, NEW x, LogRow(x), NEW new,
         new = Grown(src, f, x)
  PROVE  /\ SourceShaped(new)
         /\ ~ new.directory <=> ~ src.directory
         /\ ~ src.directory => Range(ReadLogSource(src)) \subseteq Range(ReadLogSource(new))
         /\ HandlesIn(ReadLogSource(src)) \subseteq HandlesIn(ReadLogSource(new))
         /\ new.commits = src.commits /\ new.metrics = src.metrics
<1> DEFINE more == [src.files EXCEPT ![f] = Append(src.files[f], x)]
<1>1. IsList(src.files) /\ \A i \in DOMAIN src.files : LogFile(src.files[i])
  BY DEF SourceShaped
<1>2. /\ IsList(more) /\ DOMAIN more = DOMAIN src.files
      /\ \A i \in DOMAIN src.files : /\ LogFile(more[i]) /\ Len(src.files[i]) <= Len(more[i])
                                     /\ i # f => more[i] = src.files[i]
      /\ more[f] = Append(src.files[f], x)
  BY <1>1, FileGrows
<1>3. /\ DOMAIN new = DOMAIN src /\ new.files = more /\ new.directory = src.directory
      /\ new.commits = src.commits /\ new.metrics = src.metrics
      /\ new.torn = src.torn /\ new.deploys = src.deploys
  BY DEF SourceShaped, Grown
<1> HIDE DEF more
<1>4. SourceShaped(new)
  <2>1. ~ src.directory => more # <<>>
    <3>1. DOMAIN more # {}
      BY <1>2
    <3>2. DOMAIN <<>> = {}
      BY NoPositions
    <3> QED
      BY <3>1, <3>2
  <2> QED
    BY <1>2, <1>3, <2>1 DEF SourceShaped
<1>5. CASE ~ src.directory
  <2>1. 1 \in DOMAIN src.files
    <3>1. Len(src.files) \in Nat /\ DOMAIN src.files = 1..Len(src.files)
      BY <1>1, ListPlaces
    <3> QED
      BY <3>1
  <2>2. /\ ReadLogSource(src) = NormalizeLogRows(src.files[1])
        /\ ReadLogSource(new) = NormalizeLogRows(more[1])
    BY <1>3, <1>5 DEF ReadLogSource
  <2>3. LogFile(src.files[1]) /\ LogFile(more[1])
    BY <1>1, <1>2, <2>1
  <2>4. CASE f # 1
    <3>1. more[1] = src.files[1]
      BY <1>2, <2>1, <2>4
    <3> QED
      BY <1>3, <1>4, <2>2, <3>1
  <2>5. CASE f = 1
    <3>1. more[1] = Append(src.files[1], x)
      BY <1>2, <2>5
    <3>2. /\ Len(more[1]) = Len(src.files[1]) + 1 /\ Len(src.files[1]) \in Nat
          /\ \A n \in 1..Len(src.files[1]) :
               NormalizeLogRows(more[1])[n] = NormalizeLogRows(src.files[1])[n]
      BY <2>3, <3>1, NormalizedGrows, NormalizedFile
    <3>3. /\ DOMAIN NormalizeLogRows(src.files[1]) = 1..Len(src.files[1])
          /\ DOMAIN NormalizeLogRows(more[1]) = 1..Len(more[1])
      BY <2>3, NormalizedFile
    <3>4. DOMAIN NormalizeLogRows(src.files[1]) \subseteq DOMAIN NormalizeLogRows(more[1])
      BY <3>2, <3>3
    <3>5. Range(ReadLogSource(src)) \subseteq Range(ReadLogSource(new))
      BY <2>2, <3>2, <3>3, <3>4 DEF Range
    <3> QED
      BY <1>3, <1>4, <3>5, HandlesOfRange
  <2> QED
    BY <2>4, <2>5
<1>6. CASE src.directory
  <2> DEFINE s == FlattenSeq(src.files)
             t == FlattenSeq(more)
             logs == ReadLogSource(src)
             after == ReadLogSource(new)
  <2>1. LogFile(s) /\ LogFile(t)
    BY <1>1, <1>2, FlattenedFile
  <2>2. Len(s) <= Len(t)
    BY <1>1, <1>2, FlattenedLonger
  <2>0. logs = LET sorted == Sorted(s, DOMAIN s, 1)
               IN  [n \in DOMAIN sorted |-> [sorted[n] EXCEPT !.id = n - 1]]
    BY <1>6 DEF ReadLogSource
  <2>3. after = LET sorted == Sorted(t, DOMAIN t, 1)
                IN  [n \in DOMAIN sorted |-> [sorted[n] EXCEPT !.id = n - 1]]
    <3>1. new.directory
      BY <1>3, <1>6
    <3>2. FlattenSeq(new.files) = t
      BY <1>3
    <3>3. after = LET sorted == Sorted(FlattenSeq(new.files), DOMAIN FlattenSeq(new.files), 1)
                  IN  [n \in DOMAIN sorted |-> [sorted[n] EXCEPT !.id = n - 1]]
      BY ONLY <3>1 DEF ReadLogSource
    <3> QED
      BY ONLY <3>2, <3>3
  <2> HIDE DEF s, t, logs, after
  <2>4. /\ Len(s) \in Nat /\ DOMAIN logs = 1..Len(s)
        /\ \A n \in 1..Len(s) : HandleOf(logs[n]) = <<"log", n - 1>>
    BY <2>1, <2>0, MergedRows
  <2>5. /\ Len(t) \in Nat /\ DOMAIN after = 1..Len(t)
        /\ \A n \in 1..Len(t) : HandleOf(after[n]) = <<"log", n - 1>>
    BY <2>1, <2>3, MergedRows
  <2>6. 1..Len(s) \subseteq 1..Len(t)
    BY <2>2, <2>4, <2>5
  <2>7. HandlesIn(logs) \subseteq HandlesIn(after)
    BY <2>4, <2>5, <2>6 DEF HandlesIn
  <2> QED
    BY <1>3, <1>4, <1>6, <2>7 DEF logs, after
<1> QED
  BY <1>5, <1>6

-----------------------------------------------------------------------------
(* What a tool shows is in the source.                                      *)
LEMMA PickedRows ==
  ASSUME NEW s, NEW N \in Nat, DOMAIN s = 1..N, NEW S \in SUBSET (1..N)
  PROVE  Picked(s, S) \in Seq(Range(s))
<1>1. S \in SUBSET Nat /\ IsFiniteSet(S)
  <2>1. IsFiniteSet(1..N)
    BY FS_Interval
  <2>2. S \subseteq 1..N /\ 1..N \subseteq Nat
    OBVIOUS
  <2>3. IsFiniteSet(S)
    BY <2>1, <2>2, FS_Subset
  <2> QED
    BY <2>2, <2>3
<1>2. PICK order \in [1..Cardinality(S) -> S] :
        /\ Cardinality(S) \in Nat
        /\ Picked(s, S) = [n \in 1..Cardinality(S) |-> s[order[n]]]
  BY <1>1, PickedInOrder
<1>3. \A n \in 1..Cardinality(S) : s[order[n]] \in Range(s)
  BY DEF Range
<1> QED
  BY <1>2, <1>3

LEMMA ElementsOf ==
  ASSUME NEW R, NEW t, t \in Seq(R)
  PROVE  \A r \in Range(t) : r \in R
<1>1. \A n \in DOMAIN t : t[n] \in R
  OBVIOUS
<1> QED
  BY <1>1 DEF Range

LEMMA LastRowsOf ==
  ASSUME NEW A, NEW rows \in Seq(A), NEW cap \in Int
  PROVE  Range(LastRows(rows, cap)) \subseteq A
<1>1. CASE cap > 0 /\ Len(rows) > cap
  <2>1. LastRows(rows, cap) = SubSeq(rows, Len(rows) - cap + 1, Len(rows))
    BY <1>1 DEF LastRows
  <2>2. SubSeq(rows, Len(rows) - cap + 1, Len(rows)) \in Seq(A)
    <3>1. Len(rows) \in Int /\ Len(rows) - cap + 1 \in Int
      OBVIOUS
    <3>2. \A i \in (Len(rows) - cap + 1)..Len(rows) : rows[i] \in A
      BY <1>1
    <3> QED
      BY <3>1, <3>2, SubSeqProperties
  <2> QED
    BY <2>1, <2>2, ElementsOf
<1>2. CASE ~ (cap > 0 /\ Len(rows) > cap)
  <2>1. LastRows(rows, cap) = rows
    BY <1>2 DEF LastRows
  <2> QED
    BY <2>1 DEF Range
<1> QED
  BY <1>1, <1>2

LEMMA CommitsShown ==
  ASSUME NEW commits, IsList(commits),
         \A n \in DOMAIN commits : CommitRow(commits[n]),
         NEW args, Given(args, "limit") => args.limit \in Int /\ args.limit >= 0
  PROVE  Range(RecentCommits(commits, args)) \subseteq Range(commits)
<1> DEFINE kept == {i \in DOMAIN commits : Given(args, "since") => commits[i].ts >= args.since}
           newest == Sorted(commits, kept, -1)
<1>1. Len(commits) \in Nat /\ DOMAIN commits = 1..Len(commits)
  BY ListPlaces
<1>2. /\ kept \in SUBSET Nat /\ IsFiniteSet(kept) /\ kept \subseteq DOMAIN commits
  <2>1. IsFiniteSet(1..Len(commits)) /\ kept \subseteq 1..Len(commits)
    BY <1>1, FS_Interval
  <2>2. IsFiniteSet(kept)
    BY <2>1, FS_Subset
  <2> QED
    BY <1>1, <2>1, <2>2
<1>3. \A i \in kept : commits[i].ts \in Int
  BY <1>2 DEF CommitRow
<1> HIDE DEF kept
<1>4. /\ Cardinality(kept) \in Nat /\ DOMAIN newest = 1..Cardinality(kept)
      /\ \A n \in 1..Cardinality(kept) : \E i \in kept : newest[n] = commits[i]
  <2>1. -1 \in {1, -1}
    OBVIOUS
  <2> QED
    BY <1>2, <1>3, <2>1, SortedRows
<1>5. newest \in Seq(Range(commits))
  <2>1. newest = [n \in DOMAIN newest |-> newest[n]]
    BY DEF Sorted
  <2>2. \A n \in DOMAIN newest : newest[n] \in Range(commits)
    BY <1>2, <1>4 DEF Range
  <2> HIDE DEF newest
  <2> QED
    BY <1>4, <2>1, <2>2
<1>6. RecentCommits(commits, args) =
        IF Given(args, "limit") /\ args.limit < Len(newest)
        THEN SubSeq(newest, 1, args.limit) ELSE newest
  BY DEF RecentCommits, kept
<1> HIDE DEF newest
<1>7. RecentCommits(commits, args) \in Seq(Range(commits))
  <2>1. CASE Given(args, "limit") /\ args.limit < Len(newest)
    <3>1. args.limit \in Int /\ args.limit >= 0 /\ args.limit < Len(newest)
      BY <2>1
    <3>2. SubSeq(newest, 1, args.limit) \in Seq(Range(commits))
      BY <1>5, <3>1
    <3> QED
      BY <1>6, <2>1, <3>2
  <2>2. CASE ~ (Given(args, "limit") /\ args.limit < Len(newest))
    BY <1>5, <1>6, <2>2
  <2> QED
    BY <2>1, <2>2
<1> QED
  BY <1>7 DEF Range

(* A trimmed series is the series it was to who cites it.                   *)
LEMMA TrimmedRow ==
  ASSUME NEW m, MetricRow(m), NEW args
  PROVE  MetricRow(Trimmed(m, args)) /\ HandleOf(Trimmed(m, args)) = HandleOf(m)
<1> DEFINE x == Trimmed(m, args)
<1>1. DOMAIN x = DOMAIN m /\ x.metric = m.metric
  <2>1. CASE Given(args, "since")
    <3>1. PICK p : x = [m EXCEPT !.points = p]
      BY <2>1 DEF Trimmed
    <3> HIDE DEF x
    <3> QED
      BY <3>1 DEF MetricRow
  <2>2. CASE ~ Given(args, "since")
    BY <2>2 DEF Trimmed
  <2> QED
    BY <2>1, <2>2
<1> HIDE DEF x
<1>2. MetricRow(x)
  BY <1>1 DEF MetricRow
<1>3. \A row : MetricRow(row) => HandleOf(row) = <<"metric", row.metric>>
  BY DEF HandleOf, MetricRow
<1>4. HandleOf(x) = <<"metric", x.metric>> /\ HandleOf(m) = <<"metric", m.metric>>
  BY <1>2, <1>3
<1> QED
  BY <1>1, <1>2, <1>4 DEF x

MayShow(src, args) ==
  Range(ReadLogSource(src)) \cup Range(src.commits)
    \cup {Trimmed(m, args) : m \in Range(src.metrics)}

LEMMA RowsShown ==
  ASSUME NEW src, SourceShaped(src), NEW tool \in ToolNames, NEW args,
         Given(args, "limit") => args.limit \in Int,
         ~ ArgumentsRaise(tool, args), NEW cap \in Int
  PROVE  Range(ToolRows(tool, args, SignalsOf(src), cap)) \subseteq MayShow(src, args)
<1> DEFINE signals == SignalsOf(src)
           rows == ToolRows(tool, args, signals, cap)
           all == MayShow(src, args)
<1> SUFFICES Range(rows) \subseteq all
  OBVIOUS
<1>1. /\ signals.logs = ReadLogSource(src) /\ signals.commits = src.commits
      /\ signals.metrics = src.metrics
  BY DEF SignalsOf
<1>2. tool \in {"query_logs", "get_recent_commits", "query_metrics"}
  BY DEF ToolNames, Parameters
<1> HIDE DEF signals
<1>a. /\ Range(ReadLogSource(src)) \subseteq all /\ Range(src.commits) \subseteq all
      /\ \A m \in Range(src.metrics) : Trimmed(m, args) \in all
  BY DEF MayShow
<1> HIDE DEF all
<1>3. CASE tool = "query_logs"
  <2>1. rows = LastRows(FilterLogRows(signals.logs, args), cap)
    BY <1>3 DEF ToolRows
  <2>2. PICK N \in Nat : DOMAIN signals.logs = 1..N
    BY <1>1, LogsRead
  <2>3. FilterLogRows(signals.logs, args) \in Seq(Range(signals.logs))
    BY <2>2, PickedRows DEF FilterLogRows
  <2>4. Range(LastRows(FilterLogRows(signals.logs, args), cap)) \subseteq Range(signals.logs)
    BY <2>3, LastRowsOf
  <2> QED
    BY <1>1, <1>a, <2>1, <2>4
<1>4. CASE tool = "get_recent_commits"
  <2>1. rows = RecentCommits(signals.commits, args)
    BY <1>4 DEF ToolRows
  <2>2. Given(args, "limit") => args.limit \in Int /\ args.limit >= 0
    BY DEF ArgumentsRaise
  <2>3. IsList(src.commits) /\ \A n \in DOMAIN src.commits : CommitRow(src.commits[n])
    BY DEF SourceShaped
  <2>4. Range(RecentCommits(src.commits, args)) \subseteq Range(src.commits)
    BY <2>2, <2>3, CommitsShown
  <2> QED
    BY <1>1, <1>a, <2>1, <2>4
<1>5. CASE tool = "query_metrics"
  <2>1. rows = FilterMetricRows(signals.metrics, args)
    BY <1>5 DEF ToolRows
  <2>2. Len(src.metrics) \in Nat /\ DOMAIN src.metrics = 1..Len(src.metrics)
    BY ListPlaces DEF SourceShaped
  <2> DEFINE S == {n \in DOMAIN src.metrics :
                     Given(args, "name") => src.metrics[n].metric = args.name}
             kept == Picked(src.metrics, S)
  <2>3. rows = [n \in DOMAIN kept |-> Trimmed(kept[n], args)]
    BY <1>1, <2>1 DEF FilterMetricRows
  <2>4. S \in SUBSET (1..Len(src.metrics))
    BY <2>2
  <2> HIDE DEF S
  <2>5. kept \in Seq(Range(src.metrics))
    BY <2>2, <2>4, PickedRows
  <2> HIDE DEF kept, rows
  <2>6. \A n \in DOMAIN kept : kept[n] \in Range(src.metrics)
    BY <2>5
  <2> QED
    BY <1>a, <2>3, <2>6 DEF Range
<1> QED
  BY <1>2, <1>3, <1>4, <1>5

-----------------------------------------------------------------------------
(* What has been shown stays on record, and in the source.                  *)

(* The log rows a transcript shows are among `logs'.                        *)
Denoted(t, logs) ==
  \A n \in TurnsOf(t, "observation") : \A r \in DOMAIN t[n].rows :
    "level" \in DOMAIN t[n].rows[r] => t[n].rows[r] \in logs

(* The inductive invariant: the rows a single file gave are in it, whatever *)
(* ids its rows have, and a check has been made only where the loop and the *)
(* files have ended.                                                        *)
SeenInv ==
  /\ \E j \in Jobs : job = j[1]
  /\ SourceShaped(source)
  /\ seen \subseteq RealHandles(Signals)
  /\ ~ source.directory => Denoted(transcript, Range(Signals.logs))
  /\ phase \in {"loop", "returned"} => fabricated = {}
  /\ fabricated \cap seen = {}

(* Jobs start with a cap and a source of rows, and rows are what is         *)
(* appended to a log (schema.py, normalize.py: readers give nothing else).  *)
OwnSources ==
  /\ \A j \in Jobs : j[1].cap \in Int /\ SourceShaped(j[2])
  /\ \A r \in NewRows : LogRow(r)

(* A call names one of the tools, an unknown one being a reply of another    *)
(* kind; a limit that is no integer makes the tool raise (filters.py 70).   *)
OwnCalls ==
  \A reply \in Replies \cup UNION {Range(j[1].script) : j \in Jobs} :
    reply.kind = "tool" =>
      /\ reply.tool \in ToolNames
      /\ Given(reply.args, "limit") => reply.args.limit \in Int

LEMMA DenotedMore ==
  ASSUME NEW t, NEW K, NEW L, Denoted(t, K), K \subseteq L
  PROVE  Denoted(t, L)
BY DEF Denoted

LEMMA DenotedAppended ==
  ASSUME NEW S, NEW t \in Seq(S), NEW turn, NEW L, Denoted(t, L),
         turn.kind = "observation" =>
           \A r \in DOMAIN turn.rows : "level" \in DOMAIN turn.rows[r] => turn.rows[r] \in L
  PROVE  Denoted(Append(t, turn), L)
<1> DEFINE u == Append(t, turn)
<1>1. /\ \A k \in 1..Len(t) : u[k] = t[k]
      /\ u[Len(t) + 1] = turn /\ DOMAIN t = 1..Len(t)
  BY TurnAppended
<1>2. TurnsOf(u, "observation") =
        IF turn.kind = "observation" THEN TurnsOf(t, "observation") \cup {Len(t) + 1}
        ELSE TurnsOf(t, "observation")
  BY TurnsAppended
<1>3. TurnsOf(t, "observation") \subseteq 1..Len(t)
  BY <1>1 DEF TurnsOf
<1> HIDE DEF u
<1>4. ASSUME NEW n \in TurnsOf(u, "observation"), NEW r \in DOMAIN u[n].rows,
             "level" \in DOMAIN u[n].rows[r]
      PROVE  u[n].rows[r] \in L
  <2>1. CASE n \in TurnsOf(t, "observation")
    <3>1. u[n] = t[n]
      BY <1>1, <1>3, <2>1
    <3> QED
      BY <1>4, <2>1, <3>1 DEF Denoted
  <2>2. CASE turn.kind = "observation" /\ n = Len(t) + 1
    <3>1. u[n] = turn
      BY <1>1, <2>2
    <3> QED
      BY <1>4, <2>2, <3>1
  <2> QED
    BY <1>2, <1>4, <2>1, <2>2
<1> QED
  BY <1>4 DEF Denoted, u

(* The hint and the reply show no rows.                                     *)
LEMMA DenotedAsked ==
  ASSUME ContractInv, NEW L, Denoted(transcript, L)
  PROVE  (\E S : Asked \in Seq(S)) /\ Denoted(Asked, L)
<1>1. PICK S : transcript \in Seq(S)
  BY DEF ContractInv, Record
<1>2. CASE Asked = transcript
  BY <1>1, <1>2
<1>3. CASE Asked = Append(transcript, Turn("hint"))
  <2>1. Turn("hint").kind # "observation"
    BY DEF Turn
  <2>2. Denoted(Append(transcript, Turn("hint")), L)
    BY <1>1, <2>1, DenotedAppended
  <2>3. Append(transcript, Turn("hint")) \in Seq(S \cup {Turn("hint")})
    BY <1>1, TurnAppended
  <2> QED
    BY <1>3, <2>2, <2>3
<1> QED
  BY <1>2, <1>3 DEF Asked

LEMMA DenotedReplied ==
  ASSUME ContractInv, NEW reply, NEW L, Denoted(transcript, L)
  PROVE  LET said == Append(Asked, AssistantTurn(reply))
         IN  (\E S : said \in Seq(S)) /\ Denoted(said, L)
<1> DEFINE turn == AssistantTurn(reply)
<1>1. PICK S : Asked \in Seq(S) /\ Denoted(Asked, L)
  BY DenotedAsked
<1>2. turn.kind # "observation"
  BY DEF AssistantTurn
<1> HIDE DEF turn
<1>3. Append(Asked, turn) \in Seq(S \cup {turn})
  BY <1>1, TurnAppended
<1>4. Denoted(Append(Asked, turn), L)
  BY <1>1, <1>2, DenotedAppended
<1> QED
  BY <1>3, <1>4 DEF turn

LEMMA DenotedAnswered ==
  ASSUME ContractInv, NEW reply, NEW L, Denoted(transcript, L), NEW turn,
         turn.kind = "observation" =>
           \A r \in DOMAIN turn.rows : "level" \in DOMAIN turn.rows[r] => turn.rows[r] \in L
  PROVE  Denoted(Asked \o <<AssistantTurn(reply), turn>>, L)
<1> DEFINE said == Append(Asked, AssistantTurn(reply))
<1>1. (\E S : said \in Seq(S)) /\ Denoted(said, L)
  BY DenotedReplied
<1>2. PICK S : Asked \in Seq(S)
  BY DenotedAsked
<1>3. Asked \o <<AssistantTurn(reply), turn>> = Append(said, turn)
  BY <1>2, TwoTurns
<1> HIDE DEF said
<1>4. Denoted(Append(said, turn), L)
  BY <1>1, DenotedAppended
<1> QED
  BY <1>3, <1>4

(* What is shown is real.                                                   *)
LEMMA RowsAreReal ==
  ASSUME NEW src, SourceShaped(src), NEW args, NEW rows,
         Range(rows) \subseteq MayShow(src, args)
  PROVE  HandlesIn(rows) \subseteq RealHandles(SignalsOf(src))
<1> DEFINE signals == SignalsOf(src)
<1> SUFFICES ASSUME NEW n \in DOMAIN rows
             PROVE  HandleOf(rows[n]) \in RealHandles(signals)
  BY DEF HandlesIn
<1>1. /\ signals.logs = ReadLogSource(src) /\ signals.commits = src.commits
      /\ signals.metrics = src.metrics
  BY DEF SignalsOf
<1> HIDE DEF signals
<1>2. rows[n] \in Range(rows)
  BY DEF Range
<1>3. PICK s, row : /\ s = signals.logs \/ s = signals.commits \/ s = signals.metrics
                    /\ row \in Range(s) /\ HandleOf(rows[n]) = HandleOf(row)
  <2>1. CASE rows[n] \in Range(src.commits) \/ rows[n] \in Range(ReadLogSource(src))
    BY <1>1, <2>1
  <2>2. CASE rows[n] \in {Trimmed(m, args) : m \in Range(src.metrics)}
    <3>1. PICK m \in Range(src.metrics) : rows[n] = Trimmed(m, args)
      BY <2>2
    <3>2. MetricRow(m)
      BY DEF SourceShaped, Range
    <3>3. HandleOf(rows[n]) = HandleOf(m)
      BY <3>1, <3>2, TrimmedRow
    <3> QED
      BY <1>1, <3>3
  <2> QED
    BY <1>2, <2>1, <2>2 DEF MayShow
<1>4. PICK k \in DOMAIN s : s[k] = row
  BY <1>3 DEF Range
<1>5. HandleOf(rows[n]) \in HandlesIn(s)
  BY <1>3, <1>4 DEF HandlesIn
<1> QED
  BY <1>3, <1>5 DEF RealHandles

LEMMA SeenOfObserves ==
  ASSUME OwnSources, OwnCalls, ContractInv, SeenInv, Observes, UNCHANGED afterVars
  PROVE  SeenInv'
<1>1. PICK reply \in Replies \cup Range(job.script) :
        /\ Answered(reply) /\ reply.kind = "tool" /\ ~ ToolRaises(reply)
        /\ LET rows == ToolRows(reply.tool, reply.args, SignalsOf(source), job.cap)
           IN  /\ transcript' = Asked \o <<AssistantTurn(reply),
                                           Observation(reply.tool, rows)>>
               /\ seen' = seen \cup HandlesIn(rows)
        /\ phase' = phase
  BY DEF Observes
<1> DEFINE rows == ToolRows(reply.tool, reply.args, SignalsOf(source), job.cap)
           turn == Observation(reply.tool, rows)
<1>2. /\ phase = "loop" /\ phase' = "loop" /\ job' = job /\ source' = source
      /\ Signals' = Signals /\ Signals = SignalsOf(source)
      /\ fabricated' = fabricated
      /\ transcript' = Asked \o <<AssistantTurn(reply), turn>>
      /\ seen' = seen \cup HandlesIn(rows)
  BY <1>1 DEF Answered, Ask, Signals, afterVars
<1>3. PICK j \in Jobs : job = j[1]
  BY DEF SeenInv
<1>4. reply \in Replies \cup UNION {Range(i[1].script) : i \in Jobs}
  BY <1>1, <1>3
<1>5. /\ reply.tool \in ToolNames /\ (Given(reply.args, "limit") => reply.args.limit \in Int)
      /\ ~ ArgumentsRaise(reply.tool, reply.args) /\ job.cap \in Int
  BY <1>1, <1>3, <1>4 DEF OwnCalls, OwnSources, ToolRaises
<1>6. SourceShaped(source)
  BY DEF SeenInv
<1>7. Range(rows) \subseteq MayShow(source, reply.args)
  BY <1>5, <1>6, RowsShown
<1>8. /\ Signals.logs = ReadLogSource(source) /\ Signals.commits = source.commits
      /\ Signals.metrics = source.metrics
  BY DEF Signals, SignalsOf
<1>9. turn.kind = "observation" /\ turn.rows = rows
  BY DEF Observation
<1> HIDE DEF rows, turn
<1>10. HandlesIn(rows) \subseteq RealHandles(Signals)
  BY <1>2, <1>6, <1>7, RowsAreReal
<1>11. ASSUME NEW r \in DOMAIN rows, "level" \in DOMAIN rows[r]
       PROVE  rows[r] \in Range(Signals.logs)
  <2>1. rows[r] \in Range(rows)
    BY DEF Range
  <2>2. /\ \A c \in Range(source.commits) : "level" \notin DOMAIN c
        /\ \A m \in Range(source.metrics) : MetricRow(m)
    BY <1>6 DEF SourceShaped, Range, CommitRow
  <2>3. \A m \in Range(source.metrics) : "level" \notin DOMAIN Trimmed(m, reply.args)
    BY <2>2, TrimmedRow DEF MetricRow
  <2> QED
    BY <1>7, <1>8, <1>11, <2>1, <2>2, <2>3 DEF MayShow
<1>12. ~ source'.directory => Denoted(transcript', Range(Signals'.logs))
  <2>1. SUFFICES ASSUME ~ source.directory
                 PROVE  Denoted(transcript', Range(Signals.logs))
    BY <1>2
  <2>2. Denoted(transcript, Range(Signals.logs))
    BY <2>1 DEF SeenInv
  <2> QED
    BY <1>2, <1>9, <1>11, <2>2, DenotedAnswered
<1>13. fabricated = {} /\ seen \subseteq RealHandles(Signals)
  BY <1>2 DEF SeenInv
<1>14. /\ \E i \in Jobs : job' = i[1]
       /\ SourceShaped(source') /\ seen' \subseteq RealHandles(Signals')
       /\ fabricated' = {} /\ fabricated' \cap seen' = {}
  BY <1>2, <1>3, <1>6, <1>10, <1>13
<1> QED
  BY ONLY <1>12, <1>14 DEF SeenInv

(* Every other reply shows no rows.                                         *)
LEMMA SeenInLoop ==
  ASSUME ContractInv, SeenInv, LoopStep, ~ Observes, UNCHANGED afterVars
  PROVE  SeenInv'
<1>1. /\ phase = "loop" /\ job' = job /\ source' = source /\ seen' = seen
      /\ fabricated' = fabricated /\ Signals' = Signals
  BY DEF LoopStep, AttemptFails, CallRaises, BadReply, Unhashable, Diagnoses, ToolFails,
         Exhausts, TryAgain, Answered, Ask, Signals, afterVars
<1>2. ASSUME NEW L, Denoted(transcript, L)
      PROVE  Denoted(transcript', L)
  <2>1. CASE AttemptFails \/ CallRaises
    BY <1>2, <2>1, DenotedAsked DEF AttemptFails, CallRaises
  <2>2. CASE BadReply \/ ToolFails
    <3>1. PICK reply : transcript' = Asked \o <<AssistantTurn(reply), Turn("retry")>>
      BY <2>2 DEF BadReply, ToolFails, TryAgain
    <3>2. Turn("retry").kind # "observation"
      BY DEF Turn
    <3> QED
      BY <1>2, <3>1, <3>2, DenotedAnswered
  <2>3. CASE Unhashable \/ Diagnoses
    <3>1. PICK reply : transcript' = Append(Asked, AssistantTurn(reply))
      BY <2>3 DEF Unhashable, Diagnoses
    <3> QED
      BY <1>2, <3>1, DenotedReplied
  <2>4. CASE Exhausts
    BY <1>2, <2>4 DEF Exhausts
  <2> QED
    BY <2>1, <2>2, <2>3, <2>4 DEF LoopStep
<1>3. fabricated = {}
  BY <1>1 DEF SeenInv
<1>4. ~ source'.directory => Denoted(transcript', Range(Signals'.logs))
  BY <1>1, <1>2 DEF SeenInv
<1>5. /\ \E j \in Jobs : job' = j[1]
      /\ SourceShaped(source') /\ seen' \subseteq RealHandles(Signals')
      /\ fabricated' = {} /\ fabricated' \cap seen' = {}
  BY <1>1, <1>3 DEF SeenInv
<1> QED
  BY ONLY <1>4, <1>5 DEF SeenInv

(* The files under the agent: a row more, or a deploy on its way.           *)
LEMMA ReadAsBefore ==
  ASSUME NEW src, NEW new, new.directory = src.directory, new.files = src.files
  PROVE  ReadLogSource(new) = ReadLogSource(src)
BY DEF ReadLogSource

LEMMA DeployStarted ==
  ASSUME NEW src, SourceShaped(src), src.deploys # <<>>, NEW new,
         new = [src EXCEPT !.torn = TRUE]
  PROVE  SourceShaped(new) /\ SignalsOf(new) = SignalsOf(src)
<1>1. /\ DOMAIN new = DOMAIN src /\ new.files = src.files /\ new.directory = src.directory
      /\ new.commits = src.commits /\ new.metrics = src.metrics
      /\ new.deploys = src.deploys
  BY DEF SourceShaped
<1>2. SignalsOf(new) = SignalsOf(src)
  BY <1>1, ReadAsBefore DEF SignalsOf
<1>3. SourceShaped(new)
  BY <1>1 DEF SourceShaped
<1> QED
  BY <1>2, <1>3

Deployed(src) == [src EXCEPT !.torn = FALSE,
                             !.commits = Append(src.commits, Head(src.deploys)),
                             !.deploys = Tail(src.deploys)]

LEMMA DeployEnded ==
  ASSUME NEW src, SourceShaped(src), src.deploys # <<>>, NEW new, new = Deployed(src)
  PROVE  /\ SourceShaped(new)
         /\ new.directory = src.directory
         /\ ReadLogSource(new) = ReadLogSource(src) /\ new.metrics = src.metrics
         /\ Range(src.commits) \subseteq Range(new.commits)
<1> DEFINE more == Append(src.commits, Head(src.deploys))
           left == Tail(src.deploys)
<1>1. /\ DOMAIN new = DOMAIN src /\ new.files = src.files /\ new.directory = src.directory
      /\ new.commits = more /\ new.metrics = src.metrics
      /\ new.torn = FALSE /\ new.deploys = left
  BY DEF SourceShaped, Deployed
<1>2. /\ IsList(src.deploys) /\ src.deploys # <<>>
      /\ \A n \in DOMAIN src.deploys : CommitRow(src.deploys[n])
      /\ IsList(src.commits) /\ \A n \in DOMAIN src.commits : CommitRow(src.commits[n])
  BY DEF SourceShaped
<1>3. CommitRow(Head(src.deploys)) /\ IsList(left) /\ \A n \in DOMAIN left : CommitRow(left[n])
  <2>1. /\ src.deploys \in Seq(Range(src.deploys))
        /\ \A c \in Range(src.deploys) : CommitRow(c)
    BY <1>2 DEF IsList, Range
  <2>2. PICK R : R = Range(src.deploys)
    OBVIOUS
  <2>3. Head(src.deploys) \in R /\ left \in Seq(R) /\ \A c \in R : CommitRow(c)
    <3>1. src.deploys \in Seq(R) /\ \A c \in R : CommitRow(c)
      BY <2>1, <2>2
    <3> QED
      BY <1>2, <3>1
  <2> HIDE DEF left
  <2>4. \A n \in DOMAIN left : left[n] \in R
    BY <2>3
  <2> QED
    BY <2>3, <2>4, SeqIsList
<1>4. /\ IsList(more) /\ \A n \in DOMAIN more : CommitRow(more[n])
      /\ Range(src.commits) \subseteq Range(more)
  <2> DEFINE last == Head(src.deploys)
             N == Len(src.commits)
  <2>1. CommitRow(last)
    BY <1>3
  <2> HIDE DEF last
  <2>2. /\ IsList(Append(src.commits, last)) /\ Len(Append(src.commits, last)) = N + 1
        /\ \A n \in 1..N : Append(src.commits, last)[n] = src.commits[n]
        /\ Append(src.commits, last)[N + 1] = last
    BY <1>2, ListAppended
  <2>3. more = Append(src.commits, last)
    BY DEF last
  <2>4. N \in Nat /\ DOMAIN src.commits = 1..N
    BY <1>2, ListPlaces
  <2> HIDE DEF more, N
  <2>5. Len(more) = N + 1 /\ DOMAIN more = 1..(N + 1)
    BY <2>2, <2>3, ListPlaces
  <2>6. \A n \in DOMAIN more : n \in 1..N \/ n = N + 1
    BY <2>4, <2>5
  <2>7. \A n \in DOMAIN more : CommitRow(more[n])
    BY <1>2, <2>1, <2>2, <2>3, <2>4, <2>6
  <2>8. 1..N \subseteq 1..(N + 1)
    BY <2>4
  <2>9. Range(src.commits) \subseteq Range(more)
    BY <2>2, <2>3, <2>4, <2>5, <2>8 DEF Range
  <2> QED
    BY <2>2, <2>3, <2>7, <2>9
<1> HIDE DEF more, left
<1>5. ReadLogSource(new) = ReadLogSource(src)
  BY <1>1, ReadAsBefore
<1>6. SourceShaped(new)
  BY <1>1, <1>3, <1>4 DEF SourceShaped
<1> QED
  BY <1>1, <1>4, <1>5, <1>6

LEMMA SeenOfFiles ==
  ASSUME OwnSources, SeenInv, FilesGrow, UNCHANGED afterVars
  PROVE  SeenInv'
<1>1. /\ phase \in {"loop", "returned"} /\ phase' = phase /\ job' = job /\ seen' = seen
      /\ transcript' = transcript /\ fabricated' = fabricated
  BY DEF FilesGrow, LogGrows, DeployStarts, DeployEnds, Live, afterVars
<1>2. SourceShaped(source)
  BY DEF SeenInv
<1>3. /\ SourceShaped(source')
      /\ ~ source'.directory => ~ source.directory
      /\ ~ source'.directory => Range(Signals.logs) \subseteq Range(Signals'.logs)
      /\ RealHandles(Signals) \subseteq RealHandles(Signals')
  <2>0. /\ Signals.logs = ReadLogSource(source) /\ Signals'.logs = ReadLogSource(source')
        /\ Signals.commits = source.commits /\ Signals'.commits = source'.commits
        /\ Signals.metrics = source.metrics /\ Signals'.metrics = source'.metrics
    BY DEF Signals, SignalsOf
  <2>1. CASE LogGrows
    <3>1. PICK f \in DOMAIN source.files, row \in NewRows :
            source' = [source EXCEPT !.files[f] =
              Append(@, [row EXCEPT !.id = IF source.numbered
                                           THEN Len(source.files[f]) ELSE NoId])]
      BY <2>1 DEF LogGrows
    <3> DEFINE id == IF source.numbered THEN Len(source.files[f]) ELSE NoId
               x == [row EXCEPT !.id = id]
    <3>2. LogRow(x)
      <4>1. id \in Int
        <5>1. Len(source.files[f]) \in Nat
          BY <1>2, ListPlaces DEF SourceShaped, LogFile
        <5> QED
          BY <5>1 DEF NoId
      <4>2. LogRow(row)
        BY DEF OwnSources
      <4> HIDE DEF id
      <4> QED
        BY <4>1, <4>2, IdGiven
    <3>3. source' = Grown(source, f, x)
      BY <3>1 DEF Grown
    <3> HIDE DEF x
    <3>4. /\ SourceShaped(source') /\ (~ source'.directory <=> ~ source.directory)
          /\ ~ source.directory =>
               Range(ReadLogSource(source)) \subseteq Range(ReadLogSource(source'))
          /\ HandlesIn(ReadLogSource(source)) \subseteq HandlesIn(ReadLogSource(source'))
          /\ source'.commits = source.commits /\ source'.metrics = source.metrics
      BY <1>2, <3>2, <3>3, SourceGrows
    <3> QED
      BY <2>0, <3>4 DEF RealHandles
  <2>2. CASE DeployStarts
    <3>1. source.deploys # <<>> /\ source' = [source EXCEPT !.torn = TRUE]
      BY <2>2 DEF DeployStarts
    <3>2. SourceShaped(source') /\ Signals' = Signals
      BY <1>2, <3>1, DeployStarted DEF Signals
    <3>3. source'.directory = source.directory
      BY <1>2, <3>1 DEF SourceShaped
    <3> QED
      BY <3>2, <3>3
  <2>3. CASE DeployEnds
    <3>1. source.deploys # <<>> /\ source' = Deployed(source)
      BY <1>2, <2>3 DEF DeployEnds, SourceShaped, Deployed
    <3>2. /\ SourceShaped(source') /\ source'.directory = source.directory
          /\ ReadLogSource(source') = ReadLogSource(source)
          /\ source'.metrics = source.metrics
          /\ Range(source.commits) \subseteq Range(source'.commits)
      BY <1>2, <3>1, DeployEnded
    <3>3. HandlesIn(source.commits) \subseteq HandlesIn(source'.commits)
      BY <3>2, HandlesOfRange
    <3> QED
      BY <2>0, <3>2, <3>3 DEF RealHandles
  <2> QED
    BY <2>1, <2>2, <2>3 DEF FilesGrow
<1>4. ~ source'.directory => Denoted(transcript', Range(Signals'.logs))
  BY <1>1, <1>3, DenotedMore DEF SeenInv
<1>5. /\ \E j \in Jobs : job' = j[1]
      /\ SourceShaped(source') /\ seen' \subseteq RealHandles(Signals')
      /\ fabricated' = {} /\ fabricated' \cap seen' = {}
  BY <1>1, <1>3 DEF SeenInv
<1> QED
  BY ONLY <1>4, <1>5 DEF SeenInv

(* A caller that reports nothing, or what is not in its signals.            *)
LEMMA SeenLeftAlone ==
  ASSUME SeenInv, UNCHANGED <<job, source, transcript, seen>>,
         \/ phase' = phase /\ fabricated' = fabricated
         \/ /\ phase' \notin {"loop", "returned"}
            /\ \/ fabricated' = fabricated
               \/ fabricated' \cap RealHandles(Signals) = {}
  PROVE  SeenInv'
<1>1. Signals' = Signals
  BY DEF Signals
<1>2. seen \subseteq RealHandles(Signals) /\ fabricated \cap seen = {}
  BY DEF SeenInv
<1>3. fabricated' \cap seen' = {}
  BY <1>2
<1>4. /\ \E j \in Jobs : job' = j[1]
      /\ SourceShaped(source') /\ seen' \subseteq RealHandles(Signals')
      /\ ~ source'.directory => Denoted(transcript', Range(Signals'.logs))
      /\ phase' \in {"loop", "returned"} => fabricated' = {}
  BY <1>1 DEF SeenInv
<1> QED
  BY ONLY <1>3, <1>4 DEF SeenInv

LEMMA SeenInvStep ==
  ASSUME OwnSources, OwnCalls, ContractInv, SeenInv, [Next]_vars
  PROVE  SeenInv'
<1>1. CASE LoopStep /\ UNCHANGED afterVars
  <2>1. CASE Observes
    BY <1>1, <2>1, SeenOfObserves
  <2>2. CASE ~ Observes
    BY <1>1, <2>2, SeenInLoop
  <2> QED
    BY <2>1, <2>2
<1>2. CASE FilesGrow /\ UNCHANGED afterVars
  BY <1>2, SeenOfFiles
<1>3. CASE CliWriteFails \/ BuilderGates \/ EvalTimes \/ ServiceRecords \/ CallerCatches
  <2>1. phase' \notin {"loop", "returned"}
    BY <1>3 DEF CliWriteFails, BuilderGates, EvalTimes, ServiceRecords, CallerCatches,
                Verifies, Ends
  <2> QED
    BY <1>3, <2>1, SeenLeftAlone
       DEF CliWriteFails, BuilderGates, EvalTimes, ServiceRecords, CallerCatches, LoopKept
<1>4. CASE CliChecks
  <2>1. fabricated' \cap RealHandles(Signals) = {}
    BY <1>4 DEF CliChecks, CliFabricated, Fabricated
  <2> QED
    BY <1>4, <2>1, SeenLeftAlone DEF CliChecks, Ends, LoopKept
<1>5. CASE ServiceChecks
  <2>1. fabricated' \cap RealHandles(Signals) = {} /\ phase' \notin {"loop", "returned"}
    BY <1>5 DEF ServiceChecks, Fabricated, Verifies
  <2> QED
    BY <1>5, <2>1, SeenLeftAlone DEF ServiceChecks, LoopKept
<1>6. CASE EvalScores
  <2>1. fabricated' \cap RealHandles(Signals) = {}
    BY <1>6 DEF EvalScores, Fabricated
  <2> QED
    BY <1>6, <2>1, SeenLeftAlone DEF EvalScores, Ends, LoopKept
<1>7. CASE VerdictUnresolved \/ VerifierAttemptFails \/ Verdict
  BY <1>7, SeenLeftAlone
     DEF VerdictUnresolved, VerifierAttemptFails, Verdict, LoopKept
<1>8. CASE VerifyEnds \/ VerifierRaises
  BY <1>8, SeenLeftAlone DEF VerifyEnds, VerifierRaises, LoopKept
<1>9. CASE ServiceReadRaises
  BY <1>9, SeenLeftAlone DEF ServiceReadRaises, Ends, LoopKept
<1>10. CASE RunEnded \/ UNCHANGED vars
  BY <1>10, SeenLeftAlone DEF RunEnded, vars
<1> QED
  BY <1>1, <1>2, <1>3, <1>4, <1>5, <1>6, <1>7, <1>8, <1>9, <1>10 DEF Next, AfterLoop

LEMMA SeenInvInit ==
  ASSUME OwnSources, Init
  PROVE  SeenInv
<1>1. PICK j \in Jobs : job = j[1] /\ source = j[2]
  BY DEF Init
<1>2. SourceShaped(source)
  BY <1>1 DEF OwnSources
<1>3. /\ phase = "loop" /\ seen = {} /\ fabricated = {}
      /\ transcript = <<Turn("system"), Turn("trigger")>>
  BY DEF Init, LoopInit
<1>4. TurnsOf(transcript, "observation") = {}
  BY <1>3 DEF TurnsOf, Turn
<1> QED
  BY <1>1, <1>2, <1>3, <1>4 DEF SeenInv, Denoted

(* In an unambiguous file the row an id names is the one.                   *)
LEMMA OneRowForAnId ==
  ASSUME SeenInv, Unambiguous, NEW row \in Range(Signals.logs)
  PROVE  {Signals.logs[n] : n \in {k \in DOMAIN Signals.logs : Signals.logs[k].id = row.id}}
           = {row}
<1> DEFINE raw == source.files[1]
           logs == Signals.logs
<1>1. ~ source.directory /\ SourceShaped(source)
  BY DEF Unambiguous, SeenInv
<1>2. logs = NormalizeLogRows(raw)
  BY <1>1 DEF Signals, SignalsOf, ReadLogSource
<1>3. LogFile(raw)
  <2>1. IsList(source.files) /\ source.files # <<>>
    BY <1>1 DEF SourceShaped
  <2>2. 1 \in DOMAIN source.files
    <3>1. source.files \in Seq(Range(source.files))
      BY <2>1 DEF IsList
    <3>2. Len(source.files) \in Nat /\ DOMAIN source.files = 1..Len(source.files)
      BY <2>1, ListPlaces
    <3> QED
      BY <2>1, <3>1, <3>2
  <2> QED
    BY <1>1, <2>2 DEF SourceShaped
<1>4. \A n, k \in DOMAIN raw : n < k /\ raw[k].id # NoId => raw[n].id \notin {NoId, raw[k].id}
  BY DEF Unambiguous
<1> HIDE DEF raw
<1>5. /\ DOMAIN logs = 1..Len(raw)
      /\ \A n, k \in 1..Len(raw) : logs[n].id = logs[k].id => n = k
  BY <1>2, <1>3, <1>4, IdsDiffer, NormalizedFile
<1> HIDE DEF logs
<1>6. PICK n \in DOMAIN logs : logs[n] = row
  BY DEF Range, logs
<1>7. {k \in DOMAIN logs : logs[k].id = row.id} = {n}
  BY <1>5, <1>6
<1>8. {logs[k] : k \in {m \in DOMAIN logs : logs[m].id = row.id}} = {row}
  BY <1>6, <1>7
<1> QED
  BY <1>8 DEF logs

LEMMA SeenInvReal == SeenInv => SeenStaysReal
<1> SUFFICES ASSUME SeenInv PROVE SeenStaysReal
  OBVIOUS
<1>1. ASSUME Unambiguous, NEW n \in TurnsOf(transcript, "observation"),
             NEW r \in DOMAIN transcript[n].rows
      PROVE  StillDenotes(transcript[n].rows[r])
  <2>1. Denoted(transcript, Range(Signals.logs))
    BY <1>1 DEF SeenInv, Unambiguous
  <2>2. "level" \in DOMAIN transcript[n].rows[r] =>
          transcript[n].rows[r] \in Range(Signals.logs)
    BY <2>1 DEF Denoted
  <2> QED
    BY <1>1, <2>2, OneRowForAnId DEF StillDenotes
<1> QED
  BY <1>1 DEF SeenInv, SeenStaysReal

(* What a tool has shown can be cited (normalize.py, sources.py,            *)
(* citations.py): while the files grow under a run, a handle the model saw  *)
(* is one of the source, read again without a cap; in one file with ids of  *)
(* its own it names the row it named; and no check reports it.              *)
THEOREM ShownStaysCitable ==
  ASSUME OwnSources, OwnCalls
  PROVE  Spec => []SeenStaysReal
<1>1. Init => CostInv /\ ContractInv /\ SeenInv
  BY CostInvInit, ContractInvInit, SeenInvInit
<1>2. CostInv /\ ContractInv /\ SeenInv /\ [Next]_vars => CostInv' /\ ContractInv' /\ SeenInv'
  BY CostInvStep, ContractInvStep, SeenInvStep
<1> QED
  BY <1>1, <1>2, SeenInvReal, PTL DEF Spec
=============================================================================
