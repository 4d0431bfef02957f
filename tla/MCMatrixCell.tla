---------------------------- MODULE MCMatrixCell ----------------------------
(* MatrixCell with two scenarios, a run of three passes and shorter ones,    *)
(* and results of every kind.                                                *)
EXTENDS MatrixCell

Run(passes, verify, model, verifierModel) ==
  [passes |-> passes, verify |-> verify, model |-> model,
   verifierModel |-> verifierModel, allowSelf |-> FALSE, score |-> "gate",
   maxSteps |-> 8]

MCArguments ==
  {Run(3, FALSE, "tuned", Unset), Run(2, TRUE, "tuned", "other"),
   [Run(1, TRUE, Unset, DefaultModel) EXCEPT !.allowSelf = TRUE],
   [Run(1, FALSE, Unset, Unset) EXCEPT !.score = "abstain", !.maxSteps = 12],
   Run(0, FALSE, Unset, Unset), Run(1, TRUE, "tuned", Unset),
   Run(1, TRUE, Unset, DefaultModel)}

MCResults ==
  {[judged |-> TRUE, fabricated |-> 0, deliberate |-> FALSE, unobserved |-> 1,
    calls |-> <<5, 7>>, verifierCalls |-> <<3>>],
   [judged |-> FALSE, fabricated |-> 0, deliberate |-> TRUE, unobserved |-> 0,
    calls |-> <<Unreported>>, verifierCalls |-> <<>>],
   [judged |-> TRUE, fabricated |-> 1, deliberate |-> FALSE, unobserved |-> 0,
    calls |-> <<4>>, verifierCalls |-> <<Unreported>>]}

MCOverlaps == {1}
=============================================================================
