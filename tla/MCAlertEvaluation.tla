------------------------- MODULE MCAlertEvaluation -------------------------
EXTENDS AlertEvaluation, TLC

EvaluatorSymmetry == Permutations(Evaluators)
=============================================================================
