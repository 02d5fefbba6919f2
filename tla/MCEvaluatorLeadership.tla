----------------------- MODULE MCEvaluatorLeadership -----------------------
EXTENDS EvaluatorLeadership, TLC

ReplicaSymmetry == Permutations(Replicas)
=============================================================================
