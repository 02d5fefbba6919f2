-------------------------- MODULE MCPlanExecution --------------------------
EXTENDS PlanExecution, TLC

DriverSymmetry == Permutations(Drivers)
=============================================================================
