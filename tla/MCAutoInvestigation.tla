-------------------------- MODULE MCAutoInvestigation --------------------------
EXTENDS AutoInvestigation, TLC
CONSTANTS p1, p2

Scenario(bus, procs, ticks, trouble, nrows, asks) ==
    [bus |-> bus, procs |-> procs, ticks |-> ticks, trouble |-> trouble,
     rows |-> nrows, asks |-> asks]

MCLimits ==
    { Scenario("redis", {p1, p2}, 0, 0, 2, 0),    \* two replicas
      Scenario("redis", {p1, p2}, 0, 1, 0, 0),    \* the bus itself in trouble
      Scenario("redis", {p1}, 2, 0, 2, 0),        \* cooldown on one process
      Scenario("redis", {p1}, 1, 1, 1, 0),        \* a failing store, a crash in mid-run
      Scenario("redis", {p1}, 1, 0, 3, 1),        \* a user investigates as well
      Scenario("memory", {p1}, 1, 1, 2, 0) }      \* concurrent jobs in one process
=============================================================================
