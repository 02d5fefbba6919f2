---------------------------- MODULE PlanContract ----------------------------
(***************************************************************************)
(* What approving a remediation plan promises its operators, whatever the  *)
(* executor does inside: commands run only with consent.  Consent to the   *)
(* plan comes first and is never taken back; without autoEdit a step needs *)
(* a grant of its own, which exists only for a plan that was approved.     *)
(***************************************************************************)
CONSTANT Steps
VARIABLES consent,  \* "none", "stepwise" or "auto"
          granted,  \* steps an operator approved or asked to retry
          ran       \* steps whose command ran

contractVars == <<consent, granted, ran>>

Init == consent = "none" /\ granted = {} /\ ran = {}

Approve(level) ==
  /\ consent # "auto"
  /\ level \in {"stepwise", "auto"}
  /\ consent' = level
  /\ UNCHANGED <<granted, ran>>

Grant(s) ==
  /\ consent # "none"
  /\ granted' = granted \union {s}
  /\ UNCHANGED <<consent, ran>>

Run(s) ==
  /\ consent # "none"
  /\ consent = "auto" \/ s \in granted
  /\ ran' = ran \union {s}
  /\ UNCHANGED <<consent, granted>>

Next ==
  \/ \E level \in {"stepwise", "auto"} : Approve(level)
  \/ \E s \in Steps : Grant(s) \/ Run(s)

Spec == Init /\ [][Next]_contractVars
=============================================================================
