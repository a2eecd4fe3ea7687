-------------------------------- MODULE Gate --------------------------------
(***************************************************************************)
(* What every lane of this repository promises: it observes a subject it   *)
(* does not control for as long as it runs, then gives one final verdict,  *)
(* which is green only if the subject is good at that moment; a subject    *)
(* that has been judged does not change any more.                          *)
(***************************************************************************)
CONSTANT Verdicts   \* the verdicts other than green

VARIABLES good,     \* whether what has been observed conforms
          verdict   \* "none" until it is given

gateVars == <<good, verdict>>

Init == verdict = "none" /\ good \in BOOLEAN

Observe ==
  /\ verdict = "none"
  /\ good' \in BOOLEAN
  /\ UNCHANGED verdict

Decide ==
  /\ verdict = "none"
  /\ verdict' \in Verdicts \cup {"green"}
  /\ verdict' = "green" => good
  /\ UNCHANGED good

Next == Observe \/ Decide

Spec == Init /\ [][Next]_gateVars /\ <>(verdict # "none")
=============================================================================
