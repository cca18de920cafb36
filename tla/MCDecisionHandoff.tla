------------------------- MODULE MCDecisionHandoff -------------------------
(***************************************************************************)
(* Instances of DecisionHandoff for TLC: two request ids and two           *)
(* registrations, enough for two requests parked side by side and for one  *)
(* id parked again while a timer of its first parking is still about.      *)
(***************************************************************************)
EXTENDS DecisionHandoff

CONSTANTS r1, r2

TwoRequests == {r1, r2}
============================================================================
