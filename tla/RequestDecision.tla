-------------------------- MODULE RequestDecision --------------------------
(***************************************************************************)
(* What a parked approval request promises, whoever decides it: from the   *)
(* moment it is open it receives exactly one decision (the operator's      *)
(* approve or deny, the timer's timeout, or an internal abort), and the    *)
(* worker that parked it is handed that decision and no other, once.       *)
(*                                                                         *)
(* Abstract specification of the per-request channel of                    *)
(* src/server/resolution_registry.py (module docstring, lines 7-10).       *)
(***************************************************************************)
CONSTANT Parkings           \* one member per time a request is parked

VARIABLES decision,         \* what was decided, or "closed" / "open"
          delivered         \* has the worker been handed the decision?

vars == <<decision, delivered>>

Verdicts == {"approve", "deny", "timeout", "abort"}

TypeOK ==
    /\ decision  \in [Parkings -> {"closed", "open"} \cup Verdicts]
    /\ delivered \in [Parkings -> BOOLEAN]

Init ==
    /\ decision  = [p \in Parkings |-> "closed"]
    /\ delivered = [p \in Parkings |-> FALSE]

Park(p) ==
    /\ decision[p] = "closed"
    /\ decision' = [decision EXCEPT ![p] = "open"]
    /\ UNCHANGED delivered

Decide(p, verdict) ==
    /\ decision[p] = "open"
    /\ decision' = [decision EXCEPT ![p] = verdict]
    /\ UNCHANGED delivered

Deliver(p) ==
    /\ decision[p] \in Verdicts
    /\ ~ delivered[p]
    /\ delivered' = [delivered EXCEPT ![p] = TRUE]
    /\ UNCHANGED decision

Next ==
    \E p \in Parkings :
        \/ Park(p)
        \/ \E verdict \in Verdicts : Decide(p, verdict)
        \/ Deliver(p)

Spec == Init /\ [][Next]_vars
============================================================================
