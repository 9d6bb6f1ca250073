----------------------------- MODULE DensityLife -----------------------------
(***************************************************************************)
(* What the density tracker promises about the levels of an order book, as *)
(* told by the events it reports: a density appears once in a life, is     *)
(* reported as holding at most once in a life, may grow or be eaten into   *)
(* any number of times, and a life ends with one report.  One order book   *)
(* may concern any of the levels.                                          *)
(***************************************************************************)
CONSTANT Keys

VARIABLES
    phase,      \* key |-> "absent", "alive", or "held" once it is reported as holding
    report      \* key |-> the last event reported of it

Init == phase = [k \in Keys |-> "absent"] /\ report = [k \in Keys |-> "none"]

Appears(k) == phase[k] = "absent" /\ phase'[k] = "alive" /\ report'[k] = "appeared"

Holds(k) == phase[k] = "alive" /\ phase'[k] = "held" /\ report'[k] = "holding"

Changes(k) == /\ phase[k] \in {"alive", "held"}
              /\ phase'[k] = phase[k]
              /\ report'[k] \in {"refilled", "eaten"}

Ends(k) == /\ phase[k] \in {"alive", "held"}
           /\ phase'[k] = "absent"
           /\ report'[k] \in {"pulled", "absorbed"}

Stays(k) == phase'[k] = phase[k] /\ report'[k] = report[k]

Next == \A k \in Keys : Appears(k) \/ Holds(k) \/ Changes(k) \/ Ends(k) \/ Stays(k)

Spec == Init /\ [][Next]_<<phase, report>>
==============================================================================
