------------------------------ MODULE MCSignals ------------------------------
(***************************************************************************)
(* Small instances of SignalEngine and Outcomes, checked side by side:     *)
(* part says which of the two runs, and the other stays in one of its      *)
(* initial states.  The first symbol has two candidates of one strategy    *)
(* (two of its instances) and one of another between them, the second none *)
(* and a snapshot that may be due while the lock is held.  To bound the    *)
(* states, the clock gets to its last moment only if nothing was cut.      *)
(***************************************************************************)
EXTENDS SignalEngine, Outcomes

VARIABLE part

ASSUME OutcomesAssumption

MCOffers == << <<"oi", "density", "oi">>, <<>> >>

MCInit ==
    /\ part \in {"engine", "outcomes"}
    /\ Init
    /\ OutcomesInit
    /\ path[0] = 1

MCNext ==
    \/ /\ part = "engine" /\ Next
       /\ now' < MaxTime \/ cuts' = 0
       /\ UNCHANGED <<part, outcomeVars>>
    \/ part = "outcomes" /\ OutcomesNext /\ UNCHANGED <<part, vars>>

MCSpec ==
    /\ MCInit /\ [][MCNext]_<<part, vars, outcomeVars>>
    /\ WF_<<vars, outcomeVars>>(part = "engine" /\ Proceed /\ UNCHANGED <<part, outcomeVars>>)
    /\ WF_<<vars, outcomeVars>>(part = "outcomes" /\ Track /\ UNCHANGED <<part, vars>>)

\* The types of both modules.
Types == TypeOK /\ OutcomesTypeOK
==============================================================================
