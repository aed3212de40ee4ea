------------------------------- MODULE MCLive -------------------------------
(*****************************************************************************)
(* What must happen, for TLC: one session, one connection's transport and    *)
(* flowing fluids, under the fairness their modules state. A behaviour       *)
(* takes the steps of one part, chosen at the start; the variables of the    *)
(* others stay as they are.                                                  *)
(*****************************************************************************)
EXTENDS MCSessions, Transport, Fluid

CONSTANTS Parts, k1, k2

VARIABLE part

TwoClosers == {k1, k2}

PartsInit ==
    /\ part \in Parts
    /\ Init
    /\ WireInit
    /\ FluidInit

PartsNext ==
    \/ /\ part = "sessions" /\ Next
       /\ UNCHANGED <<wireVars, fluidVars>>
    \/ /\ part = "wire" /\ WireNext
       /\ UNCHANGED <<vars, fluidVars>>
    \/ /\ part = "fluid" /\ FluidNext
       /\ UNCHANGED <<vars, wireVars>>

partsVars == <<part, vars, wireVars, fluidVars>>

PartsSpec == PartsInit /\ [][PartsNext /\ UNCHANGED part]_partsVars

\* In a part that is not chosen nothing is enabled that is fair.
FairPartsSpec == PartsSpec /\ Fairness /\ WireFairness /\ FluidFairness
=============================================================================
