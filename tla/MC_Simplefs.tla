---------------------------- MODULE MC_Simplefs ----------------------------
(***************************************************************************)
(* Small instances of Simplefs for TLC.                                    *)
(***************************************************************************)
EXTENDS Simplefs

\* The counter can drift without bound; runs explore it within CounterBound.
CounterBound == 6

StateBound == actualSize \in -CounterBound..CounterBound

=============================================================================
