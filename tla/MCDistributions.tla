-------------------------- MODULE MCDistributions --------------------------
(***************************************************************************)
(* Instances of Distributions for TLC.                                     *)
(***************************************************************************)
EXTENDS Distributions, TLC

CONSTANTS v1, v2, v3

\* The second version is in both distributions.
MCVersions      == {v1, v2}
MCOtherVersions == {v2, v3}

MCRank      == v1 :> 1 @@ v2 :> 2
MCOtherRank == v2 :> 2 @@ v3 :> 3

MCFlat == [c \in Components |-> {c}]

=============================================================================
