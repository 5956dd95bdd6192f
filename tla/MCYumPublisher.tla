--------------------------- MODULE MCYumPublisher ---------------------------
(***************************************************************************)
(* Instances of YumPublisher for TLC.                                      *)
(***************************************************************************)
EXTENDS YumRepository, TLC

Evr(e, v, r) == [epoch |-> e, version |-> v, release |-> r]

\* Two releases of one version that compare as equal, as 1 and 01 do, a newer
\* version, and one that shares its file name with the first and is made newer
\* than all others by its epoch.
MCEvrs == {Evr(0, 1, 1), Evr(0, 1, 2), Evr(0, 2, 1), Evr(1, 1, 1)}

MCRank == Evr(0, 1, 1) :> 1 @@ Evr(0, 1, 2) :> 1 @@ Evr(0, 2, 1) :> 2 @@ Evr(1, 1, 1) :> 3

\* Nothing tells two architectures or two builds apart.
MCSymmetry == Permutations(Archs) \cup Permutations(Builds)

=============================================================================
