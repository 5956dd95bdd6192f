---------------------------- MODULE MCYumClients ----------------------------
(***************************************************************************)
(* An instance of YumClients for TLC.                                      *)
(***************************************************************************)
EXTENDS YumClients, TLC

Evr(e, v, r) == [epoch |-> e, version |-> v, release |-> r]

\* Two versions.
MCEvrs == {Evr(0, 1, 1), Evr(0, 2, 1)}

MCRank == Evr(0, 1, 1) :> 1 @@ Evr(0, 2, 1) :> 2

=============================================================================
