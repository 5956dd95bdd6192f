---------------------------- MODULE MCAptClients ----------------------------
(***************************************************************************)
(* An instance of AptClients for TLC.                                      *)
(***************************************************************************)
EXTENDS AptClients, TLC

CONSTANTS main, a1, v1, v2

MCRank == v1 :> 1 @@ v2 :> 2

MCFlat == [c \in Components |-> {c}]

MCHome == [component |-> main, arch |-> a1]

=============================================================================
