-------------------------- MODULE MCAptSigningKey --------------------------
(***************************************************************************)
(* An instance of AptSigningKey for TLC.                                   *)
(***************************************************************************)
EXTENDS AptSigningKey, TLC

CONSTANTS v1, v1b, v2

\* v1 and v1b are different strings that dpkg orders as equal.
MCRank == v1 :> 1 @@ v1b :> 1 @@ v2 :> 2

MCFlat == [c \in Components |-> {c}]

=============================================================================
