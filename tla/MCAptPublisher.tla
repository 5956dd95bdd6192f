--------------------------- MODULE MCAptPublisher ---------------------------
(***************************************************************************)
(* Instances of AptPublisher for TLC.                                      *)
(***************************************************************************)
EXTENDS AptRepository, TLC

CONSTANTS v1, v1b, v2

\* v1 and v1b are different strings that dpkg orders as equal, as 1.0 and 1.0-0.
MCRank == v1 :> 1 @@ v1b :> 1 @@ v2 :> 2

\* No component lies in the directory of another.
MCFlat == [c \in Components |-> {c}]

\* One component, such as main, has all others in its directory, as main/debug is.
MCNested ==
  LET outer == CHOOSE c \in Components : TRUE
  IN  [c \in Components |-> IF c = outer THEN Components ELSE {c}]

\* Nothing tells two architectures, two names or two builds apart.
MCSymmetry == Permutations(Archs) \cup Permutations(Names) \cup Permutations(Builds)

=============================================================================
