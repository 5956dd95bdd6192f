---------------------------- MODULE Repository ----------------------------
(***************************************************************************)
(* What a publisher promises: its repository is a set of files for every   *)
(* part, and a change is one of two, whatever objects it takes to make it. *)
(*                                                                         *)
(*   - A file is added: it takes the place of one that is there, and       *)
(*     retention takes out the surplus of its group.                       *)
(*   - The files that one removal names are dropped.                       *)
(*                                                                         *)
(* A publisher has two records of a part: the one it starts its next       *)
(* change from, and the one that its clients are shown.  It makes a change *)
(* to one of them and brings the other into line later, but before it      *)
(* reports that it has published.  Between the two it may fail.            *)
(***************************************************************************)
EXTENDS Naturals, FiniteSets

CONSTANTS
  Parts,        \* what has a list of files of its own
  Files,        \* the files that can be published
  Place,        \* Place[f]: two files with one place exclude each other
  Group,        \* Group[f]: the retention group
  Age,          \* Age[f]: a number, larger for newer versions
  Keep,         \* how many files of a group are kept; 0 keeps all
  Removals,     \* the sets of files that a removal can name
  ShownFirst    \* which record is changed first: the one of the clients?

VARIABLES
  base,         \* what the next change starts from
  shown,        \* what the clients are shown
  outcome       \* how the last operation ended

vars == <<base, shown, outcome>>

Nothing == [p \in Parts |-> {}]

Init == base = Nothing /\ shown = Nothing /\ outcome = "none"

GroupIn(files, f) == {e \in files : Group[e] = Group[f]}

\* What retention may leave of some files: what goes is older than what stays, or
\* as old, and only a full group loses anything.
MayLeave(files, left) ==
  IF Keep = 0
  THEN left = files
  ELSE /\ left \subseteq files
       /\ \A e \in left : Cardinality(GroupIn(left, e)) <= Keep
       /\ \A d \in files \ left :
            /\ Cardinality(GroupIn(left, d)) = Keep
            /\ \A e \in GroupIn(left, d) : Age[e] >= Age[d]

WithFile(files, f) == {e \in files : Place[e] # Place[f]} \cup {f}

\* One change to the files of a part.
Follows(files, next) ==
  \/ \E f \in Files : MayLeave(WithFile(files, f), next)
  \/ \E r \in Removals : next = files \ r

-----------------------------------------------------------------------------
Begin ==
  /\ outcome # "running"
  /\ outcome' = "running"
  /\ UNCHANGED <<base, shown>>

\* A change, which the clients see at once and the publisher records later, or
\* the other way round.
Change(p) ==
  /\ outcome = "running"
  /\ IF ShownFirst
     THEN /\ Follows(base[p], shown'[p])
          /\ shown' = [shown EXCEPT ![p] = shown'[p]]
          /\ UNCHANGED base
     ELSE /\ Follows(base[p], base'[p])
          /\ base' = [base EXCEPT ![p] = base'[p]]
          /\ UNCHANGED shown
  /\ UNCHANGED outcome

\* The other record follows, for all parts at once.
Align ==
  /\ outcome = "running"
  /\ IF ShownFirst
     THEN base' = shown /\ UNCHANGED shown
     ELSE shown' = base /\ UNCHANGED base
  /\ UNCHANGED outcome

\* An operation that says it has published leaves both records equal.
Succeed ==
  /\ outcome = "running"
  /\ outcome' \in {"published", "unchanged"}
  /\ outcome' = "published" => base = shown
  /\ UNCHANGED <<base, shown>>

Fail ==
  /\ outcome = "running"
  /\ outcome' = "failed"
  /\ UNCHANGED <<base, shown>>

Next ==
  \/ Begin
  \/ \E p \in Parts : Change(p)
  \/ Align
  \/ Succeed
  \/ Fail

Spec == Init /\ [][Next]_vars

=============================================================================
