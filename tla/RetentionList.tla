--------------------------- MODULE RetentionList ---------------------------
(***************************************************************************)
(* retention.Prune (internal/retention/retention.go) as it is written, on  *)
(* a slice: Retention states what it retains, for slices as sets.          *)
(*                                                                         *)
(* The items are the places 1 .. n of the slice; group[i] and age[i] are   *)
(* the group of an item and what compare orders it by.                     *)
(***************************************************************************)
EXTENDS Integers, SequencesExt

\* Mutant: the sort is not stable, and an item goes before those it is equal to.
PlaceBefore(sorted, i, age) ==
  Cardinality({k \in DOMAIN sorted : age[sorted[k]] > age[i]})

\* How many of the sorted items stay before the next one: the sort is stable.
Place(sorted, i, age) ==
  Cardinality({k \in DOMAIN sorted : age[sorted[k]] >= age[i]})

\* SortStableFunc, newest first.
SortStable(idxs, age) ==
  FoldLeft(LAMBDA sorted, i : InsertAt(sorted, Place(sorted, i, age) + 1, i), <<>>, idxs)

\* The items that are dropped of the group g.
Dropped(n, keep, g, group, age) ==
  LET idxs    == SelectSeq([i \in 1 .. n |-> i], LAMBDA i : group[i] = g)
      ordered == SortStable(idxs, age)
  IN  IF Len(idxs) <= keep THEN {}
      ELSE Range(IF keep > 0 THEN SubSeq(ordered, keep + 1, Len(ordered)) ELSE ordered)

\* What Prune returns, in the order of the slice.
Prune(n, keep, group, age) ==
  LET removeIdx == UNION {Dropped(n, keep, g, group, age) : g \in {group[i] : i \in 1 .. n}}
      items     == [i \in 1 .. n |-> i]
  IN  [retain |-> SelectSeq(items, LAMBDA i : i \notin removeIdx),
       remove |-> SelectSeq(items, LAMBDA i : i \in removeIdx)]

=============================================================================
