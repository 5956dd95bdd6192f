----------------------------- MODULE Retention -----------------------------
(***************************************************************************)
(* The retention policy, internal/retention/retention.go.                  *)
(*                                                                         *)
(* Prune works on a slice and keeps its order.  Here the slice is the set  *)
(* of its items: an item is a record with a field pkg, what the callers'   *)
(* group and compare functions look at, and a field at, its place in the   *)
(* slice.  group[pkg] is the retention group; age[pkg] is a number that    *)
(* orders two packages as the caller's compare function does, equal when   *)
(* compare returns 0.  No two items of the callers' slices have the same   *)
(* pkg: both replace the item they add.                                    *)
(***************************************************************************)
EXTENDS Naturals, FiniteSets

\* Mutant: oldest first.
Older(x, d, age) ==
  \/ age[x.pkg] < age[d.pkg]
  \/ age[x.pkg] = age[d.pkg] /\ x.at < d.at

\* x comes before d when a group is ordered newest first.  The sort is stable,
\* so packages that compare as equal stay in the order of the slice.
Newer(x, d, age) ==
  \/ age[x.pkg] > age[d.pkg]
  \/ age[x.pkg] = age[d.pkg] /\ x.at < d.at

\* The packages of d's group that come before d, newest first.
Ahead(items, d, group, age) ==
  {x.pkg : x \in {y \in items : /\ group[y.pkg] = group[d.pkg]
                                /\ Newer(y, d, age)}}

\* The items Prune retains: the first keep of every group.  The others are
\* those it returns for removal.
Retain(items, keep, group, age) ==
  {d \in items : Cardinality(Ahead(items, d, group, age)) < keep}

=============================================================================
