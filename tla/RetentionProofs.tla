---------------------------- MODULE RetentionProofs ----------------------------
(***************************************************************************)
(* What Retain leaves, for items of any kind, any number of them and any   *)
(* way of grouping and comparing them.                                     *)
(*                                                                         *)
(* An item's rank is the number of packages of its group that come before  *)
(* it.  Two items of one group have different ranks, so that the ranks of  *)
(* a group of n items are the numbers from 0 to n - 1, and the items whose *)
(* rank is less than keep are keep in number when there are as many.       *)
(***************************************************************************)
EXTENDS Retention, FiniteSetTheorems, TLAPS

\* What Retain expects of its items: they are those of a slice, of different
\* packages, and no two of one group are at the same place.
Orderly(items, group, age) ==
  /\ IsFiniteSet(items)
  /\ \A x \in items : age[x.pkg] \in Nat /\ x.at \in Nat
  /\ \A x, y \in items : x.pkg = y.pkg => x = y
  /\ \A x, y \in items : group[x.pkg] = group[y.pkg] /\ x.at = y.at => x = y

\* The items of a group.
GroupItems(items, group, g) == {y \in items : group[y.pkg] = g}

\* Sets whose elements correspond to each other.
LEMMA SameNumber ==
  ASSUME NEW S, NEW T, IsFiniteSet(S), NEW f \in [S -> T],
         \A x, y \in S : f[x] = f[y] => x = y,
         \A t \in T : \E x \in S : f[x] = t
  PROVE  IsFiniteSet(T) /\ Cardinality(T) = Cardinality(S)
<1>1. f \in Surjection(S, T) /\ f \in Injection(S, T)
  BY DEF Surjection, Injection, IsInjective
<1>2. QED
  BY <1>1, FS_Surjection

-----------------------------------------------------------------------------
(* The order of a group.                                                   *)

\* Some of the items of a slice, in their order.
LEMMA OrderlySubset ==
  ASSUME NEW items, NEW group, NEW age, Orderly(items, group, age),
         NEW some, some \subseteq items
  PROVE  Orderly(some, group, age)
BY FS_Subset DEF Orderly

\* Newer orders the items of a group strictly and totally.
LEMMA NewerOrders ==
  ASSUME NEW items, NEW group, NEW age, Orderly(items, group, age),
         NEW x \in items, NEW y \in items, NEW z \in items,
         group[x.pkg] = group[y.pkg]
  PROVE  /\ x # y => Newer(x, y, age) \/ Newer(y, x, age)
         /\ ~ Newer(x, x, age)
         /\ Newer(x, y, age) => ~ Newer(y, x, age)
         /\ Newer(x, y, age) /\ Newer(y, z, age) => Newer(x, z, age)
<1>1. /\ age[x.pkg] \in Nat /\ age[y.pkg] \in Nat /\ age[z.pkg] \in Nat
      /\ x.at \in Nat /\ y.at \in Nat /\ z.at \in Nat
      /\ x.at = y.at => x = y
  BY DEF Orderly
<1>2. QED
  BY <1>1 DEF Newer

LEMMA AheadFinite ==
  ASSUME NEW items, NEW group, NEW age, Orderly(items, group, age), NEW d
  PROVE  /\ IsFiniteSet(Ahead(items, d, group, age))
         /\ Cardinality(Ahead(items, d, group, age)) \in Nat
<1> DEFINE before == {y \in items : group[y.pkg] = group[d.pkg] /\ Newer(y, d, age)}
           pkgs   == {x.pkg : x \in before}
           f      == [x \in before |-> x.pkg]
<1>1. IsFiniteSet(before)
  BY FS_Subset DEF Orderly
<1>2. f \in Surjection(before, pkgs)
  BY DEF Surjection
<1>3. IsFiniteSet(pkgs)
  BY <1>1, <1>2, FS_Surjection
<1>4. Ahead(items, d, group, age) = pkgs
  BY DEF Ahead
<1>5. QED
  BY <1>3, <1>4, FS_CardinalityType

\* Fewer packages are ahead of an item than of one that comes after it.
LEMMA AheadGrows ==
  ASSUME NEW items, NEW group, NEW age, Orderly(items, group, age),
         NEW x \in items, NEW y \in items, group[x.pkg] = group[y.pkg],
         Newer(x, y, age)
  PROVE  Cardinality(Ahead(items, x, group, age)) < Cardinality(Ahead(items, y, group, age))
<1> DEFINE ax == Ahead(items, x, group, age)
           ay == Ahead(items, y, group, age)
<1>1. ax \subseteq ay
  <2> SUFFICES ASSUME NEW p \in ax PROVE p \in ay
    OBVIOUS
  <2>1. PICK z \in items : group[z.pkg] = group[x.pkg] /\ Newer(z, x, age) /\ p = z.pkg
    BY DEF Ahead
  <2>2. Newer(z, y, age)
    BY <2>1, NewerOrders
  <2>3. QED
    BY <2>1, <2>2 DEF Ahead
<1>2. x.pkg \in ay
  BY DEF Ahead
<1>3. x.pkg \notin ax
  <2> SUFFICES ASSUME x.pkg \in ax PROVE FALSE
    OBVIOUS
  <2>1. PICK z \in items : Newer(z, x, age) /\ x.pkg = z.pkg
    BY DEF Ahead
  <2>2. z = x
    BY <2>1 DEF Orderly
  <2>3. QED
    BY <2>1, <2>2, NewerOrders
<1>4. IsFiniteSet(ax) /\ Cardinality(ax) \in Nat /\ IsFiniteSet(ay) /\ Cardinality(ay) \in Nat
  BY AheadFinite
<1>5. Cardinality(ax) <= Cardinality(ay) /\ Cardinality(ax) # Cardinality(ay)
  BY <1>1, <1>2, <1>3, <1>4, FS_Subset
<1>6. QED
  BY <1>4, <1>5

\* An item is not ahead of itself.
LEMMA AheadBound ==
  ASSUME NEW items, NEW group, NEW age, Orderly(items, group, age), NEW x \in items
  PROVE  Cardinality(Ahead(items, x, group, age))
           < Cardinality(GroupItems(items, group, group[x.pkg]))
<1> DEFINE all  == GroupItems(items, group, group[x.pkg])
           pkgs == {y.pkg : y \in all}
           ax   == Ahead(items, x, group, age)
           f    == [y \in all |-> y.pkg]
<1>1. IsFiniteSet(all)
  BY FS_Subset DEF Orderly, GroupItems
<1>2. f \in Surjection(all, pkgs)
  BY DEF Surjection
<1>3. IsFiniteSet(pkgs) /\ Cardinality(pkgs) <= Cardinality(all)
  BY <1>1, <1>2, FS_Surjection
<1>4. ax \subseteq pkgs
  BY DEF Ahead, GroupItems
<1>5. x.pkg \in pkgs
  BY DEF GroupItems
<1>6. x.pkg \notin ax
  <2> SUFFICES ASSUME x.pkg \in ax PROVE FALSE
    OBVIOUS
  <2>1. PICK z \in items : Newer(z, x, age) /\ x.pkg = z.pkg
    BY DEF Ahead
  <2>2. z = x
    BY <2>1 DEF Orderly
  <2>3. QED
    BY <2>1, <2>2, NewerOrders
<1>7. Cardinality(ax) \in Nat /\ Cardinality(pkgs) \in Nat /\ Cardinality(all) \in Nat
  BY <1>1, <1>3, AheadFinite, FS_CardinalityType
<1>8. Cardinality(ax) <= Cardinality(pkgs) /\ Cardinality(ax) # Cardinality(pkgs)
  BY <1>3, <1>4, <1>5, <1>6, FS_Subset
<1>9. QED
  BY <1>3, <1>7, <1>8

-----------------------------------------------------------------------------
(* The ranks of a group.                                                   *)

Ranks(items, group, age, g) ==
  [x \in GroupItems(items, group, g) |-> Cardinality(Ahead(items, x, group, age))]

\* The ranks of a group of n items are 0 to n - 1.
LEMMA RanksInjective ==
  ASSUME NEW items, NEW group, NEW age, Orderly(items, group, age), NEW g
  PROVE  LET all == GroupItems(items, group, g)
             r   == Ranks(items, group, age, g)
         IN  /\ IsFiniteSet(all)
             /\ Cardinality(all) \in Nat
             /\ r \in Injection(all, 0 .. Cardinality(all) - 1)
             /\ \A j \in 0 .. Cardinality(all) - 1 : \E x \in all : r[x] = j
<1> DEFINE all == GroupItems(items, group, g)
           r   == Ranks(items, group, age, g)
           n   == Cardinality(all)
<1>1. IsFiniteSet(all) /\ n \in Nat
  BY FS_Subset, FS_CardinalityType DEF Orderly, GroupItems
<1>2. \A x \in all : x \in items /\ group[x.pkg] = g
  BY DEF GroupItems
<1>3. ASSUME NEW x \in all PROVE r[x] \in 0 .. n - 1
  <2>1. r[x] \in Nat
    BY AheadFinite DEF Ranks
  <2>2. r[x] < n
    BY <1>2, AheadBound DEF Ranks
  <2>3. QED
    BY <1>1, <2>1, <2>2
<1>4. ASSUME NEW x \in all, NEW y \in all, r[x] = r[y] PROVE x = y
  <2> SUFFICES ASSUME x # y PROVE FALSE
    OBVIOUS
  <2>1. Newer(x, y, age) \/ Newer(y, x, age)
    BY <1>2, NewerOrders
  <2>2. r[x] < r[y] \/ r[y] < r[x]
    BY <1>2, <2>1, AheadGrows DEF Ranks
  <2>3. r[x] \in Nat /\ r[y] \in Nat
    BY <1>1, <1>3
  <2>4. QED
    BY <1>4, <2>2, <2>3
<1>5. r \in [all -> 0 .. n - 1]
  BY <1>3 DEF Ranks
<1>6. r \in Injection(all, 0 .. n - 1)
  BY <1>4, <1>5 DEF Injection, IsInjective
<1>7. IsFiniteSet(0 .. n - 1) /\ Cardinality(0 .. n - 1) = n
  <2>1. 0 \in Int /\ n - 1 \in Int
    BY <1>1
  <2>2. /\ IsFiniteSet(0 .. n - 1)
        /\ Cardinality(0 .. n - 1) = IF 0 > n - 1 THEN 0 ELSE n - 1 - 0 + 1
    BY <2>1, FS_Interval
  <2>3. QED
    BY <1>1, <2>2
<1>8. r \in Surjection(all, 0 .. n - 1)
  BY <1>6, <1>7, FS_Injection
<1>9. QED
  BY <1>1, <1>6, <1>8 DEF Surjection

\* Retention keeps no more than keep items of a group; only a group that is full
\* loses anything, and what it loses comes after all that it keeps, older or as
\* old and later in the slice (retention.Prune).
THEOREM RetainsNewest ==
  ASSUME NEW items, NEW group, NEW age, NEW keep \in Nat, Orderly(items, group, age)
  PROVE  LET left == Retain(items, keep, group, age)
         IN  /\ \A g : /\ IsFiniteSet(GroupItems(left, group, g))
                       /\ Cardinality(GroupItems(left, group, g)) <= keep
             /\ \A d \in items \ left :
                  /\ Cardinality(GroupItems(left, group, group[d.pkg])) = keep
                  /\ \A e \in GroupItems(left, group, group[d.pkg]) : Newer(e, d, age)
<1> DEFINE left     == Retain(items, keep, group, age)
           all(g)   == GroupItems(items, group, g)
           stay(g)  == GroupItems(left, group, g)
           ranks(g) == Ranks(items, group, age, g)
           r(g)     == [x \in stay(g) |-> ranks(g)[x]]
<1>1. \A g : stay(g) = {x \in all(g) : ranks(g)[x] < keep}
  BY DEF Retain, GroupItems, Ranks
<1>2. ASSUME NEW g
      PROVE  /\ IsFiniteSet(all(g))
             /\ Cardinality(all(g)) \in Nat
             /\ ranks(g) \in [all(g) -> 0 .. Cardinality(all(g)) - 1]
             /\ \A x, y \in all(g) : ranks(g)[x] = ranks(g)[y] => x = y
             /\ \A j \in 0 .. Cardinality(all(g)) - 1 : \E x \in all(g) : ranks(g)[x] = j
  <2>1. ranks(g) \in Injection(all(g), 0 .. Cardinality(all(g)) - 1)
    BY RanksInjective
  <2>2. /\ ranks(g) \in [all(g) -> 0 .. Cardinality(all(g)) - 1]
        /\ \A x, y \in all(g) : ranks(g)[x] = ranks(g)[y] => x = y
    BY <2>1 DEF Injection, IsInjective
  <2>3. QED
    BY <2>2, RanksInjective
<1>3. IsFiniteSet(0 .. keep - 1) /\ Cardinality(0 .. keep - 1) = keep
  <2>1. 0 \in Int /\ keep - 1 \in Int
    OBVIOUS
  <2>2. /\ IsFiniteSet(0 .. keep - 1)
        /\ Cardinality(0 .. keep - 1) = IF 0 > keep - 1 THEN 0 ELSE keep - 1 - 0 + 1
    BY <2>1, FS_Interval
  <2>3. QED
    BY <2>2
<1>4. ASSUME NEW g PROVE r(g) \in Injection(stay(g), 0 .. keep - 1)
  <2>1. \A x \in stay(g) : ranks(g)[x] \in 0 .. keep - 1
    BY <1>1, <1>2
  <2>2. \A x, y \in stay(g) : ranks(g)[x] = ranks(g)[y] => x = y
    BY <1>1, <1>2
  <2>3. QED
    BY <2>1, <2>2 DEF Injection, IsInjective
<1>5. ASSUME NEW g PROVE IsFiniteSet(stay(g)) /\ Cardinality(stay(g)) <= keep
  <2>1. r(g) \in Injection(stay(g), 0 .. keep - 1)
    BY <1>4
  <2> HIDE DEF r, stay
  <2>2. IsFiniteSet(stay(g)) /\ Cardinality(stay(g)) <= Cardinality(0 .. keep - 1)
    BY <1>3, <2>1, FS_Injection
  <2>3. QED
    BY <1>3, <2>2
<1>6. ASSUME NEW d \in items \ left
      PROVE  /\ Cardinality(stay(group[d.pkg])) = keep
             /\ \A e \in stay(group[d.pkg]) : Newer(e, d, age)
  <2> DEFINE g == group[d.pkg]
             n == Cardinality(all(g))
  <2>1. d \in all(g) /\ ranks(g)[d] >= keep /\ ranks(g)[d] \in 0 .. n - 1
    <3>1. d \in all(g)
      BY DEF GroupItems
    <3>2. ranks(g)[d] \in 0 .. n - 1
      BY <1>2, <3>1
    <3>3. ~ (ranks(g)[d] < keep)
      BY <1>1, <3>1 DEF GroupItems, Retain, Ranks
    <3>4. QED
      BY <3>1, <3>2, <3>3
  <2>2. keep <= n - 1 /\ n \in Nat
    BY <1>2, <2>1
  <2>3. ASSUME NEW j \in 0 .. keep - 1 PROVE \E x \in stay(g) : r(g)[x] = j
    <3>1. j \in 0 .. n - 1
      BY <2>2
    <3>2. PICK x \in all(g) : ranks(g)[x] = j
      BY <1>2, <3>1
    <3>3. x \in stay(g)
      BY <1>1, <3>2
    <3>4. QED
      BY <3>2, <3>3
  <2>4. r(g) \in Surjection(stay(g), 0 .. keep - 1)
    BY <1>4, <2>3 DEF Surjection, Injection
  <2>5. Cardinality(stay(g)) = keep
    BY <1>3, <1>4, <2>4, FS_Injection
  <2>6. ASSUME NEW e \in stay(g) PROVE Newer(e, d, age)
    <3>1. e \in all(g) /\ ranks(g)[e] < keep
      BY <1>1
    <3>2. e \in items /\ d \in items /\ group[e.pkg] = group[d.pkg] /\ e # d
      BY <2>1, <3>1 DEF GroupItems, Retain
    <3>3. ASSUME Newer(d, e, age) PROVE FALSE
      <4>1. ranks(g)[d] < ranks(g)[e]
        BY <2>1, <3>1, <3>2, <3>3, AheadGrows DEF Ranks
      <4>2. ranks(g)[e] \in Nat
        BY <1>2, <3>1
      <4>3. QED
        BY <2>1, <2>2, <3>1, <4>1, <4>2
    <3>4. QED
      BY <3>2, <3>3, NewerOrders
  <2>7. QED
    BY <2>5, <2>6
<1>7. QED
  BY <1>5, <1>6

=============================================================================
