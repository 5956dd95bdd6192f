-------------------------- MODULE YumRepositoryProofs --------------------------
(***************************************************************************)
(* The yum publisher implements Repository, whatever is interrupted: what  *)
(* it publishes is what retention may leave of one addition to the         *)
(* manifest, or what one removal leaves of it.  On the way: dnf is never   *)
(* shown more than Keep versions of a package and architecture, and Add    *)
(* prunes an .rpm only while Keep others, none of them older, stay.  And   *)
(* what a dnf client sees meanwhile.                                       *)
(***************************************************************************)
EXTENDS YumRepository, YumClients, YumPublisherProofs, RetentionProofs

-----------------------------------------------------------------------------
(* The places of the entries.                                              *)

\* No two entries of a name and architecture are at one place.
Spaced(c) == \A d, e \in c : SameGroup(d, e) /\ d.at = e.at => d = e

\* A manifest: no place is beyond its length, so that a new entry comes last.
Written(c) == Spaced(c) /\ \A e \in c : e.at <= Cardinality(c)

LEMMA ReplaceOrAppendSpaced ==
  ASSUME NEW c \in Contents, Written(c), NEW o \in AddOps
  PROVE  Spaced(ReplaceOrAppend(c, o))
<1>1. Cardinality(c) \in Nat /\ \A e \in c : e.at \in Nat /\ e.at <= Cardinality(c)
  BY FS_CardinalityType DEF Contents, Entries, Written
<1>2. \A e \in c : e.at # Cardinality(c) + 1
  BY <1>1
<1>3. QED
  BY <1>2 DEF ReplaceOrAppend, Written, Spaced

\* What sorting makes of the places, whichever order equal packages come out in.
LEMMA SortWritten ==
  ASSUME NEW c \in Contents, NEW f \in Places(c)
  PROVE  Written({[e EXCEPT !.at = f[e]] : e \in c})
<1> DEFINE Moved(e) == [e EXCEPT !.at = f[e]]
           sorted   == {Moved(e) : e \in c}
           g        == [e \in c |-> Moved(e)]
<1>1. IsFiniteSet(c) /\ Cardinality(c) \in Nat
  BY FS_CardinalityType DEF Contents
<1>2. ASSUME NEW e \in c
      PROVE  Moved(e).pkg = e.pkg /\ Moved(e).at = f[e] /\ f[e] \in 1 .. Cardinality(c)
  BY DEF Contents, Entries, Places
<1>3. ASSUME NEW d \in c, NEW e \in c, d.pkg.name = e.pkg.name, d.pkg.arch = e.pkg.arch,
             f[d] = f[e]
      PROVE  d = e
  BY <1>3 DEF Places, SameGroup
<1>4. Cardinality(sorted) = Cardinality(c)
  <2>1. g \in [c -> sorted] /\ \A t \in sorted : \E x \in c : g[x] = t
    OBVIOUS
  <2>2. \A d, e \in c : g[d] = g[e] => d = e
    <3>1. \A d, e \in c : Moved(d) = Moved(e) => d.pkg = e.pkg
      BY <1>2
    <3>2. QED
      BY <3>1 DEF Contents
  <2> HIDE DEF g, sorted
  <2>3. QED
    BY <1>1, <2>1, <2>2, SameNumber
<1>5. Spaced(sorted)
  <2> SUFFICES ASSUME NEW x \in c, NEW y \in c,
                      SameGroup(Moved(x), Moved(y)), Moved(x).at = Moved(y).at
               PROVE  x = y
    BY DEF Spaced
  <2>1. x.pkg.name = y.pkg.name /\ x.pkg.arch = y.pkg.arch /\ f[x] = f[y]
    BY <1>2 DEF SameGroup
  <2>2. QED
    BY <1>3, <2>1
<1>6. \A e \in sorted : e.at <= Cardinality(sorted)
  <2> HIDE DEF Moved
  <2>1. \A e \in c : Moved(e).at <= Cardinality(c)
    BY <1>1, <1>2
  <2>2. QED
    BY <1>4, <2>1
<1>7. QED
  BY <1>5, <1>6 DEF Written

\* Entries at different places are the items of a slice.
LEMMA ContentsOrderly ==
  ASSUME NEW c \in Contents, Spaced(c)
  PROVE  Orderly(c, GroupOf, AgeOf)
<1>1. \A e \in c : /\ e.pkg \in Packages /\ e.at \in Nat
                   /\ AgeOf[e.pkg] \in Nat
                   /\ GroupOf[e.pkg] = <<e.pkg.name, e.pkg.arch>>
  BY RankAssumption DEF Contents, Entries, AgeOf, GroupOf, Packages
<1>2. \A d, e \in c : d.pkg = e.pkg => d = e
  BY DEF Contents
<1>3. \A d, e \in c : GroupOf[d.pkg] = GroupOf[e.pkg] => SameGroup(d, e)
  BY <1>1 DEF SameGroup
<1>4. IsFiniteSet(c)
  BY DEF Contents
<1>5. QED
  BY <1>1, <1>2, <1>3, <1>4 DEF Spaced, Orderly

\* The manifest's places, and those of what is to be published.
OrderInv ==
  /\ WriteInv
  /\ Written(manifest)
  /\ pc \in Publishing \cup {"cleanup"} => Written(entries)

LEMMA IntendedOrderly ==
  ASSUME OrderInv, op \in AddOps \cup RemoveOps
  PROVE  Intended(manifest, op) \in Contents /\ Spaced(Intended(manifest, op))
<1>1. manifest \in Contents /\ Written(manifest)
  BY DEF OrderInv, WriteInv, RepomdInv, TypeInv, TypeOK
<1>2. CASE op \in AddOps
  <2> DEFINE items == ReplaceOrAppend(manifest, op)
  <2>1. items \in Contents /\ Spaced(items)
    BY <1>1, <1>2, ReplaceOrAppendType, ReplaceOrAppendSpaced
  <2>2. Intended(manifest, op) = Prune(items)
    BY <1>2 DEF Intended
  <2> HIDE DEF items
  <2>3. QED
    BY <2>1, <2>2, PruneSubset, SubContents DEF Spaced
<1>3. CASE op \notin AddOps
  <2>1. Intended(manifest, op) \subseteq manifest
    BY <1>3 DEF Intended
  <2>2. QED
    BY <1>1, <2>1, SubContents DEF Written, Spaced
<1>4. QED
  BY <1>2, <1>3

LEMMA OrderInit == Init => OrderInv
<1>1. Written({})
  BY DEF Written, Spaced
<1>2. QED
  BY <1>1, WriteInit DEF Init, OrderInv, Publishing, Types

LEMMA OrderStep == OrderInv /\ [Next]_vars => OrderInv'
<1> SUFFICES ASSUME OrderInv, [Next]_vars
             PROVE  OrderInv'
  OBVIOUS
<1> USE DEF OrderInv
<1>1. WriteInv'
  BY WriteStep
<1>2. CASE SortEntries
  <2>1. entries \in Contents /\ UNCHANGED manifest
    BY <1>2 DEF SortEntries, bucket, WriteInv, RepomdInv, TypeInv, TypeOK
  <2>2. Written(entries')
    BY <1>2, <2>1, SortWritten DEF SortEntries
  <2>3. QED
    BY <1>1, <2>1, <2>2 DEF Written, Spaced
<1>3. CASE SaveState
  <2>1. manifest' = entries /\ UNCHANGED entries /\ pc = "saveState"
    BY <1>3 DEF SaveState
  <2>2. QED
    BY <1>1, <2>1 DEF Publishing, Written, Spaced
<1>4. CASE ~ SortEntries /\ ~ SaveState
  <2>1. UNCHANGED manifest
    BY <1>4 DEF Next, Step, vars, bucket, BeginAdd, BeginRemove, Start, Upload, UpdateState,
       DropVersion, NothingToDrop, DeleteRpm, WriteMeta, PutRepomd, SignRepomd,
       CleanupMetadata, Return, Fail, Finish
  <2>2. pc' \in Publishing \cup {"cleanup"}
         => pc \in Publishing \cup {"cleanup"} /\ UNCHANGED entries
    BY <1>4 DEF Next, Step, vars, bucket, BeginAdd, BeginRemove, Start, Upload, UpdateState,
       DropVersion, NothingToDrop, DeleteRpm, WriteMeta, PutRepomd, SignRepomd,
       CleanupMetadata, Return, Fail, Finish, AfterMeta, AfterRepomd, Publishing, Types
  <2>3. QED
    BY <1>1, <2>1, <2>2 DEF Written, Spaced
<1>5. QED
  BY <1>2, <1>3, <1>4

LEMMA OrderInvariance == Spec => []OrderInv
<1>1. QED
  BY OrderInit, OrderStep, PTL DEF Spec

-----------------------------------------------------------------------------
(* Retention.                                                              *)

\* The entries of a name and architecture.
Of(c, n, a) == {e \in c : e.pkg.name = n /\ e.pkg.arch = a}

\* No package has more than Keep entries.
Bounded(c) ==
  Keep > 0 => \A n, a : IsFiniteSet(Of(c, n, a)) /\ Cardinality(Of(c, n, a)) <= Keep

\* They are a retention group.
LEMMA GroupOfName ==
  ASSUME NEW c \in Contents, NEW n, NEW a
  PROVE  GroupItems(c, GroupOf, <<n, a>>) = Of(c, n, a)
<1>1. \A e \in c : GroupOf[e.pkg] = <<e.pkg.name, e.pkg.arch>>
  BY DEF Contents, Entries, GroupOf
<1>2. QED
  BY <1>1 DEF GroupItems, Of

LEMMA PruneBounded ==
  ASSUME NEW c \in Contents, Spaced(c)
  PROVE  Bounded(Prune(c))
<1> SUFFICES ASSUME Keep > 0, NEW n, NEW a
             PROVE  LET group == Of(Prune(c), n, a)
                    IN  IsFiniteSet(group) /\ Cardinality(group) <= Keep
  BY DEF Bounded
<1>1. Prune(c) = Retain(c, Keep, GroupOf, AgeOf) /\ Prune(c) \in Contents
  BY PruneSubset, SubContents DEF Prune
<1>2. Of(Prune(c), n, a) = GroupItems(Prune(c), GroupOf, <<n, a>>)
  BY <1>1, GroupOfName
<1>3. Orderly(c, GroupOf, AgeOf)
  BY ContentsOrderly
<1>4. LET group == GroupItems(Retain(c, Keep, GroupOf, AgeOf), GroupOf, <<n, a>>)
      IN  IsFiniteSet(group) /\ Cardinality(group) <= Keep
  BY <1>3, RetainsNewest, KeepAssumption
<1>5. QED
  BY <1>1, <1>2, <1>4

\* Fewer entries stay within the bound.
LEMMA BoundedSubset ==
  ASSUME NEW c, Bounded(c), NEW d, d \subseteq c
  PROVE  Bounded(d)
<1> SUFFICES ASSUME Keep > 0, NEW n, NEW a
             PROVE  IsFiniteSet(Of(d, n, a)) /\ Cardinality(Of(d, n, a)) <= Keep
  BY DEF Bounded
<1>1. IsFiniteSet(Of(c, n, a)) /\ Cardinality(Of(c, n, a)) <= Keep
  BY DEF Bounded
<1>2. IsFiniteSet(Of(d, n, a)) /\ Cardinality(Of(d, n, a)) <= Cardinality(Of(c, n, a))
  <2>1. Of(d, n, a) \subseteq Of(c, n, a)
    BY DEF Of
  <2>2. QED
    BY <1>1, <2>1, FS_Subset
<1>3. Cardinality(Of(d, n, a)) \in Nat /\ Cardinality(Of(c, n, a)) \in Nat
  BY <1>1, <1>2, FS_CardinalityType
<1>4. QED
  BY <1>1, <1>2, <1>3, KeepAssumption

\* And so do the same entries at other places.
LEMMA SortBounded ==
  ASSUME NEW c \in Contents, Bounded(c), NEW f \in Places(c)
  PROVE  Bounded({[e EXCEPT !.at = f[e]] : e \in c})
<1> DEFINE Moved(e) == [e EXCEPT !.at = f[e]]
           sorted   == {Moved(e) : e \in c}
<1> SUFFICES ASSUME Keep > 0, NEW n, NEW a
             PROVE  IsFiniteSet(Of(sorted, n, a)) /\ Cardinality(Of(sorted, n, a)) <= Keep
  BY DEF Bounded
<1> DEFINE here  == Of(c, n, a)
           there == Of(sorted, n, a)
           g     == [e \in here |-> Moved(e)]
<1>1. IsFiniteSet(here) /\ Cardinality(here) <= Keep
  BY DEF Bounded
<1>2. \A e \in c : Moved(e).pkg = e.pkg
  BY DEF Contents, Entries
<1>3. there = {Moved(e) : e \in here}
  <2> HIDE DEF Moved
  <2>1. QED
    BY <1>2 DEF Of
<1>4. g \in Surjection(here, there)
  BY <1>3 DEF Surjection
<1> HIDE DEF g, here, there
<1>5. IsFiniteSet(there) /\ Cardinality(there) <= Cardinality(here)
  BY <1>1, <1>4, FS_Surjection
<1>6. Cardinality(there) \in Nat /\ Cardinality(here) \in Nat
  BY <1>1, <1>5, FS_CardinalityType
<1>7. QED
  BY <1>1, <1>5, <1>6, KeepAssumption DEF there

BoundInv ==
  /\ OrderInv
  /\ Bounded(manifest) /\ Bounded(Listed)
  /\ pc \in Publishing => Bounded(entries)

LEMMA IntendedBounded ==
  ASSUME BoundInv, op \in AddOps \cup RemoveOps
  PROVE  Bounded(Intended(manifest, op))
<1>1. manifest \in Contents /\ Written(manifest) /\ Bounded(manifest)
  BY DEF BoundInv, OrderInv, WriteInv, RepomdInv, TypeInv, TypeOK
<1>2. CASE op \in AddOps
  <2> DEFINE items == ReplaceOrAppend(manifest, op)
  <2>1. items \in Contents /\ Spaced(items)
    BY <1>1, <1>2, ReplaceOrAppendType, ReplaceOrAppendSpaced
  <2> HIDE DEF items
  <2>2. Bounded(Prune(items))
    BY <2>1, PruneBounded
  <2>3. QED
    BY <1>2, <2>2 DEF Intended, items
<1>3. CASE op \notin AddOps
  <2>1. Intended(manifest, op) \subseteq manifest
    BY <1>3 DEF Intended
  <2>2. QED
    BY <1>1, <2>1, BoundedSubset
<1>4. QED
  BY <1>2, <1>3

LEMMA BoundInit == Init => BoundInv
<1>1. Bounded({})
  <2>1. \A n, a : Of({}, n, a) = {}
    BY DEF Of
  <2>2. QED
    BY <2>1, FS_EmptySet, KeepAssumption DEF Bounded
<1>2. QED
  BY <1>1, OrderInit DEF Init, BoundInv, Listed, Publishing, Types

LEMMA BoundStep == BoundInv /\ [Next]_vars => BoundInv'
<1> SUFFICES ASSUME BoundInv, [Next]_vars
             PROVE  BoundInv'
  OBVIOUS
<1>1. OrderInv' /\ OrderInv /\ Bounded(manifest) /\ Bounded(Listed)
  BY OrderStep DEF BoundInv
<1>2. CASE SortEntries
  <2>1. /\ entries \in Contents /\ entries = Intended(manifest, op)
        /\ op \in AddOps \cup RemoveOps
    BY <1>1, <1>2 DEF SortEntries, OrderInv, WriteInv, RewriteOK, RepomdInv, TypeInv, TypeOK,
       ControlOK
  <2>2. Bounded(entries)
    BY <2>1, IntendedBounded
  <2>3. Bounded(entries')
    BY <1>2, <2>1, <2>2, SortBounded DEF SortEntries
  <2>4. manifest' = manifest /\ Listed' = Listed
    BY <1>2 DEF SortEntries, bucket, Listed
  <2>5. QED
    BY <1>1, <2>3, <2>4 DEF BoundInv
<1>3. CASE PutRepomd
  <2>1. /\ pc = "repomd" /\ UNCHANGED <<manifest, entries>>
        /\ repomd' = [revision |-> ops, entries |-> entries]
    BY <1>3 DEF PutRepomd
  <2>2. repomd' \in Repomds
    BY <1>1, <2>1 DEF Repomds, OrderInv, WriteInv, RepomdInv, TypeInv, TypeOK
  <2>3. Listed' = entries
    BY <2>1, <2>2, NoneAssumption DEF Listed
  <2>4. Bounded(entries)
    BY <2>1 DEF BoundInv, Publishing
  <2>5. QED
    BY <1>1, <2>1, <2>3, <2>4 DEF BoundInv
<1>4. CASE SaveState
  <2>1. /\ pc = "saveState" /\ pc' = "cleanup" /\ manifest' = entries
        /\ repomd' = repomd
    BY <1>4 DEF SaveState
  <2>2. Bounded(entries)
    BY <2>1 DEF BoundInv, Publishing
  <2>3. Listed' = Listed
    BY <2>1 DEF Listed
  <2>4. QED
    BY <1>1, <2>1, <2>2, <2>3 DEF BoundInv, Publishing, Types
<1>5. CASE ~ SortEntries /\ ~ PutRepomd /\ ~ SaveState
  <2>1. UNCHANGED <<manifest, repomd>>
    BY <1>5 DEF Next, Step, vars, bucket, BeginAdd, BeginRemove, Start, Upload, UpdateState,
       DropVersion, NothingToDrop, DeleteRpm, WriteMeta, SignRepomd, CleanupMetadata, Return,
       Fail, Finish
  <2>2. pc' \in Publishing => pc \in Publishing /\ UNCHANGED entries
    BY <1>5 DEF Next, Step, vars, bucket, BeginAdd, BeginRemove, Start, Upload, UpdateState,
       DropVersion, NothingToDrop, DeleteRpm, WriteMeta, SignRepomd, CleanupMetadata, Return,
       Fail, Finish, AfterMeta, AfterRepomd, Publishing, Types
  <2>3. Listed' = Listed
    BY <2>1 DEF Listed
  <2>4. QED
    BY <1>1, <2>1, <2>2, <2>3 DEF BoundInv
<1>6. QED
  BY <1>2, <1>3, <1>4, <1>5

LEMMA BoundInvariance == Spec => []BoundInv
<1>1. QED
  BY BoundInit, BoundStep, PTL DEF Spec

\* dnf is never shown more than KeepVersions versions of a package and
\* architecture, at any step and whatever was interrupted before: retention is
\* applied to all of what is there and what is added, before repomd.xml is
\* written (Add, publish).
THEOREM RetentionHolds == Spec => []RetentionBound
<1>1. BoundInv => RetentionBound
  BY DEF BoundInv, Bounded, Of, RetentionBound
<1>2. QED
  BY <1>1, BoundInvariance, PTL

-----------------------------------------------------------------------------
(* What is pruned.                                                         *)

\* A file that is there is that of its entry in c.
Fits(files, c) ==
  \A e \in c : LocationOf(e.pkg) \in DOMAIN files => Holds(files, LocationOf(e.pkg), RpmOf(e))

\* The entries of c that an Add leaves where they are.
Others(c, o) == {e \in c : LocationOf(e.pkg) # LocationOf(o.pkg)}

\* The location of a file tells its name and version.
LocationsOK == \A l \in DOMAIN rpms : LocationOf(rpms[l].pkg) = l

\* The file of an entry that is to go is the one its entry describes: no file of
\* another epoch has taken its place.
SurplusOK ==
  /\ IsFiniteSet(DOMAIN rpms)
  /\ LocationsOK
  /\ AddPending => Fits(rpms, Others(manifest, op))
  /\ pc = "rewrite" /\ op \in AddOps => Fits(rpms, doomed)

SurplusInv == FilesInv /\ BoundInv /\ SurplusOK

LEMMA SurplusInit == RetryFirst /\ Init => SurplusInv
<1>1. Init => IsFiniteSet(DOMAIN rpms) /\ LocationsOK
  BY FS_EmptySet DEF Init, Empty, LocationsOK
<1>2. QED
  BY <1>1, FilesInit, BoundInit DEF Init, SurplusInv, SurplusOK, AddPending, AddOps

LEMMA SurplusFiles ==
  ASSUME IsFiniteSet(DOMAIN rpms), LocationsOK, [Next]_vars
  PROVE  IsFiniteSet(DOMAIN rpms') /\ LocationsOK'
<1>1. \/ UNCHANGED rpms
      \/ rpms' = Put(rpms, LocationOf(op.pkg), RpmOf(op))
      \/ \E k : rpms' = Delete(rpms, k)
  BY DEF Next, Step, vars, bucket, BeginAdd, BeginRemove, Start, Upload, UpdateState,
     DropVersion, NothingToDrop, DeleteRpm, SortEntries, WriteMeta, PutRepomd, SignRepomd,
     SaveState, CleanupMetadata, Return, Fail, Finish
<1>2. ASSUME NEW k
      PROVE  IsFiniteSet(DOMAIN rpms \cup {k}) /\ IsFiniteSet(DOMAIN rpms \ {k})
  BY FS_AddElement, FS_RemoveElement
<1>3. IsFiniteSet(DOMAIN rpms')
  BY <1>1, <1>2 DEF Put, Delete
<1>4. LocationsOK'
  <2>1. RpmOf(op).pkg = op.pkg
    BY DEF RpmOf
  <2>2. CASE rpms' = Put(rpms, LocationOf(op.pkg), RpmOf(op))
    <3> SUFFICES ASSUME NEW l \in DOMAIN rpms'
                 PROVE  LocationOf(rpms'[l].pkg) = l
      BY DEF LocationsOK
    <3>1. \/ l = LocationOf(op.pkg) /\ rpms'[l] = RpmOf(op)
          \/ l \in DOMAIN rpms /\ rpms'[l] = rpms[l]
      BY <2>2 DEF Put
    <3>2. QED
      BY <2>1, <3>1 DEF LocationsOK
  <2>3. CASE \E k : rpms' = Delete(rpms, k)
    BY <2>3 DEF LocationsOK, Delete
  <2>4. QED
    BY <1>1, <2>2, <2>3 DEF LocationsOK
<1>5. QED
  BY <1>3, <1>4

\* An Add that is interrupted leaves the files that it finds when it is run again.
LEMMA SurplusFail ==
  ASSUME SurplusInv, Fail, op \in AddOps
  PROVE  Fits(rpms, Others(manifest, op))
<1> DEFINE items == ReplaceOrAppend(manifest, op)
<1>1. pc # "idle" /\ pc # "dropVersion"
  BY DEF Fail, SurplusInv, FilesInv, AgreeInv, WriteInv, RepomdInv, TypeInv, ControlOK,
     AddOps, RemoveOps
<1>2. CASE pc \in {"upload", "updateState"}
  BY <1>2 DEF SurplusInv, SurplusOK, AddPending
<1>3. CASE pc = "cleanup"
  <2>1. Match(rpms, manifest, manifest)
    BY <1>3, CleanupAgrees DEF SurplusInv, FilesInv, FilesOK, Rewriting, AgreeInv, WriteInv,
       RewriteOK
  <2>2. QED
    BY <2>1 DEF Match, Fits, Others
<1>4. CASE pc \in {"rewrite"} \cup Publishing
  <2> DEFINE left == Intended(manifest, op)
  <2>1. Match(rpms, entries, entries \cup doomed)
    BY <1>4 DEF SurplusInv, FilesInv, FilesOK, Rewriting, Publishing, Types
  <2>2. /\ RpmsOf(entries) = RpmsOf(left) /\ doomed \subseteq Dropped(manifest, op)
        /\ Fits(rpms, doomed)
    BY <1>4 DEF SurplusInv, SurplusOK, FilesInv, AgreeInv, WriteInv, RewriteOK, Publishing,
       Types, Fits
  <2>3. left \subseteq items /\ doomed \subseteq items /\ items \in Contents
    BY <2>2, PruneSubset, ReplaceOrAppendType DEF Intended, Dropped, Surplus, SurplusInv,
       FilesInv, AgreeInv, WriteInv, RepomdInv, TypeInv, TypeOK
  <2>4. Others(manifest, op) \subseteq items
    BY DEF Others, ReplaceOrAppend
  <2> HIDE DEF items, left
  <2>5. SUFFICES ASSUME NEW e \in items, LocationOf(e.pkg) \in DOMAIN rpms
                 PROVE  Holds(rpms, LocationOf(e.pkg), RpmOf(e))
    BY <2>4 DEF Fits
  <2>6. PICK x \in entries \cup doomed : LocationOf(x.pkg) = LocationOf(e.pkg)
    BY <2>1, <2>5 DEF Match
  <2>7. CASE x \in doomed
    <3>1. x = e
      BY <2>3, <2>6, <2>7 DEF Contents
    <3>2. QED
      BY <2>2, <2>5, <2>7, <3>1 DEF Fits
  <2>8. CASE x \in entries
    <3>1. PICK y \in left : y.pkg = x.pkg /\ y.build = x.build
      BY <2>2, <2>8, SameRpms
    <3>2. y = e
      BY <2>3, <2>6, <3>1 DEF Contents
    <3>3. QED
      BY <2>1, <2>8, <3>1, <3>2 DEF Match, RpmOf
  <2>9. QED
    BY <2>6, <2>7, <2>8
<1>5. QED
  BY <1>1, <1>2, <1>3, <1>4 DEF SurplusInv, FilesInv, AgreeInv, WriteInv, RepomdInv,
     TypeInv, TypeOK, Steps, Publishing, Types

LEMMA SurplusStep == SurplusInv /\ [Next]_vars => SurplusInv'
<1> SUFFICES ASSUME SurplusInv, [Next]_vars
             PROVE  SurplusInv'
  OBVIOUS
<1>1. FilesInv' /\ BoundInv' /\ IsFiniteSet(DOMAIN rpms') /\ LocationsOK'
  BY FilesStep, BoundStep, SurplusFiles DEF SurplusInv, SurplusOK
<1>2. CASE \E o \in AddOps : BeginAdd(o)
  <2>1. /\ pc = "idle" /\ pc' = "upload" /\ op' \in AddOps /\ UNCHANGED <<rpms, manifest>>
        /\ outcome = "failed" => op' = op
    BY <1>2 DEF BeginAdd, Start, Admissible, bucket, SurplusInv, FilesInv, AgreeInv
  <2>2. Fits(rpms, Others(manifest, op'))
    <3>1. CASE outcome = "failed"
      BY <2>1, <3>1 DEF SurplusInv, SurplusOK, AddPending
    <3>2. CASE outcome # "failed"
      <4>1. Match(rpms, manifest, manifest)
        BY <2>1, <3>2 DEF SurplusInv, FilesInv, FilesOK, Settled
      <4>2. QED
        BY <4>1 DEF Match, Fits, Others
    <3>3. QED
      BY <3>1, <3>2
  <2>3. QED
    BY <1>1, <2>1, <2>2 DEF SurplusInv, SurplusOK
<1>3. CASE Upload
  <2>1. /\ rpms' = Put(rpms, LocationOf(op.pkg), RpmOf(op))
        /\ pc = "upload" /\ pc' = "updateState" /\ UNCHANGED <<manifest, op>>
    BY <1>3 DEF Upload
  <2>2. Fits(rpms, Others(manifest, op))
    BY <2>1 DEF SurplusInv, SurplusOK, AddPending, FilesInv, AgreeInv, WriteInv, RepomdInv,
       TypeInv, ControlOK
  <2>3. Fits(rpms', Others(manifest, op))
    BY <2>1, <2>2 DEF Fits, Others, Put, Holds
  <2>4. QED
    BY <1>1, <2>1, <2>3 DEF SurplusInv, SurplusOK
<1>4. CASE UpdateState
  <2>1. /\ pc = "updateState" /\ pc' = "rewrite" /\ UNCHANGED <<rpms, op>>
        /\ doomed' \subseteq ReplaceOrAppend(manifest, op)
    BY <1>4 DEF UpdateState, bucket, Surplus
  <2>2. /\ Fits(rpms, Others(manifest, op))
        /\ Holds(rpms, LocationOf(op.pkg), RpmOf(op))
    BY <2>1 DEF SurplusInv, SurplusOK, AddPending, FilesInv, FilesOK, AgreeInv, WriteInv,
       RepomdInv, TypeInv, ControlOK
  <2>3. ASSUME NEW e \in doomed', LocationOf(e.pkg) \in DOMAIN rpms
        PROVE  Holds(rpms, LocationOf(e.pkg), RpmOf(e))
    <3>1. CASE e \in Others(manifest, op)
      BY <2>2, <2>3, <3>1 DEF Fits
    <3>2. CASE e \notin Others(manifest, op)
      <4>1. e.pkg = op.pkg /\ e.build = op.build
        BY <2>1, <3>2 DEF Others, ReplaceOrAppend
      <4>2. QED
        BY <2>2, <4>1 DEF RpmOf
    <3>3. QED
      BY <3>1, <3>2
  <2>4. QED
    BY <1>1, <2>1, <2>3 DEF SurplusInv, SurplusOK, Fits, AddPending
<1>5. CASE DeleteRpm
  <2>1. PICK d \in doomed :
          /\ rpms' = Delete(rpms, LocationOf(d.pkg))
          /\ doomed' = doomed \ {d}
    BY <1>5 DEF DeleteRpm
  <2>2. pc = "rewrite" /\ UNCHANGED <<pc, op>>
    BY <1>5 DEF DeleteRpm
  <2>3. op \in AddOps => Fits(rpms', doomed')
    BY <2>1, <2>2 DEF SurplusInv, SurplusOK, Fits, Delete, Holds
  <2>4. QED
    BY <1>1, <2>2, <2>3 DEF SurplusInv, SurplusOK, AddPending
<1>6. CASE Fail
  <2>1. pc' = "idle" /\ UNCHANGED <<rpms, manifest, op>>
    BY <1>6 DEF Fail, Finish, bucket
  <2>2. QED
    BY <1>1, <1>6, <2>1, SurplusFail DEF SurplusInv, SurplusOK, AddPending
<1>7. CASE \/ \E o \in RemoveOps : BeginRemove(o)
           \/ DropVersion \/ NothingToDrop \/ SortEntries \/ WriteMeta \/ PutRepomd
           \/ SignRepomd \/ SaveState \/ CleanupMetadata \/ Return
  <2>1. /\ pc' \notin {"upload", "updateState"}
        /\ pc' = "idle" => outcome' # "failed"
        /\ pc' = "rewrite" => op' \in RemoveOps
    BY <1>7 DEF BeginRemove, Start, DropVersion, NothingToDrop, SortEntries, WriteMeta,
       PutRepomd, SignRepomd, SaveState, CleanupMetadata, Return, Finish, AfterMeta,
       AfterRepomd, Types, SurplusInv, FilesInv, AgreeInv, WriteInv, RepomdInv, TypeInv,
       ControlOK
  <2>2. op' \in RemoveOps => op' \notin AddOps
    BY DEF AddOps, RemoveOps
  <2>3. QED
    BY <1>1, <2>1, <2>2 DEF SurplusInv, SurplusOK, AddPending
<1>8. CASE UNCHANGED vars
  BY <1>1, <1>8 DEF vars, bucket, SurplusInv, SurplusOK, AddPending
<1>9. QED
  BY <1>2, <1>3, <1>4, <1>5, <1>6, <1>7, <1>8 DEF Next, Step

\* What retention takes out makes room for Keep others, whose files are there.
LEMMA NewerRpmsStay ==
  ASSUME SurplusInv, pc = "rewrite", op \in AddOps, NEW d \in doomed
  PROVE  Keep > 0 /\ Cardinality(NewerRpms(d.pkg) \ {RpmOf(d)}) >= Keep
<1> DEFINE items  == ReplaceOrAppend(manifest, op)
           group  == GroupItems(entries, GroupOf, GroupOf[d.pkg])
           others == NewerRpms(d.pkg) \ {RpmOf(d)}
           f      == [e \in group |-> RpmOf(e)]
<1>1. /\ manifest \in Contents /\ Written(manifest)
      /\ entries = Prune(items) /\ d \in Surplus(items)
      /\ Match(rpms, entries, entries \cup doomed)
  BY DEF SurplusInv, BoundInv, OrderInv, WriteInv, RepomdInv, TypeInv, TypeOK, RewriteOK,
     Intended, Dropped, FilesInv, FilesOK, Rewriting
<1>2. items \in Contents /\ Spaced(items) /\ Orderly(items, GroupOf, AgeOf)
  BY <1>1, ReplaceOrAppendType, ReplaceOrAppendSpaced, ContentsOrderly
<1> HIDE DEF items
<1>3. Keep > 0 /\ entries = Retain(items, Keep, GroupOf, AgeOf) /\ d \in items \ entries
  BY <1>1 DEF Surplus, Prune
<1>4. entries \subseteq items
  BY <1>1, PruneSubset
<1>5. Cardinality(group) = Keep /\ \A e \in group : Newer(e, d, AgeOf)
  BY <1>2, <1>3, RetainsNewest, KeepAssumption
<1>6. ASSUME NEW e \in group PROVE RpmOf(e) \in others
  <2>1. /\ e \in entries /\ e \in items /\ e.pkg \in Packages /\ d.pkg \in Packages
        /\ GroupOf[e.pkg] = GroupOf[d.pkg]
    BY <1>2, <1>3, <1>4 DEF GroupItems, Contents, Entries
  <2>2. e.pkg.name = d.pkg.name /\ e.pkg.arch = d.pkg.arch
    BY <2>1 DEF GroupOf
  <2>3. Rank[e.pkg.evr] >= Rank[d.pkg.evr]
    <3>1. AgeOf[e.pkg] \in Nat /\ AgeOf[d.pkg] \in Nat
      BY <1>2, <1>3, <2>1 DEF Orderly
    <3>2. AgeOf[e.pkg] >= AgeOf[d.pkg]
      BY <1>5, <3>1 DEF Newer
    <3>3. QED
      BY <2>1, <3>2 DEF AgeOf
  <2>4. e.pkg # d.pkg
    BY <1>2, <1>3, <2>1 DEF Contents
  <2>5. Holds(rpms, LocationOf(e.pkg), RpmOf(e))
    BY <1>1, <2>1 DEF Match
  <2>6. RpmOf(e) # RpmOf(d) /\ RpmOf(e).pkg = e.pkg
    BY <2>4 DEF RpmOf
  <2>7. QED
    BY <2>2, <2>3, <2>5, <2>6 DEF NewerRpms, Holds
<1>7. \A x, y \in group : f[x] = f[y] => x = y
  <2>1. \A x, y \in group : f[x] = f[y] => x.pkg = y.pkg
    BY DEF RpmOf
  <2>2. QED
    BY <1>2, <1>4, <2>1 DEF GroupItems, Contents
<1>8. f \in Injection(group, others)
  BY <1>6, <1>7 DEF Injection, IsInjective
<1>9. IsFiniteSet(others)
  <2> DEFINE files == {rpms[l] : l \in DOMAIN rpms}
             g     == [l \in DOMAIN rpms |-> rpms[l]]
  <2>1. g \in Surjection(DOMAIN rpms, files)
    BY DEF Surjection
  <2>2. IsFiniteSet(files)
    BY <2>1, FS_Surjection DEF SurplusInv, SurplusOK
  <2>3. others \subseteq files
    BY DEF NewerRpms
  <2> HIDE DEF files, others
  <2>4. QED
    BY <2>2, <2>3, FS_Subset
<1> HIDE DEF f, others, group
<1>10. Cardinality(group) <= Cardinality(others)
  BY <1>8, <1>9, FS_Injection
<1>11. QED
  BY <1>3, <1>5, <1>9, <1>10, FS_CardinalityType, KeepAssumption DEF others

\* Only one step deletes an .rpm.
LEMMA SurplusDeleted ==
  ASSUME SurplusInv, [Next]_vars, NEW l \in DOMAIN rpms \ DOMAIN rpms'
  PROVE  \/ op.kind = "remove" /\ Named(rpms[l].pkg, op)
         \/ /\ op.kind = "add"
            /\ Keep > 0
            /\ Cardinality(NewerRpms(rpms[l].pkg) \ {rpms[l]}) >= Keep
<1>1. DeleteRpm
  BY DEF Next, Step, vars, bucket, BeginAdd, BeginRemove, Start, Upload, UpdateState,
     DropVersion, NothingToDrop, SortEntries, WriteMeta, PutRepomd, SignRepomd, SaveState,
     CleanupMetadata, Return, Fail, Finish, Put
<1>2. PICK d \in doomed : rpms' = Delete(rpms, LocationOf(d.pkg))
  BY <1>1 DEF DeleteRpm
<1>3. l = LocationOf(d.pkg)
  BY <1>2 DEF Delete
<1>4. pc = "rewrite" /\ op \in AddOps \cup RemoveOps
  BY <1>1
  DEF DeleteRpm, SurplusInv, BoundInv, OrderInv, WriteInv, RepomdInv, TypeInv, ControlOK
<1>5. CASE op \in AddOps
  <2>1. rpms[l] = RpmOf(d) /\ RpmOf(d).pkg = d.pkg
    BY <1>3, <1>4, <1>5 DEF SurplusInv, SurplusOK, Fits, Holds, RpmOf
  <2>2. op.kind = "add"
    BY <1>5, KindOf
  <2>3. QED
    BY <1>4, <1>5, <2>1, <2>2, NewerRpmsStay
<1>6. CASE op \notin AddOps
  <2>1. op.kind = "remove"
    BY <1>4, <1>6, KindOf
  <2>2. Named(d.pkg, op)
    BY <1>4, <1>6 DEF SurplusInv, BoundInv, OrderInv, WriteInv, RewriteOK, Dropped, Matching
  <2>3. LocationOf(rpms[l].pkg) = LocationOf(d.pkg)
    BY <1>3 DEF SurplusInv, SurplusOK, LocationsOK
  <2>4. rpms[l].pkg.name = d.pkg.name /\ rpms[l].pkg.evr.version = d.pkg.evr.version
    BY <2>3 DEF LocationOf
  <2>5. QED
    BY <2>1, <2>2, <2>4 DEF Named
<1>7. QED
  BY <1>5, <1>6

\* Add never prunes an .rpm unless Keep others of its name and architecture, none
\* of them older, stay where they are, even when another epoch of the same file
\* name is uploaded in place of one that is listed; and Remove deletes the files
\* of the version it names and no others; whatever was interrupted, as long as
\* it is run again before anything else (Add, Remove).
THEOREM PrunesSurplus ==
  ASSUME RetryFirst
  PROVE  Spec => DeletesOnlySurplus
<1> DEFINE Allowed ==
      \A l \in DOMAIN rpms \ DOMAIN rpms' :
        \/ op.kind = "remove" /\ Named(rpms[l].pkg, op)
        \/ /\ op.kind = "add"
           /\ Keep > 0
           /\ Cardinality(NewerRpms(rpms[l].pkg) \ {rpms[l]}) >= Keep
<1>1. Init => SurplusInv
  BY SurplusInit
<1>2. SurplusInv /\ [Next]_vars => [Allowed]_vars
  BY SurplusDeleted
<1>3. QED
  BY <1>1, <1>2, SurplusStep, PTL DEF Spec, DeletesOnlySurplus

-----------------------------------------------------------------------------
(* The changes to what is listed.                                          *)

\* The files of a manifest are as many as its entries.
LEMMA RpmsCount ==
  ASSUME NEW c \in Contents
  PROVE  RpmsOf(c) \subseteq Rpms /\ Cardinality(RpmsOf(c)) = Cardinality(c)
<1> DEFINE f == [e \in c |-> RpmOf(e)]
<1>1. IsFiniteSet(c) /\ \A d, e \in c : d.pkg = e.pkg => d = e
  BY DEF Contents
<1>2. f \in [c -> RpmsOf(c)] /\ \A t \in RpmsOf(c) : \E x \in c : f[x] = t
  BY DEF RpmsOf
<1>3. \A d, e \in c : f[d] = f[e] => d = e
  BY <1>1 DEF RpmOf
<1>4. RpmsOf(c) \subseteq Rpms
  BY DEF RpmsOf, RpmOf, Rpms, Contents, Entries
<1> HIDE DEF f
<1>5. QED
  BY <1>1, <1>2, <1>3, <1>4, SameNumber

LEMMA GroupRpms ==
  ASSUME NEW c \in Contents, NEW f \in Rpms
  PROVE  LET group == GroupItems(c, GroupOf, GroupOf[f.pkg])
         IN  /\ Repo!GroupIn(RpmsOf(c), f) = RpmsOf(group)
             /\ Cardinality(Repo!GroupIn(RpmsOf(c), f)) = Cardinality(group)
<1> DEFINE group == GroupItems(c, GroupOf, GroupOf[f.pkg])
<1>1. group \in Contents
  BY SubContents DEF GroupItems
<1>2. RpmsOf(c) \subseteq Rpms
  BY RpmsCount
<1>3. Repo!GroupIn(RpmsOf(c), f) = {e \in RpmsOf(c) : GroupOf[e.pkg] = GroupOf[f.pkg]}
  BY <1>2 DEF Repo!GroupIn
<1>4. \A e : RpmOf(e).pkg = e.pkg
  BY DEF RpmOf
<1>5. Repo!GroupIn(RpmsOf(c), f) = RpmsOf(group)
  BY <1>3, <1>4 DEF RpmsOf, GroupItems
<1>6. QED
  BY <1>1, <1>5, RpmsCount

\* Repository counts as we do.
LEMMA RepoCardinality == \A S : Repo!Cardinality(S) = Cardinality(S)
BY DEF Repo!Cardinality, Cardinality

\* What Prune leaves is what retention may leave.
LEMMA PruneLeaves ==
  ASSUME NEW c \in Contents, Spaced(c)
  PROVE  Repo!MayLeave(RpmsOf(c), RpmsOf(Prune(c)))
<1>1. CASE Keep = 0
  BY <1>1 DEF Prune, Repo!MayLeave
<1>2. CASE Keep # 0
  <2> DEFINE left == Prune(c)
  <2>1. left = Retain(c, Keep, GroupOf, AgeOf) /\ left \subseteq c /\ left \in Contents
    BY <1>2, PruneSubset, SubContents, KeepAssumption DEF Prune
  <2>2. Orderly(c, GroupOf, AgeOf)
    BY ContentsOrderly
  <2>3. RpmsOf(left) \subseteq RpmsOf(c) /\ RpmsOf(c) \subseteq Rpms
    BY <2>1, RpmsCount DEF RpmsOf
  <2> HIDE DEF left
  <2>4. ASSUME NEW e \in RpmsOf(left)
        PROVE  Cardinality(Repo!GroupIn(RpmsOf(left), e)) <= Keep
    BY <2>1, <2>2, <2>3, GroupRpms, RetainsNewest, KeepAssumption
  <2>5. ASSUME NEW d \in RpmsOf(c) \ RpmsOf(left)
        PROVE  /\ Cardinality(Repo!GroupIn(RpmsOf(left), d)) = Keep
               /\ \A e \in Repo!GroupIn(RpmsOf(left), d) : AgeOf[e.pkg] >= AgeOf[d.pkg]
    <3> DEFINE group == GroupItems(left, GroupOf, GroupOf[d.pkg])
    <3>1. PICK x \in c : d.pkg = x.pkg /\ x \notin left
      BY DEF RpmsOf, RpmOf
    <3>2. Cardinality(group) = Keep /\ \A y \in group : Newer(y, x, AgeOf)
      BY <2>1, <2>2, <3>1, RetainsNewest, KeepAssumption
    <3>3. /\ Repo!GroupIn(RpmsOf(left), d) = RpmsOf(group)
          /\ Cardinality(Repo!GroupIn(RpmsOf(left), d)) = Cardinality(group)
      BY <2>1, <2>3, GroupRpms
    <3>4. ASSUME NEW y \in group PROVE AgeOf[y.pkg] >= AgeOf[x.pkg]
      <4>1. y \in c
        BY <2>1 DEF GroupItems
      <4>2. AgeOf[y.pkg] \in Nat /\ AgeOf[x.pkg] \in Nat
        BY <2>2, <4>1 DEF Orderly
      <4>3. QED
        BY <3>2, <4>2 DEF Newer
    <3> HIDE DEF group
    <3>5. QED
      BY <3>1, <3>2, <3>3, <3>4 DEF RpmsOf, RpmOf
  <2>6. \A e \in RpmsOf(c) : [f \in Rpms |-> AgeOf[f.pkg]][e] = AgeOf[e.pkg]
    BY <2>3
  <2>7. \A d : Repo!GroupIn(RpmsOf(left), d) \subseteq RpmsOf(c)
    BY <2>3 DEF Repo!GroupIn
  <2>8. QED
    BY <1>2, <2>3, <2>4, <2>5, <2>6, <2>7, RepoCardinality DEF Repo!MayLeave, left
<1>3. QED
  BY <1>1, <1>2

\* The files of the entries that satisfy a condition on their package.
LEMMA RpmsWhere ==
  ASSUME NEW c, NEW pkgs
  PROVE  RpmsOf({e \in c : e.pkg \in pkgs}) = {f \in RpmsOf(c) : f.pkg \in pkgs}
<1>1. \A e : RpmOf(e).pkg = e.pkg
  BY DEF RpmOf
<1>2. QED
  BY <1>1 DEF RpmsOf

\* An entry adds its file, in place of the one at its location.
LEMMA ReplaceOrAppendAdds ==
  ASSUME NEW c \in Contents, NEW o \in AddOps
  PROVE  /\ RpmOf(o) \in Rpms
         /\ RpmsOf(ReplaceOrAppend(c, o)) = Repo!WithFile(RpmsOf(c), RpmOf(o))
<1> DEFINE pkgs == {p \in Packages : LocationOf(p) # LocationOf(o.pkg)}
           rest == {e \in c : LocationOf(e.pkg) # LocationOf(o.pkg)}
           last == [pkg |-> o.pkg, build |-> o.build, at |-> Cardinality(c) + 1]
<1>1. RpmOf(o) \in Rpms /\ RpmOf(o).pkg = o.pkg
  BY DEF Rpms, AddOps, RpmOf
<1>2. RpmsOf(c) \subseteq Rpms
  BY RpmsCount
<1>3. \A f \in Rpms : f.pkg \in Packages
  BY DEF Rpms
<1>4. Repo!WithFile(RpmsOf(c), RpmOf(o)) = {f \in RpmsOf(c) : f.pkg \in pkgs} \cup {RpmOf(o)}
  BY <1>1, <1>2, <1>3 DEF Repo!WithFile
<1>5. RpmsOf(ReplaceOrAppend(c, o)) = RpmsOf(rest) \cup {RpmOf(o)}
  <2>1. ReplaceOrAppend(c, o) = rest \cup {last} /\ RpmOf(last) = RpmOf(o)
    BY DEF ReplaceOrAppend, RpmOf
  <2> HIDE DEF rest, last
  <2>2. QED
    BY <2>1 DEF RpmsOf
<1>6. RpmsOf(rest) = {f \in RpmsOf(c) : f.pkg \in pkgs}
  <2>1. rest = {e \in c : e.pkg \in pkgs}
    BY DEF Contents, Entries
  <2> HIDE DEF rest, pkgs
  <2>2. QED
    BY <2>1, RpmsWhere
<1>7. QED
  BY <1>1, <1>4, <1>5, <1>6

\* What an operation makes of the manifest is one addition or one removal.
LEMMA IntendedFollows ==
  ASSUME OrderInv, op \in AddOps \cup RemoveOps
  PROVE  Repo!Follows(RpmsOf(manifest), RpmsOf(Intended(manifest, op)))
<1>1. manifest \in Contents /\ Written(manifest)
  BY DEF OrderInv, WriteInv, RepomdInv, TypeInv, TypeOK
<1>2. CASE op \in AddOps
  <2> DEFINE items == ReplaceOrAppend(manifest, op)
  <2>1. items \in Contents /\ Spaced(items)
    BY <1>1, <1>2, ReplaceOrAppendType, ReplaceOrAppendSpaced
  <2> HIDE DEF items
  <2>2. Repo!MayLeave(RpmsOf(items), RpmsOf(Prune(items)))
    BY <2>1, PruneLeaves
  <2>3. QED
    BY <1>1, <1>2, <2>2, ReplaceOrAppendAdds DEF items, Intended, Repo!Follows
<1>3. CASE op \notin AddOps
  <2> DEFINE gone == {f \in Rpms : Named(f.pkg, op)}
             pkgs == {p \in Packages : ~ Named(p, op)}
  <2>1. Intended(manifest, op) = {e \in manifest : e.pkg \in pkgs}
    BY <1>1, <1>3 DEF Intended, Matching, Contents, Entries
  <2>2. RpmsOf(Intended(manifest, op)) = {f \in RpmsOf(manifest) : f.pkg \in pkgs}
    <3> HIDE DEF pkgs
    <3>1. QED
      BY <2>1, RpmsWhere
  <2>3. RpmsOf(manifest) \subseteq Rpms /\ \A f \in Rpms : f.pkg \in Packages
    BY <1>1, RpmsCount DEF Rpms
  <2>4. RpmsOf(Intended(manifest, op)) = RpmsOf(manifest) \ gone
    BY <2>2, <2>3
  <2>5. op \in RemoveOps
    BY <1>3
  <2>6. QED
    BY <2>4, <2>5 DEF Repo!Follows
<1>4. QED
  BY <1>2, <1>3

-----------------------------------------------------------------------------
(* The steps of the publisher are steps of the repository.                 *)

\* What is in the manifest, and what dnf is shown.
Base == [p \in {"repodata"} |-> RpmsOf(manifest)]
Seen == [p \in {"repodata"} |-> RpmsOf(Listed)]

\* Most steps change neither.
LEMMA RepoSame ==
  ASSUME UNCHANGED <<manifest, repomd>>
  PROVE  UNCHANGED <<Base, Seen>>
BY DEF Base, Seen, RpmsOf, RpmOf, Listed

LEMMA RepoInit == Init => Repo!Init
<1> SUFFICES ASSUME Init
             PROVE  Repo!Init
  OBVIOUS
<1>1. RpmsOf(manifest) = {} /\ RpmsOf(Listed) = {}
  BY DEF Init, RpmsOf, Listed
<1>2. QED
  BY <1>1 DEF Init, Repo!Init, Repo!Nothing

LEMMA RepoPutRepomd ==
  ASSUME OrderInv, PutRepomd
  PROVE  Repo!Change("repodata")
<1>1. /\ pc = "repomd" /\ outcome = "running" /\ UNCHANGED <<manifest, outcome>>
      /\ repomd' = [revision |-> ops, entries |-> entries]
      /\ op \in AddOps \cup RemoveOps
  BY DEF PutRepomd, OrderInv, WriteInv, OutcomeOK, RepomdInv, TypeInv, ControlOK
<1>2. Listed' = entries
  <2>1. repomd' \in Repomds
    BY <1>1 DEF Repomds, OrderInv, WriteInv, RepomdInv, TypeInv, TypeOK
  <2>2. QED
    BY <1>1, <2>1, NoneAssumption DEF Listed
<1>3. RpmsOf(entries) = RpmsOf(Intended(manifest, op))
  BY <1>1 DEF OrderInv, WriteInv, RewriteOK, Publishing
<1>4. Repo!Follows(Base["repodata"], Seen'["repodata"])
  <2>1. Base["repodata"] = RpmsOf(manifest) /\ Seen'["repodata"] = RpmsOf(entries)
    BY <1>2 DEF Base, Seen, RpmsOf
  <2>2. QED
    BY <1>1, <1>3, <2>1, IntendedFollows
<1>5. Seen' = [Seen EXCEPT !["repodata"] = Seen'["repodata"]] /\ Base' = Base
  BY <1>1 DEF Seen, Base, RpmsOf
<1>6. QED
  BY <1>1, <1>4, <1>5 DEF Repo!Change, Base, Seen

LEMMA RepoSaveState ==
  ASSUME OrderInv, SaveState
  PROVE  Repo!Align
<1>1. /\ manifest' = entries /\ repomd # None /\ repomd.entries = entries
      /\ outcome = "running" /\ UNCHANGED <<repomd, outcome>>
  BY DEF SaveState, OrderInv, WriteInv, OutcomeOK, RepomdInv, PublishOK
<1>2. manifest' = Listed /\ Listed' = Listed
  BY <1>1 DEF Listed
<1>3. Base' = Seen /\ Seen' = Seen
  BY <1>2 DEF Base, Seen, RpmsOf
<1>4. QED
  BY <1>1, <1>3 DEF Repo!Align, Base, Seen

\* An operation that reports that it has published has recorded what it shows.
LEMMA RepoEnd ==
  ASSUME OrderInv, Return \/ NothingToDrop
  PROVE  Repo!Succeed
<1>1. /\ outcome = "running" /\ UNCHANGED <<manifest, repomd>>
      /\ outcome' \in {"published", "unchanged"}
      /\ outcome' = "published" => pc = "cleanup"
  BY DEF Return, NothingToDrop, Finish, bucket, OrderInv, WriteInv, OutcomeOK
<1>2. outcome' = "published" => Base = Seen
  BY <1>1, CleanupAgrees DEF OrderInv, Agrees, Base, Seen
<1>3. UNCHANGED <<Base, Seen>>
  BY <1>1, RepoSame
<1>4. QED
  BY <1>1, <1>2, <1>3 DEF Repo!Succeed, Base, Seen

LEMMA RepoStep == OrderInv /\ [Next]_vars => [Repo!Next]_(Repo!vars)
<1> SUFFICES ASSUME OrderInv, [Next]_vars
             PROVE  Repo!Next \/ UNCHANGED Repo!vars
  OBVIOUS
<1>1. CASE \/ \E o \in AddOps : BeginAdd(o)
           \/ \E o \in RemoveOps : BeginRemove(o)
  <2>1. /\ outcome # "running" /\ outcome' = "running" /\ UNCHANGED <<manifest, repomd>>
    BY <1>1 DEF BeginAdd, BeginRemove, Start, Admissible, bucket, OrderInv, WriteInv, OutcomeOK
  <2>2. UNCHANGED <<Base, Seen>>
    BY <2>1, RepoSame
  <2>3. QED
    BY <2>1, <2>2 DEF Repo!Next, Repo!Begin, Base, Seen
<1>2. CASE \/ Upload \/ UpdateState \/ DropVersion \/ DeleteRpm \/ SortEntries \/ WriteMeta
           \/ SignRepomd \/ CleanupMetadata \/ UNCHANGED vars
  <2>1. UNCHANGED <<manifest, repomd, outcome>>
    BY <1>2 DEF Upload, UpdateState, DropVersion, DeleteRpm, SortEntries, WriteMeta,
       SignRepomd, CleanupMetadata, vars, bucket
  <2>2. UNCHANGED <<Base, Seen>>
    BY <2>1, RepoSame
  <2>3. QED
    BY <2>1, <2>2 DEF Repo!vars, Base, Seen
<1>3. CASE PutRepomd
  BY <1>3, RepoPutRepomd DEF Repo!Next
<1>4. CASE SaveState
  BY <1>4, RepoSaveState DEF Repo!Next
<1>5. CASE Return \/ NothingToDrop
  BY <1>5, RepoEnd DEF Repo!Next
<1>6. CASE Fail
  <2>1. /\ outcome = "running" /\ outcome' = "failed" /\ UNCHANGED <<manifest, repomd>>
    BY <1>6 DEF Fail, Finish, bucket, OrderInv, WriteInv, OutcomeOK
  <2>2. UNCHANGED <<Base, Seen>>
    BY <2>1, RepoSame
  <2>3. QED
    BY <2>1, <2>2 DEF Repo!Next, Repo!Fail, Base, Seen
<1>7. QED
  BY <1>1, <1>2, <1>3, <1>4, <1>5, <1>6 DEF Next, Step

\* The publisher implements the abstract repository, whatever is interrupted and
\* whether or not it is run again: what dnf is shown changes only by one whole
\* addition with retention or one whole removal made to the manifest, the
\* manifest only ever follows it, and success is reported only when it has (Add,
\* Remove, publish).
THEOREM PublisherImplementsRepository == Spec => ImplementsRepository
<1>1. QED
  BY RepoInit, RepoStep, OrderInvariance, PTL DEF Spec, ImplementsRepository, Repo!Spec

-----------------------------------------------------------------------------
(***************************************************************************)
(* Clients.  Their invariants are those of the publisher, whose steps are  *)
(* among their own, and what a client knows of the repomd.xml that it has  *)
(* read.                                                                   *)
(***************************************************************************)

\* It has read a repomd.xml that listed all that had been published.
RefreshOK ==
  /\ step \in {"idle", "signature", "files"}
  /\ missing \subseteq Types
  /\ step # "idle" => reading # None /\ promised \subseteq RpmsOf(reading.entries)
  /\ step = "signature" => Signed

ClientsInv == AckedInv /\ RefreshOK

LEMMA ClientsInit_Inv == ClientsInit => ClientsInv
BY AckedInit DEF ClientsInit, ClientsInv, RefreshOK, Types

LEMMA PublisherStep ==
  ASSUME [ClientsNext]_allVars
  PROVE  [Next]_vars
BY DEF ClientsNext, allVars, ClientStep, BeginRefresh, EndRefresh, CheckSignature,
   BadSignature, ReadMetadata, MetadataGone, Refreshed

LEMMA ClientsStep == ClientsInv /\ [ClientsNext]_allVars => ClientsInv'
<1> SUFFICES ASSUME ClientsInv, [ClientsNext]_allVars
             PROVE  ClientsInv'
  OBVIOUS
<1>1. AckedInv'
  BY AckedStep, PublisherStep DEF ClientsInv
<1>2. CASE UNCHANGED client
  BY <1>1, <1>2 DEF client, ClientsInv, RefreshOK, RpmsOf, RpmOf
<1>3. CASE BeginRefresh
  <2>1. /\ repomd # None /\ reading' = repomd /\ missing' = Types /\ promised' = acked
        /\ step' = IF Signed THEN "signature" ELSE "files"
    BY <1>3 DEF BeginRefresh
  <2>2. acked \subseteq RpmsOf(repomd.entries)
    BY <2>1, AckedInvStays DEF ClientsInv, AckedStays, Listed
  <2>3. promised' \subseteq RpmsOf(reading'.entries)
    BY <2>1, <2>2
  <2>4. QED
    BY <1>1, <2>1, <2>3 DEF ClientsInv, RefreshOK, RpmsOf
<1>4. CASE BadSignature \/ MetadataGone \/ Refreshed
  BY <1>1, <1>4 DEF BadSignature, MetadataGone, Refreshed, EndRefresh, ClientsInv, RefreshOK
<1>5. CASE CheckSignature \/ ReadMetadata
  <2>1. /\ step # "idle" /\ step' = "files" /\ UNCHANGED <<reading, promised>>
        /\ missing' \subseteq missing
    BY <1>5 DEF CheckSignature, ReadMetadata
  <2>2. QED
    BY <1>1, <2>1 DEF ClientsInv, RefreshOK, RpmsOf
<1>6. QED
  BY <1>2, <1>3, <1>4, <1>5 DEF ClientsNext, ClientStep, allVars

LEMMA ClientsInvariance == ClientsSpec => []ClientsInv
<1>1. QED
  BY ClientsInit_Inv, ClientsStep, PTL DEF ClientsSpec

-----------------------------------------------------------------------------
(* What the client may rely on.                                            *)

\* A metadata file is gone only for a client that has read a repomd.xml which has
\* been replaced since; and beside a publisher that has published and rests, so
\* is the one whose signature does not match.  In every other case a refresh
\* that begins again finds what it reads, whatever was interrupted before
\* (publish, signRepomd, cleanupMetadata).
THEOREM RefreshesFindWhatTheyRead == ClientsSpec => RefreshesFailInTransit
<1> DEFINE InTransit ==
      /\ MetadataGone => reading # repomd
      /\ BadSignature /\ pc = "idle" /\ outcome = "published" => reading # repomd
<1>1. ClientsInv => InTransit
  <2> SUFFICES ASSUME ClientsInv
               PROVE  InTransit
    OBVIOUS
  <2>1. ASSUME MetadataGone PROVE reading # repomd
    <3>1. PICK t \in Types : Metadata(t) \notin metas
      BY <2>1 DEF MetadataGone, ClientsInv, RefreshOK
    <3>2. reading # None
      BY <2>1 DEF MetadataGone, ClientsInv, RefreshOK
    <3>3. repomd # None => [type |-> t, entries |-> repomd.entries] \in metas
      BY DEF ClientsInv, AckedInv, RepomdInv, RepomdRefsExist, Refs
    <3>4. QED
      BY <3>1, <3>2, <3>3 DEF Metadata
  <2>2. ASSUME BadSignature, pc = "idle", outcome = "published" PROVE reading # repomd
    BY <2>2 DEF BadSignature, ClientsInv, RefreshOK, AckedInv, RepomdInv,
       PublishedStateComplete
  <2>3. QED
    BY <2>1, <2>2
<1>2. QED
  BY <1>1, ClientsInvariance, PTL DEF RefreshesFailInTransit

\* A refresh that begins after an Add has reported success and that succeeds
\* knows the package, whatever the publisher writes in between and whatever of it
\* fails: it shows what one repomd.xml lists, and each lists what has been
\* published (publish).
THEOREM RefreshesKnowPublished == ClientsSpec => RefreshesSeePublished
<1>1. ClientsInv /\ Refreshed => promised \subseteq cache'
  BY DEF ClientsInv, RefreshOK, Refreshed
<1>2. QED
  BY <1>1, ClientsInvariance, PTL DEF RefreshesSeePublished

=============================================================================
