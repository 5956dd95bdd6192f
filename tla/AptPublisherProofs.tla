------------------------- MODULE AptPublisherProofs -------------------------
(***************************************************************************)
(* Theorems about AptPublisher, for every value of its constants.          *)
(***************************************************************************)
EXTENDS AptPublisher, RetentionProofs, FiniteSetTheorems, TLAPS

-----------------------------------------------------------------------------
(* The bucket.                                                             *)

LEMMA PutType ==
  ASSUME NEW Keys, NEW Values, NEW s, IsStore(s, Keys, Values),
         NEW k \in Keys, NEW v \in Values
  PROVE  IsStore(Put(s, k, v), Keys, Values)
BY DEF IsStore, Put

LEMMA DeleteType ==
  ASSUME NEW Keys, NEW Values, NEW s, IsStore(s, Keys, Values), NEW k
  PROVE  IsStore(Delete(s, k), Keys, Values)
BY DEF IsStore, Delete

\* What is at the other keys stays there.
LEMMA StoreEffect ==
  ASSUME NEW s, NEW k, NEW v
  PROVE  /\ Holds(Put(s, k, v), k, v)
         /\ \A j, w : j # k => (Holds(Put(s, k, v), j, w) <=> Holds(s, j, w))
         /\ \A j, w : j # k => (Holds(Delete(s, k), j, w) <=> Holds(s, j, w))
         /\ k \notin DOMAIN Delete(s, k)
BY DEF Put, Delete, Holds

-----------------------------------------------------------------------------
(* What the operators on the contents of an index return.                  *)

\* Some of the stanzas of an index are the contents of an index.
LEMMA SubContents ==
  ASSUME NEW c \in Contents, NEW d, d \subseteq c
  PROVE  d \in Contents
BY FS_Subset DEF Contents

LEMMA ReadType ==
  ASSUME IsStore(packages, Indexes, Contents), NEW i
  PROVE  Read(i) \in Contents
<1>1. {} \in Contents
  BY FS_EmptySet DEF Contents
<1>2. QED
  BY <1>1 DEF Read, IsStore

LEMMA InsertType ==
  ASSUME NEW c \in Contents, NEW o \in AddOps
  PROVE  Insert(c, o) \in Contents
<1> DEFINE rest == {e \in c : e.pkg # o.pkg}
           new  == [pkg |-> o.pkg, build |-> o.build, at |-> Cardinality(c) + 1]
<1>1. IsFiniteSet(c) /\ IsFiniteSet(rest) /\ Cardinality(c) \in Nat
  BY FS_Subset, FS_CardinalityType DEF Contents
<1>2. IsFiniteSet(rest \cup {new})
  BY <1>1, FS_AddElement
<1>3. new \in Stanzas
  BY <1>1 DEF AddOps, Stanzas
<1>4. rest \cup {new} \subseteq Stanzas
  BY <1>3 DEF Contents
<1>5. \A d, e \in rest \cup {new} : d.pkg = e.pkg => d = e
  BY DEF Contents
<1>6. QED
  BY <1>2, <1>4, <1>5 DEF Insert, Contents

LEMMA PruneSubset == ASSUME NEW c PROVE Prune(c) \subseteq c
BY DEF Prune, Retain

\* Writing an index changes no stanza but its place.
LEMMA BuildPackagesType ==
  ASSUME NEW c \in Contents
  PROVE  /\ BuildPackages(c) \in Contents
         /\ \A e \in c : \E d \in BuildPackages(c) : d.pkg = e.pkg /\ d.build = e.build
         /\ \A d \in BuildPackages(c) : \E e \in c : d.pkg = e.pkg /\ d.build = e.build
<1> DEFINE Place(e)  == Cardinality({d \in c : d.at <= e.at})
           Listed(e) == [e EXCEPT !.at = Place(e)]
<1>1. IsFiniteSet(c) /\ c \subseteq Stanzas
  BY DEF Contents
<1>2. ASSUME NEW e \in c
      PROVE  /\ Listed(e) \in Stanzas
             /\ Listed(e).pkg = e.pkg
             /\ Listed(e).build = e.build
  <2>1. Place(e) \in Nat
    BY <1>1, FS_Subset, FS_CardinalityType
  <2>2. QED
    BY <1>1, <2>1 DEF Stanzas
<1>3. BuildPackages(c) = {Listed(e) : e \in c}
  BY DEF BuildPackages
<1>4. IsFiniteSet({Listed(e) : e \in c})
  <2> DEFINE f == [e \in c |-> Listed(e)]
  <2>1. f \in Surjection(c, {Listed(e) : e \in c})
    BY DEF Surjection
  <2>2. QED
    BY <1>1, <2>1, FS_Surjection
<1>5. BuildPackages(c) \subseteq Stanzas
  BY <1>2, <1>3
<1>6. ASSUME NEW d \in BuildPackages(c), NEW e \in BuildPackages(c), d.pkg = e.pkg
      PROVE  d = e
  <2>1. PICK x \in c : d = Listed(x)
    BY <1>3
  <2>2. PICK y \in c : e = Listed(y)
    BY <1>3
  <2>3. x.pkg = y.pkg
    BY <1>2, <1>6, <2>1, <2>2
  <2>4. x = y
    BY <2>3 DEF Contents
  <2>5. QED
    BY <2>1, <2>2, <2>4
<1>7. BuildPackages(c) \in Contents
  BY <1>3, <1>4, <1>5, <1>6 DEF Contents
<1>8. QED
  BY <1>2, <1>3, <1>7

-----------------------------------------------------------------------------
(* Type correctness.                                                       *)

\* The index an Add writes.
TargetOf(o) == [component |-> o.component, arch |-> o.arch]

\* What the program counter says of the operation and of its index.
ControlOK ==
  /\ pc # "idle" => op \in AddOps \cup RemoveOps
  /\ pc \in {"upload", "updateIndex"} => op \in AddOps
  /\ pc = "scan" => op \in RemoveOps
  /\ pc \in {"updateIndex", "rewrite", "putGz"} => index \in Indexes
  /\ pc \notin {"idle", "upload"} /\ op \in AddOps => index = TargetOf(op)
  /\ pc \in {"putInRelease", "putReleaseGpg"} => "Release" \in DOMAIN dist

TypeInv == TypeOK /\ ControlOK

LEMMA TypeInit == Init => TypeInv
<1>1. {} \in Contents
  BY FS_EmptySet DEF Contents
<1>2. QED
  BY <1>1 DEF Init, TypeInv, TypeOK, ControlOK, Steps, Empty, IsStore

\* An operation is one of the two kinds, and its kind tells which.
LEMMA KindOf ==
  ASSUME NEW o \in AddOps \cup RemoveOps
  PROVE  /\ o.kind = "add" => o \in AddOps
         /\ o.kind = "remove" => o \in RemoveOps
         /\ o \in AddOps => o.kind = "add"
         /\ o \in RemoveOps => o.kind = "remove"
         /\ o.kind \in {"add", "remove"}
         /\ o.component \in Components
         /\ o.pkg \in Packages
BY DEF AddOps, RemoveOps

LEMMA TargetType ==
  ASSUME NEW o \in AddOps
  PROVE  TargetOf(o) \in Indexes /\ PathOf(TargetOf(o), o.pkg) \in Paths
BY DEF AddOps, TargetOf, PathOf, Indexes, Paths

LEMMA TypeStep == TypeInv /\ [Next]_vars => TypeInv'
<1> SUFFICES ASSUME TypeInv, [Next]_vars
             PROVE  TypeInv'
  OBVIOUS
<1> USE DEF TypeInv, TypeOK, ControlOK, Steps
<1>1. ASSUME NEW o \in AddOps, BeginAdd(o)
      PROVE  TypeInv'
  <2>1. UNCHANGED <<bucket, locals, faults>> /\ pc' = "upload" /\ op' = o
          /\ outcome' = "running" /\ ops' = ops + 1
    BY <1>1 DEF BeginAdd, Start, locals
  <2>2. acked' \subseteq acked
    BY <1>1 DEF BeginAdd
  <2>3. QED
    BY <2>1, <2>2 DEF bucket, locals
<1>2. ASSUME NEW o \in RemoveOps, BeginRemove(o)
      PROVE  TypeInv'
  <2>1. UNCHANGED <<bucket, index, kept, doomed, removed, faults>> /\ pc' = "scan"
          /\ op' = o /\ outcome' = "running" /\ ops' = ops + 1
    BY <1>2 DEF BeginRemove, Start
  <2>2. acked' \subseteq acked /\ queue' \subseteq Indexes
    BY <1>2 DEF BeginRemove, IndexesOf, IsStore
  <2>3. o \notin AddOps
    BY DEF AddOps, RemoveOps
  <2>4. QED
    BY <2>1, <2>2, <2>3 DEF bucket
<1>3. CASE Upload
  <2>1. index' = TargetOf(op) /\ index' \in Indexes
    BY <1>3, TargetType DEF Upload, TargetOf
  <2>2. PathOf(index', op.pkg) \in Paths /\ op.build \in Builds
    BY <1>3, <2>1, TargetType DEF Upload, AddOps
  <2>3. IsStore(pool', Paths, Builds)
    BY <1>3, <2>2, PutType DEF Upload
  <2>4. QED
    BY <1>3, <2>1, <2>3 DEF Upload
<1>4. CASE UpdateIndex
  <2>1. Insert(Read(index), op) \in Contents
    BY <1>4, ReadType, InsertType DEF UpdateIndex
  <2>2. kept' \in Contents /\ doomed' \in Contents
    BY <1>4, <2>1, PruneSubset, SubContents DEF UpdateIndex, Surplus
  <2>3. acked' \subseteq acked
    BY <1>4 DEF UpdateIndex
  <2>4. QED
    BY <1>4, <2>2, <2>3 DEF UpdateIndex, bucket
<1>5. CASE ScanIndex
  <2> PICK i \in queue :
        /\ queue' = queue \ {i}
        /\ IF Matching(Read(i), op) = {}
           THEN UNCHANGED <<pc, index, kept, doomed, removed>>
           ELSE /\ pc' = "rewrite"
                /\ index' = i
                /\ kept' = Read(i) \ Matching(Read(i), op)
                /\ doomed' = Matching(Read(i), op)
                /\ removed' = removed \cup {i}
    BY <1>5 DEF ScanIndex
  <2>1. i \in Indexes /\ Read(i) \in Contents
    BY ReadType
  <2>2. /\ Read(i) \ Matching(Read(i), op) \in Contents
        /\ Matching(Read(i), op) \in Contents
    BY <2>1, SubContents DEF Matching
  <2>3. op \in RemoveOps /\ op \notin AddOps
    BY <1>5 DEF ScanIndex, AddOps, RemoveOps
  <2>4. UNCHANGED <<bucket, op, outcome, acked, ops, faults>>
    BY <1>5 DEF ScanIndex
  <2>5. CASE Matching(Read(i), op) = {}
    BY <2>4, <2>5, <2>3 DEF bucket
  <2>6. CASE Matching(Read(i), op) # {}
    BY <2>1, <2>2, <2>3, <2>4, <2>6 DEF bucket
  <2>7. QED
    BY <2>5, <2>6
<1>6. CASE EndScan
  BY <1>6, KindOf DEF EndScan, AfterScan, bucket, locals, AddOps, RemoveOps
<1>7. CASE DeletePoolFile
  <2>1. doomed' \subseteq doomed
    BY <1>7 DEF DeletePoolFile
  <2>2. doomed' \in Contents
    BY <2>1, SubContents
  <2>3. IsStore(pool', Paths, Builds)
    BY <1>7, DeleteType DEF DeletePoolFile
  <2>4. QED
    BY <1>7, <2>2, <2>3 DEF DeletePoolFile
<1>8. CASE PutPackages
  <2>1. IsStore(packages', Indexes, Contents)
    BY <1>8, BuildPackagesType, PutType DEF PutPackages
  <2>2. QED
    BY <1>8, <2>1 DEF PutPackages, locals
<1>9. CASE PutPackagesGz
  <2>1. IsStore(packagesGz', Indexes, Contents)
    BY <1>9, BuildPackagesType, PutType DEF PutPackagesGz
  <2>2. op.kind # "add" => op \in RemoveOps /\ op \notin AddOps
    BY <1>9, KindOf DEF PutPackagesGz
  <2>3. QED
    BY <1>9, <2>1, <2>2 DEF PutPackagesGz, locals
<1>10. CASE PublishRelease
  <2>1. IsRelease(BuildRelease)
    BY DEF BuildRelease, IsRelease
  <2>2. /\ DOMAIN dist' = DOMAIN dist \cup {"Release"}
        /\ \A k \in DOMAIN dist' :
             \/ dist'[k] = BuildRelease
             \/ k \in DOMAIN dist /\ dist'[k] = dist[k]
    BY <1>10 DEF PublishRelease, Put
  <2>3. DOMAIN dist' \subseteq DistFiles /\ "Release" \in DOMAIN dist'
    BY <2>2 DEF DistFiles
  <2>4. \A k \in DOMAIN dist' : IsRelease(dist'[k])
    BY <2>1, <2>2
  <2>5. IsStore(packages, Indexes, Contents)' /\ IsStore(packagesGz, Indexes, Contents)'
          /\ IsStore(pool, Paths, Builds)'
    BY <1>10 DEF PublishRelease
  <2>6. pc' \in {"putInRelease", "return"}
    BY <1>10 DEF PublishRelease, AfterRelease
  <2>7. QED
    BY <1>10, <2>3, <2>4, <2>5, <2>6 DEF PublishRelease, locals
<1>11. CASE PutInRelease
  <2>1. /\ DOMAIN dist' = DOMAIN dist \cup {"InRelease"}
        /\ \A k \in DOMAIN dist' : \E j \in DOMAIN dist : dist'[k] = dist[j]
    BY <1>11 DEF PutInRelease, Put
  <2>2. QED
    BY <1>11, <2>1 DEF PutInRelease, locals, DistFiles
<1>12. CASE PutReleaseGpg
  <2>1. /\ DOMAIN dist' = DOMAIN dist \cup {"Release.gpg"}
        /\ \A k \in DOMAIN dist' : \E j \in DOMAIN dist : dist'[k] = dist[j]
    BY <1>12 DEF PutReleaseGpg, Put
  <2>2. QED
    BY <1>12, <2>1 DEF PutReleaseGpg, locals, DistFiles
<1>13. ASSUME NEW r, r \in {"published", "unchanged", "failed"}, Finish(r),
              acked' \subseteq [path : Paths, build : Builds], faults' \in Nat
       PROVE  TypeInv'
  <2>1. {} \in Contents
    BY FS_EmptySet DEF Contents
  <2>2. QED
    BY <1>13, <2>1 DEF Finish, bucket
<1>14. CASE Return
  <2>1. acked' \subseteq [path : Paths, build : Builds]
    <3>1. CASE op.kind = "add"
      <4>1. op \in AddOps /\ index = TargetOf(op)
        BY <1>14, <3>1, KindOf DEF Return
      <4>2. PathOf(index, op.pkg) \in Paths /\ op.build \in Builds
        BY <4>1, TargetType DEF AddOps
      <4>3. QED
        BY <1>14, <4>2 DEF Return
    <3>2. CASE op.kind # "add"
      BY <1>14, <3>2 DEF Return
    <3>3. QED
      BY <3>1, <3>2
  <2>2. PICK r \in {"published", "unchanged"} : Finish(r)
    BY <1>14 DEF Return
  <2>3. QED
    BY <1>13, <1>14, <2>1, <2>2 DEF Return
<1>15. CASE Fail
  BY <1>13, <1>15 DEF Fail
<1>16. CASE UNCHANGED vars
  BY <1>16 DEF vars, bucket, locals
<1>17. QED
  BY <1>1, <1>2, <1>3, <1>4, <1>5, <1>6, <1>7, <1>8, <1>9, <1>10, <1>11, <1>12,
     <1>14, <1>15, <1>16 DEF Next, Step

LEMMA TypeInvariance == Spec => []TypeInv
<1>1. QED
  BY TypeInit, TypeStep, PTL DEF Spec

\* The objects and the variables of the publisher always have their types; above
\* all, no Packages file lists a name and version twice (updateIndex), whatever
\* is added, removed, interrupted and run again.
THEOREM TypeCorrect == Spec => []TypeOK
<1>1. TypeInv => TypeOK
  BY DEF TypeInv
<1>2. QED
  BY TypeInvariance, <1>1, PTL

-----------------------------------------------------------------------------
(* What Add has published stays.                                           *)

\* The index of a pool file.
IndexAt(path) == [component |-> path.component, arch |-> path.arch]

\* A stanza of c for the build of a package.
Lists(c, pkg, build) == \E e \in c : e.pkg = pkg /\ e.build = build

\* The stanzas to keep and those still to be deleted are of different packages.
SplitOK ==
  pc = "rewrite" => \A d \in doomed, e \in kept : d.pkg # e.pkg

\* Remove stays in its component, and deletes only what it was asked to.
RemoveOK ==
  pc # "idle" /\ op \in RemoveOps =>
    /\ \A i \in queue : i.component = op.component
    /\ pc = "rewrite" => /\ index.component = op.component
                         /\ \A e \in doomed : e.pkg = op.pkg

\* The package of an Add under way: its file is in the pool unless retention has
\* taken it out, and once the index is written it lists what was kept.
AddedOK ==
  op \in AddOps =>
    /\ pc = "updateIndex" => Holds(pool, PathOf(TargetOf(op), op.pkg), op.build)
    /\ pc \notin {"idle", "upload", "updateIndex"} =>
         \A e \in kept : e.pkg = op.pkg =>
           e.build = op.build /\ Holds(pool, PathOf(TargetOf(op), op.pkg), op.build)
    /\ pc \notin {"idle", "upload", "updateIndex", "rewrite"} =>
         \A e \in kept : Lists(Read(TargetOf(op)), e.pkg, e.build)

\* A published file is in the pool and in the index; it is not the one the
\* operation under way is about; and the index being rewritten keeps it.
FileOK(f) ==
  /\ Holds(pool, f.path, f.build)
  /\ Lists(Read(IndexAt(f.path)), f.path.pkg, f.build)
  /\ pc \notin {"idle", "return"} /\ op \in AddOps =>
       f.path # PathOf(TargetOf(op), op.pkg)
  /\ pc # "idle" /\ op \in RemoveOps =>
       f.path.component # op.component \/ f.path.pkg # op.pkg
  /\ pc = "rewrite" /\ IndexAt(f.path) = index =>
       /\ Lists(kept, f.path.pkg, f.build)
       /\ \A e \in doomed : e.pkg # f.path.pkg

\* No component lies in the directory of another: without this a Remove reaches
\* into components it does not name.
Flat == \A c \in Components : Within[c] = {c}

AckedInv ==
  /\ Flat
  /\ TypeInv
  /\ SplitOK
  /\ RemoveOK
  /\ AddedOK
  /\ \A f \in acked : FileOK(f)

LEMMA PathParts ==
  ASSUME NEW p \in Paths
  PROVE  IndexAt(p) \in Indexes /\ p.pkg \in Packages /\ p = PathOf(IndexAt(p), p.pkg)
BY DEF Paths, PathOf, IndexAt, Indexes

LEMMA PathsDiffer ==
  ASSUME NEW i \in Indexes, NEW pkg \in Packages, NEW j \in Indexes, NEW q \in Packages
  PROVE  /\ PathOf(i, pkg) \in Paths
         /\ PathOf(i, pkg) = PathOf(j, q) <=> i = j /\ pkg = q
         /\ IndexAt(PathOf(i, pkg)) = i
         /\ PathOf(i, pkg).pkg = pkg
BY DEF Paths, PathOf, IndexAt, Indexes

LEMMA AckedInit == Flat /\ Init => AckedInv
BY TypeInit DEF Init, AckedInv, SplitOK, RemoveOK, AddedOK, TypeInv, ControlOK

\* AckedInv is what the property says, and more.
LEMMA AckedInvStays == AckedInv => AckedStays
<1> SUFFICES ASSUME AckedInv, NEW f \in acked
             PROVE  /\ Holds(pool, f.path, f.build)
                    /\ \E i \in Indexes : \E e \in Read(i) :
                         PathOf(i, e.pkg) = f.path /\ e.build = f.build
  BY DEF AckedStays
<1>1. f.path \in Paths /\ FileOK(f)
  BY DEF AckedInv, TypeInv, TypeOK
<1>2. PICK e \in Read(IndexAt(f.path)) : e.pkg = f.path.pkg /\ e.build = f.build
  BY <1>1 DEF FileOK, Lists
<1>3. IndexAt(f.path) \in Indexes /\ PathOf(IndexAt(f.path), e.pkg) = f.path
  BY <1>1, <1>2, PathParts
<1>4. QED
  BY <1>1, <1>2, <1>3 DEF FileOK

\* An operation begins.
LEMMA AckedBegin ==
  ASSUME AckedInv, TypeInv',
         \/ \E o \in AddOps : BeginAdd(o)
         \/ \E o \in RemoveOps : BeginRemove(o)
  PROVE  AckedInv'
<1>1. UNCHANGED <<pool, packages, index, kept, doomed>>
  BY DEF BeginAdd, BeginRemove, Start, bucket
<1>2. pc' \in {"upload", "scan"} /\ (op' \in AddOps => pc' = "upload")
  BY DEF BeginAdd, BeginRemove, Start, AddOps, RemoveOps
<1>3. op' \in RemoveOps => \A i \in queue' : i.component = op'.component
  BY DEF BeginAdd, BeginRemove, Start, IndexesOf, AddOps, RemoveOps, AckedInv, Flat
<1>4. SplitOK' /\ RemoveOK' /\ AddedOK'
  BY <1>2, <1>3 DEF SplitOK, RemoveOK, AddedOK
<1>5. ASSUME NEW f \in acked' PROVE FileOK(f)'
  <2>1. f \in acked /\ FileOK(f)
    BY DEF BeginAdd, BeginRemove, AckedInv
  <2>2. op' \in AddOps => f.path # PathOf(TargetOf(op'), op'.pkg)
    BY DEF BeginAdd, BeginRemove, Start, AddOps, RemoveOps, TargetOf, PathOf
  <2>3. op' \in RemoveOps => f.path.component # op'.component \/ f.path.pkg # op'.pkg
    BY DEF BeginAdd, BeginRemove, Start, AddOps, RemoveOps
  <2>4. QED
    BY <1>1, <1>2, <2>1, <2>2, <2>3 DEF FileOK, Read
<1>6. QED
  BY <1>4, <1>5 DEF AckedInv

LEMMA AckedUpload == ASSUME AckedInv, TypeInv', Upload PROVE AckedInv'
<1>1. /\ op \in AddOps
      /\ pool' = Put(pool, PathOf(TargetOf(op), op.pkg), op.build)
      /\ UNCHANGED <<packages, op, acked>>
      /\ pc = "upload" /\ pc' = "updateIndex"
  BY DEF Upload, AckedInv, TypeInv, TypeOK, ControlOK, TargetOf
<1>2. op \notin RemoveOps
  BY <1>1 DEF AddOps, RemoveOps
<1>3. SplitOK' /\ RemoveOK' /\ AddedOK'
  BY <1>1, <1>2, StoreEffect DEF SplitOK, RemoveOK, AddedOK
<1>4. ASSUME NEW f \in acked PROVE FileOK(f)'
  <2>1. FileOK(f) /\ f.path \in Paths
    BY DEF AckedInv, TypeInv, TypeOK
  <2>2. Holds(pool', f.path, f.build)
    BY <1>1, <2>1, StoreEffect DEF FileOK
  <2>3. QED
    BY <1>1, <1>2, <2>1, <2>2 DEF FileOK, Read
<1>5. QED
  BY <1>1, <1>3, <1>4 DEF AckedInv

LEMMA AckedUpdateIndex == ASSUME AckedInv, TypeInv', UpdateIndex PROVE AckedInv'
<1> DEFINE items == Insert(Read(index), op)
<1>1. /\ op \in AddOps /\ index = TargetOf(op) /\ index \in Indexes
      /\ pc = "updateIndex" /\ pc' = "rewrite"
      /\ UNCHANGED <<pool, packages, op, index>>
      /\ op \notin RemoveOps
  BY DEF UpdateIndex, bucket, AckedInv, TypeInv, ControlOK, AddOps, RemoveOps
<1>2. kept' = Prune(items) /\ doomed' = items \ kept' /\ kept' \subseteq items
  BY PruneSubset DEF UpdateIndex, Surplus
<1>3. items \in Contents
  BY <1>1, ReadType, InsertType DEF AckedInv, TypeInv, TypeOK
<1>4. \A d, e \in items : d.pkg = e.pkg => d = e
  BY <1>3 DEF Contents
<1>5. \A e \in items : e.pkg = op.pkg => e.build = op.build
  BY DEF Insert
<1>6. SplitOK'
  BY <1>2, <1>4 DEF SplitOK
<1>7. AddedOK' /\ RemoveOK'
  BY <1>1, <1>2, <1>5 DEF AddedOK, RemoveOK, AckedInv
<1>8. ASSUME NEW f \in acked' PROVE FileOK(f)'
  <2>1. f \in acked /\ FileOK(f) /\ f.path \in Paths
    BY DEF UpdateIndex, AckedInv, TypeInv, TypeOK
  <2>2. ASSUME IndexAt(f.path) = index
        PROVE  Lists(kept', f.path.pkg, f.build) /\ \A e \in doomed' : e.pkg # f.path.pkg
    <3>1. f.path = PathOf(index, f.path.pkg)
      BY <2>1, <2>2, PathParts
    <3>2. \A e \in doomed' : e.pkg # f.path.pkg
      BY <3>1 DEF UpdateIndex
    <3>3. f.path.pkg # op.pkg
      BY <1>1, <2>1, <3>1 DEF FileOK
    <3>4. PICK e \in Read(index) : e.pkg = f.path.pkg /\ e.build = f.build
      BY <2>1, <2>2 DEF FileOK, Lists
    <3>5. e \in items
      BY <3>3, <3>4 DEF Insert
    <3>6. e \in kept'
      BY <1>2, <3>2, <3>4, <3>5
    <3>7. QED
      BY <3>2, <3>4, <3>6 DEF Lists
  <2>3. QED
    BY <1>1, <2>1, <2>2 DEF FileOK, Read
<1>9. QED
  BY <1>6, <1>7, <1>8 DEF AckedInv

LEMMA AckedScan == ASSUME AckedInv, TypeInv', ScanIndex PROVE AckedInv'
<1>1. PICK i \in queue :
        /\ queue' = queue \ {i}
        /\ IF Matching(Read(i), op) = {}
           THEN UNCHANGED <<pc, index, kept, doomed, removed>>
           ELSE /\ pc' = "rewrite"
                /\ index' = i
                /\ kept' = Read(i) \ Matching(Read(i), op)
                /\ doomed' = Matching(Read(i), op)
                /\ removed' = removed \cup {i}
  BY DEF ScanIndex
<1>2. /\ UNCHANGED <<pool, packages, op, acked>>
      /\ pc = "scan" /\ op \in RemoveOps /\ op \notin AddOps
      /\ i.component = op.component
  BY DEF ScanIndex, bucket, AckedInv, TypeInv, ControlOK, AddOps, RemoveOps, RemoveOK
<1>3. /\ \A e \in Matching(Read(i), op) : e.pkg = op.pkg
      /\ \A e \in Read(i) \ Matching(Read(i), op) : e.pkg # op.pkg
  BY DEF Matching
<1>4. CASE Matching(Read(i), op) = {}
  BY <1>1, <1>2, <1>4 DEF AckedInv, SplitOK, RemoveOK, AddedOK, FileOK, Read
<1>5. CASE Matching(Read(i), op) # {}
  <2>1. pc' = "rewrite" /\ index' = i /\ kept' = Read(i) \ Matching(Read(i), op)
          /\ doomed' = Matching(Read(i), op)
    BY <1>1, <1>5
  <2>2. SplitOK' /\ RemoveOK' /\ AddedOK'
    BY <1>1, <1>2, <1>3, <2>1 DEF SplitOK, RemoveOK, AddedOK, AckedInv
  <2>3. ASSUME NEW f \in acked PROVE FileOK(f)'
    <3>1. FileOK(f)
      BY DEF AckedInv
    <3>2. ASSUME IndexAt(f.path) = i
          PROVE  Lists(kept', f.path.pkg, f.build) /\ \A e \in doomed' : e.pkg # f.path.pkg
      <4>1. f.path.component = op.component
        BY <1>2, <3>2 DEF IndexAt
      <4>2. f.path.pkg # op.pkg
        BY <1>2, <3>1, <4>1 DEF FileOK
      <4>3. PICK e \in Read(i) : e.pkg = f.path.pkg /\ e.build = f.build
        BY <3>1, <3>2 DEF FileOK, Lists
      <4>4. e \in kept'
        BY <1>3, <2>1, <4>2, <4>3
      <4>5. QED
        BY <1>3, <2>1, <4>2, <4>3, <4>4 DEF Lists
    <3>3. QED
      BY <1>2, <2>1, <3>1, <3>2 DEF FileOK, Read
  <2>4. QED
    BY <1>2, <2>2, <2>3 DEF AckedInv
<1>6. QED
  BY <1>4, <1>5

LEMMA AckedDelete == ASSUME AckedInv, TypeInv', DeletePoolFile PROVE AckedInv'
<1>1. PICK d \in doomed : /\ pool' = Delete(pool, PathOf(index, d.pkg))
                          /\ doomed' = doomed \ {d}
  BY DEF DeletePoolFile
<1>2. /\ UNCHANGED <<packages, op, index, kept, queue, acked, pc>>
      /\ pc = "rewrite" /\ index \in Indexes /\ d.pkg \in Packages
      /\ op \in AddOps => index = TargetOf(op) /\ op.pkg \in Packages
      /\ \A e \in kept : e.pkg # d.pkg
  BY DEF DeletePoolFile, AckedInv, TypeInv, TypeOK, ControlOK, SplitOK, Contents,
         Stanzas, AddOps
<1>3. SplitOK' /\ RemoveOK'
  BY <1>1, <1>2 DEF SplitOK, RemoveOK, AckedInv
<1>4. AddedOK'
  <2> SUFFICES ASSUME op \in AddOps, NEW e \in kept, e.pkg = op.pkg
               PROVE  /\ e.build = op.build
                      /\ Holds(pool', PathOf(TargetOf(op), op.pkg), op.build)
    BY <1>2 DEF AddedOK
  <2>1. e.build = op.build /\ Holds(pool, PathOf(index, op.pkg), op.build)
    BY <1>2 DEF AckedInv, AddedOK
  <2>2. PathOf(index, op.pkg) # PathOf(index, d.pkg) /\ PathOf(index, op.pkg) \in Paths
    BY <1>2, PathsDiffer
  <2>3. QED
    BY <1>1, <1>2, <2>1, <2>2, StoreEffect
<1>5. ASSUME NEW f \in acked PROVE FileOK(f)'
  <2>1. FileOK(f) /\ f.path \in Paths
    BY DEF AckedInv, TypeInv, TypeOK
  <2>2. f.path # PathOf(index, d.pkg)
    BY <1>1, <1>2, <2>1, PathsDiffer DEF FileOK
  <2>3. Holds(pool', f.path, f.build)
    BY <1>1, <1>2, <2>1, <2>2, StoreEffect DEF FileOK
  <2>4. QED
    BY <1>1, <1>2, <2>1, <2>3 DEF FileOK, Read
<1>6. QED
  BY <1>2, <1>3, <1>4, <1>5 DEF AckedInv

LEMMA AckedPutPackages == ASSUME AckedInv, TypeInv', PutPackages PROVE AckedInv'
<1>1. /\ packages' = Put(packages, index, BuildPackages(kept))
      /\ UNCHANGED <<pool, op, index, kept, doomed, queue, acked>>
      /\ pc = "rewrite" /\ pc' = "putGz" /\ index \in Indexes
      /\ kept \in Contents
      /\ op \in AddOps => index = TargetOf(op)
  BY DEF PutPackages, locals, AckedInv, TypeInv, TypeOK, ControlOK
<1>2. ASSUME NEW e \in kept PROVE Lists(Read(index)', e.pkg, e.build)
  <2>1. PICK d \in BuildPackages(kept) : d.pkg = e.pkg /\ d.build = e.build
    BY <1>1, BuildPackagesType
  <2>2. Read(index)' = BuildPackages(kept)
    BY <1>1 DEF Read, Put
  <2>3. QED
    BY <2>1, <2>2 DEF Lists
<1>3. SplitOK' /\ RemoveOK' /\ AddedOK'
  BY <1>1, <1>2 DEF SplitOK, RemoveOK, AddedOK, AckedInv
<1>4. ASSUME NEW f \in acked PROVE FileOK(f)'
  <2>1. FileOK(f) /\ IndexAt(f.path) \in Indexes
    BY PathParts DEF AckedInv, TypeInv, TypeOK
  <2>2. CASE IndexAt(f.path) = index
    <3>1. PICK e \in kept : e.pkg = f.path.pkg /\ e.build = f.build
      BY <1>1, <2>1, <2>2 DEF FileOK, Lists
    <3>2. Lists(Read(IndexAt(f.path))', f.path.pkg, f.build)
      BY <1>1, <1>2, <2>2, <3>1 DEF Read
    <3>3. QED
      BY <1>1, <2>1, <3>2 DEF FileOK
  <2>3. CASE IndexAt(f.path) # index
    BY <1>1, <2>1, <2>3 DEF FileOK, Read, Put
  <2>4. QED
    BY <2>2, <2>3
<1>5. QED
  BY <1>1, <1>3, <1>4 DEF AckedInv

\* The steps that write neither the pool nor a Packages file.
LEMMA AckedOtherStep ==
  ASSUME AckedInv, TypeInv',
         \/ EndScan \/ PutPackagesGz \/ PublishRelease \/ PutInRelease \/ PutReleaseGpg
  PROVE  AckedInv'
<1>1. /\ UNCHANGED <<pool, packages, op, index, kept, doomed, queue, acked>>
      /\ pc' \notin {"idle", "upload", "updateIndex", "rewrite"}
      /\ pc \notin {"idle", "upload", "updateIndex", "rewrite", "return"}
  BY DEF EndScan, PutPackagesGz, PublishRelease, PutInRelease, PutReleaseGpg,
         AfterScan, AfterRelease, bucket, locals
<1>2. op \in AddOps => pc # "scan"
  BY DEF AckedInv, TypeInv, ControlOK, AddOps, RemoveOps
<1>3. SplitOK' /\ RemoveOK' /\ AddedOK'
  BY <1>1, <1>2 DEF SplitOK, RemoveOK, AddedOK, AckedInv, Read
<1>4. ASSUME NEW f \in acked PROVE FileOK(f)'
  BY <1>1 DEF AckedInv, FileOK, Read
<1>5. QED
  BY <1>1, <1>3, <1>4 DEF AckedInv

LEMMA AckedEnd == ASSUME AckedInv, TypeInv', Return \/ Fail PROVE AckedInv'
<1>1. UNCHANGED <<pool, packages, op>> /\ pc # "idle" /\ pc' = "idle"
  BY DEF Return, Fail, Finish, bucket
<1>2. SplitOK' /\ RemoveOK' /\ AddedOK'
  BY <1>1 DEF SplitOK, RemoveOK, AddedOK
<1>3. ASSUME NEW f \in acked' PROVE FileOK(f)'
  <2>1. CASE f \in acked
    BY <1>1, <2>1 DEF AckedInv, FileOK, Read
  <2>2. CASE f \notin acked
    <3>1. PICK e \in kept : op.kind = "add" /\ e.pkg = op.pkg /\ pc = "return"
            /\ f = [path |-> PathOf(index, op.pkg), build |-> op.build]
      BY <2>2 DEF Return, Fail
    <3>2. op \in AddOps /\ index = TargetOf(op) /\ op.pkg \in Packages
      BY <1>1, <3>1, KindOf DEF AckedInv, TypeInv, ControlOK
    <3>3. /\ e.build = op.build
          /\ Holds(pool, PathOf(index, op.pkg), op.build)
          /\ Lists(Read(index), op.pkg, op.build)
      BY <3>1, <3>2 DEF AckedInv, AddedOK
    <3>4. IndexAt(f.path) = index /\ f.path.pkg = op.pkg
      BY <3>1, <3>2, TargetType, PathsDiffer
    <3>5. QED
      BY <1>1, <3>1, <3>3, <3>4 DEF FileOK, Read
  <2>3. QED
    BY <2>1, <2>2
<1>4. QED
  BY <1>2, <1>3 DEF AckedInv

LEMMA AckedStep == AckedInv /\ [Next]_vars => AckedInv'
<1> SUFFICES ASSUME AckedInv, [Next]_vars
             PROVE  AckedInv'
  OBVIOUS
<1>1. TypeInv'
  BY TypeStep DEF AckedInv
<1>2. CASE UNCHANGED vars
  BY <1>1, <1>2 DEF vars, bucket, locals, AckedInv, SplitOK, RemoveOK, AddedOK, FileOK,
                    Read
<1>3. QED
  BY <1>1, <1>2, AckedBegin, AckedUpload, AckedUpdateIndex, AckedScan, AckedDelete,
     AckedPutPackages, AckedOtherStep, AckedEnd DEF Next, Step

\* What Add has published stays in the pool and in its index, at every step of
\* every later operation and whatever of them fails or is never retried, until an
\* operation sets out to remove it, to replace it or to prune it; provided that no
\* component lies in the directory of another (Add, Remove, updateIndex).
THEOREM PublishedStays ==
  ASSUME Flat
  PROVE  Spec => []AckedStays
<1>1. Init => AckedInv
  BY AckedInit
<1>2. QED
  BY <1>1, AckedStep, AckedInvStays, PTL DEF Spec

-----------------------------------------------------------------------------
(***************************************************************************)
(* Agreement.  The Release lists the indexes, and its signatures are its   *)
(* own, whenever an operation reports that it has published; and, for a    *)
(* caller that retries a failed Add before it does anything else, the pool *)
(* holds what the indexes list.                                            *)
(***************************************************************************)

(* The Release of a publisher that reports success.                        *)

\* An operation that has something to publish.
Publishes == op \in AddOps \/ removed # {}

\* How far publishRelease has come.
ReleaseOK ==
  /\ pc \in {"putInRelease", "putReleaseGpg"} => ReleaseCurrent
  /\ pc = "putReleaseGpg" => Holds(dist, "InRelease", dist["Release"])
  /\ pc = "return" /\ Publishes => ReleaseCurrent /\ (Signed => ReleaseSigned)

PublishInv == TypeInv /\ ReleaseOK /\ PublishedReleaseCurrent

\* Writing one of the files of the distribution.
LEMMA DistEffect ==
  ASSUME NEW s, NEW k, NEW v
  PROVE  /\ Put(s, k, v)[k] = v
         /\ k \in DOMAIN Put(s, k, v)
         /\ \A j : j # k => (j \in DOMAIN Put(s, k, v) <=> j \in DOMAIN s)
         /\ \A j \in DOMAIN s : j # k => Put(s, k, v)[j] = s[j]
BY DEF Put

LEMMA PublishInit == Init => PublishInv
BY TypeInit DEF Init, PublishInv, ReleaseOK, PublishedReleaseCurrent

\* publishRelease lists the indexes as they are, and takes both signatures with it.
LEMMA PublishRelease_Release ==
  ASSUME PublishInv, PublishRelease
  PROVE  /\ ReleaseCurrent'
         /\ pc' = AfterRelease
<1>1. dist' = Put(dist, "Release", BuildRelease) /\ UNCHANGED <<packages, packagesGz>>
  BY DEF PublishRelease
<1>2. "Release" \in DOMAIN dist' /\ dist'["Release"] = BuildRelease
  BY <1>1, DistEffect
<1>3. QED
  BY <1>1, <1>2 DEF ReleaseCurrent, BuildRelease, PublishRelease

LEMMA PublishStep == PublishInv /\ [Next]_vars => PublishInv'
<1> SUFFICES ASSUME PublishInv, [Next]_vars
             PROVE  PublishInv'
  OBVIOUS
<1> DEFINE Goal == (ReleaseOK /\ PublishedReleaseCurrent)'
<1>1. TypeInv'
  BY TypeStep DEF PublishInv
<1>2. CASE \/ \E o \in AddOps : BeginAdd(o)
           \/ \E o \in RemoveOps : BeginRemove(o)
           \/ Upload \/ UpdateIndex \/ ScanIndex \/ DeletePoolFile \/ PutPackages
           \/ PutPackagesGz
  <2>1. pc' \in {"upload", "scan", "updateIndex", "rewrite", "putGz", "publishRelease"}
    BY <1>2 DEF BeginAdd, BeginRemove, Start, Upload, UpdateIndex, ScanIndex, DeletePoolFile,
                PutPackages, PutPackagesGz
  <2>2. QED
    BY <1>1, <2>1 DEF PublishInv, ReleaseOK, PublishedReleaseCurrent
<1>3. CASE EndScan
  <2>1. op \notin AddOps
    BY <1>3 DEF EndScan, PublishInv, TypeInv, ControlOK, AddOps, RemoveOps
  <2>2. UNCHANGED <<op, removed>> /\ pc' = AfterScan
    BY <1>3 DEF EndScan, locals
  <2>3. QED
    BY <1>1, <2>1, <2>2
    DEF AfterScan, Publishes, PublishInv, ReleaseOK, PublishedReleaseCurrent
<1>4. CASE PublishRelease
  <2>1. ReleaseCurrent' /\ pc' = AfterRelease
    BY <1>4, PublishRelease_Release
  <2>2. QED
    BY <1>1, <2>1 DEF AfterRelease, PublishInv, ReleaseOK, PublishedReleaseCurrent
<1>5. CASE PutInRelease
  <2>1. /\ dist' = Put(dist, "InRelease", dist["Release"])
        /\ UNCHANGED <<packages, packagesGz>>
        /\ pc' = "putReleaseGpg"
        /\ ReleaseCurrent
    BY <1>5 DEF PutInRelease, PublishInv, ReleaseOK
  <2>2. "Release" \in DOMAIN dist' /\ dist'["Release"] = dist["Release"]
    BY <2>1, DistEffect DEF ReleaseCurrent
  <2>3. "InRelease" \in DOMAIN dist' /\ dist'["InRelease"] = dist["Release"]
    BY <2>1, DistEffect
  <2>4. ReleaseCurrent' /\ Holds(dist', "InRelease", dist'["Release"])
    BY <2>1, <2>2, <2>3 DEF ReleaseCurrent, Holds
  <2>5. QED
    BY <1>1, <2>1, <2>4 DEF PublishInv, ReleaseOK, PublishedReleaseCurrent
<1>6. CASE PutReleaseGpg
  <2>1. /\ dist' = Put(dist, "Release.gpg", dist["Release"])
        /\ UNCHANGED <<packages, packagesGz>>
        /\ pc' = "return"
        /\ ReleaseCurrent /\ Holds(dist, "InRelease", dist["Release"])
    BY <1>6 DEF PutReleaseGpg, PublishInv, ReleaseOK
  <2>2. "Release" \in DOMAIN dist' /\ dist'["Release"] = dist["Release"]
    BY <2>1, DistEffect DEF ReleaseCurrent
  <2>3. "InRelease" \in DOMAIN dist' /\ dist'["InRelease"] = dist["Release"]
    BY <2>1, DistEffect DEF Holds
  <2>4. "Release.gpg" \in DOMAIN dist' /\ dist'["Release.gpg"] = dist["Release"]
    BY <2>1, DistEffect
  <2>5. ReleaseCurrent' /\ ReleaseSigned'
    BY <2>1, <2>2, <2>3, <2>4 DEF ReleaseCurrent, ReleaseSigned, Holds
  <2>6. QED
    BY <1>1, <2>1, <2>5 DEF PublishInv, ReleaseOK, PublishedReleaseCurrent
<1>7. CASE Return
  <2>1. /\ UNCHANGED bucket /\ pc = "return" /\ pc' = "idle"
        /\ outcome' = "published" => ~ (op.kind = "remove" /\ removed = {})
    BY <1>7 DEF Return, Finish
  <2>2. outcome' = "published" => Publishes
    BY <2>1, KindOf DEF Publishes, PublishInv, TypeInv, ControlOK
  <2>3. outcome' = "published" => ReleaseCurrent /\ (Signed => ReleaseSigned)
    BY <2>1, <2>2 DEF PublishInv, ReleaseOK
  <2>4. QED
    BY <1>1, <2>1, <2>3 DEF PublishInv, ReleaseOK, PublishedReleaseCurrent, bucket,
       ReleaseCurrent, ReleaseSigned
<1>8. CASE Fail
  <2>1. pc' = "idle" /\ outcome' = "failed"
    BY <1>8 DEF Fail, Finish
  <2>2. QED
    BY <1>1, <2>1 DEF PublishInv, ReleaseOK, PublishedReleaseCurrent
<1>9. CASE UNCHANGED vars
  BY <1>1, <1>9 DEF vars, bucket, locals, PublishInv, ReleaseOK, Publishes,
     PublishedReleaseCurrent, ReleaseCurrent, ReleaseSigned
<1>10. QED
  BY <1>2, <1>3, <1>4, <1>5, <1>6, <1>7, <1>8, <1>9 DEF Next, Step

LEMMA PublishInvariance == Spec => []PublishInv
<1>1. QED
  BY PublishInit, PublishStep, PTL DEF Spec

\* An operation that reports that it has published leaves a Release that lists
\* every index as it is, compressed or not, with both signatures in a signed
\* repository; whatever was interrupted before it and never retried, and in
\* whichever component (publishRelease, signRelease).
THEOREM PublishedReleaseIsCurrent == Spec => []PublishedReleaseCurrent
<1>1. PublishInv => PublishedReleaseCurrent
  BY DEF PublishInv
<1>2. QED
  BY PublishInvariance, <1>1, PTL

-----------------------------------------------------------------------------
(* The index being rewritten.                                              *)

\* No operation is under way unless its outcome is open.
OutcomeOK == pc = "idle" <=> outcome # "running"

\* What is to be kept and what is still to be deleted follows from the index,
\* which has not been written yet.
RewriteOK ==
  pc = "rewrite" =>
    /\ op \in AddOps =>
         /\ kept = Prune(Insert(Read(index), op))
         /\ doomed \subseteq Surplus(Insert(Read(index), op))
    /\ op \in RemoveOps =>
         /\ kept = Read(index) \ Matching(Read(index), op)
         /\ doomed \subseteq Matching(Read(index), op)

WriteInv == TypeInv /\ OutcomeOK /\ RewriteOK

LEMMA WriteInit == Init => WriteInv
BY TypeInit DEF Init, WriteInv, OutcomeOK, RewriteOK

LEMMA WriteStep == WriteInv /\ [Next]_vars => WriteInv'
<1> SUFFICES ASSUME WriteInv, [Next]_vars
             PROVE  WriteInv'
  OBVIOUS
<1>1. TypeInv'
  BY TypeStep DEF WriteInv
<1>2. CASE \/ \E o \in AddOps : BeginAdd(o)
           \/ \E o \in RemoveOps : BeginRemove(o)
  <2>1. pc' \in {"upload", "scan"} /\ outcome' = "running"
    BY <1>2 DEF BeginAdd, BeginRemove, Start
  <2>2. QED
    BY <1>1, <2>1 DEF WriteInv, OutcomeOK, RewriteOK
<1>3. CASE Upload \/ EndScan \/ PutPackages \/ PutPackagesGz \/ PublishRelease
           \/ PutInRelease \/ PutReleaseGpg
  <2>1. pc # "idle" /\ pc' \notin {"idle", "rewrite"} /\ UNCHANGED outcome
    BY <1>3 DEF Upload, EndScan, PutPackages, PutPackagesGz, PublishRelease,
                PutInRelease, PutReleaseGpg, AfterScan, AfterRelease
  <2>2. QED
    BY <1>1, <2>1 DEF WriteInv, OutcomeOK, RewriteOK
<1>4. CASE UpdateIndex
  <2>1. /\ pc = "updateIndex" /\ pc' = "rewrite" /\ op \notin RemoveOps
        /\ UNCHANGED <<packages, op, index, outcome>>
    BY <1>4 DEF UpdateIndex, bucket, WriteInv, TypeInv, ControlOK, AddOps, RemoveOps
  <2>2. /\ kept' = Prune(Insert(Read(index), op))
        /\ doomed' = Surplus(Insert(Read(index), op))
    BY <1>4 DEF UpdateIndex
  <2>3. Read(index)' = Read(index)
    BY <2>1 DEF Read
  <2>4. QED
    BY <1>1, <2>1, <2>2, <2>3 DEF WriteInv, OutcomeOK, RewriteOK
<1>5. CASE ScanIndex
  <2>1. /\ pc = "scan" /\ op \notin AddOps /\ UNCHANGED <<packages, op, outcome>>
    BY <1>5 DEF ScanIndex, bucket, WriteInv, TypeInv, ControlOK, AddOps, RemoveOps
  <2>2. PICK i \in queue :
          IF Matching(Read(i), op) = {}
          THEN UNCHANGED <<pc, index, kept, doomed, removed>>
          ELSE /\ pc' = "rewrite"
               /\ index' = i
               /\ kept' = Read(i) \ Matching(Read(i), op)
               /\ doomed' = Matching(Read(i), op)
    BY <1>5 DEF ScanIndex
  <2>3. \A j : Read(j)' = Read(j)
    BY <2>1 DEF Read
  <2>4. pc' \in {"scan", "rewrite"} /\ (pc' = "rewrite" => Matching(Read(i), op) # {})
    BY <2>1, <2>2
  <2>5. RewriteOK'
    BY <2>1, <2>2, <2>3, <2>4 DEF RewriteOK, Read
  <2>6. QED
    BY <1>1, <2>1, <2>4, <2>5 DEF WriteInv, OutcomeOK
<1>6. CASE DeletePoolFile
  <2>1. doomed' \subseteq doomed /\ UNCHANGED <<packages, pc, op, index, kept, outcome>>
    BY <1>6 DEF DeletePoolFile
  <2>2. QED
    BY <1>1, <2>1 DEF WriteInv, OutcomeOK, RewriteOK, Read
<1>7. CASE Return \/ Fail
  <2>1. pc' = "idle" /\ outcome' \in {"published", "unchanged", "failed"}
    BY <1>7 DEF Return, Fail, Finish
  <2>2. QED
    BY <1>1, <2>1 DEF WriteInv, OutcomeOK, RewriteOK
<1>8. CASE UNCHANGED vars
  BY <1>1, <1>8 DEF vars, bucket, locals, WriteInv, OutcomeOK, RewriteOK, Read
<1>9. QED
  BY <1>2, <1>3, <1>4, <1>5, <1>6, <1>7, <1>8 DEF Next, Step

LEMMA WriteInvariance == Spec => []WriteInv
<1>1. QED
  BY WriteInit, WriteStep, PTL DEF Spec

\* What is kept and what goes are of different packages.
LEMMA Split ==
  ASSUME WriteInv, pc = "rewrite"
  PROVE  /\ \A d \in doomed, e \in kept : d.pkg # e.pkg
         /\ \A e \in kept : e.pkg \in Packages
         /\ \A d \in doomed : d.pkg \in Packages
<1>1. Read(index) \in Contents /\ (op \in AddOps => Insert(Read(index), op) \in Contents)
  BY ReadType, InsertType DEF WriteInv, TypeInv, TypeOK
<1>2. \A e \in kept \cup doomed : e.pkg \in Packages
  BY DEF WriteInv, TypeInv, TypeOK, Contents, Stanzas
<1>3. CASE op \in AddOps
  BY <1>1, <1>2, <1>3, PruneSubset DEF WriteInv, RewriteOK, Surplus, Contents
<1>4. CASE op \in RemoveOps
  BY <1>1, <1>2, <1>4 DEF WriteInv, RewriteOK, Matching, Contents
<1>5. QED
  BY <1>3, <1>4 DEF WriteInv, TypeInv, ControlOK

-----------------------------------------------------------------------------
(* The pool and the indexes.                                               *)

\* The Packages files that a Remove has still to scan.
QueueOK ==
  /\ queue # {} => op \in RemoveOps /\ pc \in {"scan", "rewrite", "putGz"}
  /\ queue # {} => queue \subseteq IndexesOf(op.component)
  /\ pc = "rewrite" /\ op \in RemoveOps => index \in IndexesOf(op.component) \ queue

\* The indexes that the operation under way, or the failed one that is to be run
\* again, may still have to write.
Unwritten(i) ==
  \/ i \in queue
  \/ pc = "rewrite" /\ i = index
  \/ pc \in {"upload", "updateIndex"} /\ i = TargetOf(op)
  \/ /\ pc = "idle" /\ outcome = "failed"
     /\ \/ op \in AddOps /\ i = TargetOf(op)
        \/ op \in RemoveOps /\ i \in IndexesOf(op.component)

\* What an Add finds in the pool, an interrupted run of the same Add before it or
\* not: the files of the stanzas it is going to keep, and no file but those of the
\* index and its own.
AddPending(i) ==
  /\ \A e \in Read(i) : e.pkg # op.pkg /\ e \in Prune(Insert(Read(i), op)) =>
       Holds(pool, PathOf(i, e.pkg), e.build)
  /\ \A pkg \in Packages :
       PathOf(i, pkg) \in DOMAIN pool => pkg = op.pkg \/ \E e \in Read(i) : e.pkg = pkg

\* What a Remove finds: the files of the stanzas it does not drop, and no file but
\* those of the index.
RemovePending(i) ==
  /\ \A e \in Read(i) : e.pkg # op.pkg => Holds(pool, PathOf(i, e.pkg), e.build)
  /\ \A pkg \in Packages : PathOf(i, pkg) \in DOMAIN pool => \E e \in Read(i) : e.pkg = pkg

\* The files of the stanzas to keep are there, and no others but those still to
\* be deleted.
PoolFollows ==
  /\ \A e \in kept : Holds(pool, PathOf(index, e.pkg), e.build)
  /\ \A pkg \in Packages :
       PathOf(index, pkg) \in DOMAIN pool => \E e \in kept \cup doomed : e.pkg = pkg

PoolOK ==
  /\ \A i \in Indexes : Unwritten(i) \/ PoolMatches(i)
  /\ \A i \in queue : RemovePending(i)
  /\ pc \in {"upload", "updateIndex"} => AddPending(TargetOf(op))
  /\ pc = "updateIndex" => Holds(pool, PathOf(TargetOf(op), op.pkg), op.build)
  /\ pc = "rewrite" => PoolFollows
  /\ pc = "idle" /\ outcome = "failed" =>
       /\ op \in AddOps \cup RemoveOps
       /\ op \in AddOps => AddPending(TargetOf(op))
       /\ op \in RemoveOps => \A i \in IndexesOf(op.component) : RemovePending(i)

PoolInv == WriteInv /\ QueueOK /\ PoolOK

\* What an operator does who runs an operation again after it has failed.
RunsAgain == pc = "idle" /\ outcome = "failed" => op' = op

LEMMA RetriesRunAgain == RetryFirst /\ [Next]_vars => RunsAgain
<1>1. RetryFirst /\ UNCHANGED vars => RunsAgain
  BY DEF vars, RunsAgain
<1>2. ASSUME RetryFirst, Next, pc = "idle", outcome = "failed"
      PROVE  op' = op
  <2>1. ~ Step /\ ~ Fail
    BY <1>2 DEF Step, Upload, UpdateIndex, ScanIndex, EndScan, DeletePoolFile, PutPackages,
       PutPackagesGz, PublishRelease, PutInRelease, PutReleaseGpg, Return, Fail
  <2>2. PICK o : BeginAdd(o) \/ BeginRemove(o)
    BY <1>2, <2>1 DEF Next
  <2>3. QED
    BY <1>2, <2>2 DEF BeginAdd, BeginRemove, Start, Admissible
<1>3. QED
  BY <1>1, <1>2 DEF RunsAgain

LEMMA PoolInit == Init => PoolInv
<1> SUFFICES ASSUME Init
             PROVE  PoolInv
  OBVIOUS
<1>1. \A i : Read(i) = {}
  BY DEF Init, Read, Empty
<1>2. \A i \in Indexes : PoolMatches(i)
  BY <1>1 DEF PoolMatches, Init, Empty
<1>3. QED
  BY <1>2, WriteInit DEF PoolInv, QueueOK, PoolOK, Init

\* What becomes of the files and stanzas of one index is nothing to another.
LEMMA OtherPaths ==
  ASSUME NEW i \in Indexes, NEW p \in Packages, NEW j \in Indexes, NEW q \in Packages,
         i # j \/ p # q, NEW s, NEW v, NEW b
  PROVE  /\ Holds(Put(s, PathOf(j, q), v), PathOf(i, p), b) <=> Holds(s, PathOf(i, p), b)
         /\ Holds(Delete(s, PathOf(j, q)), PathOf(i, p), b) <=> Holds(s, PathOf(i, p), b)
         /\ PathOf(i, p) \in DOMAIN Put(s, PathOf(j, q), v) <=> PathOf(i, p) \in DOMAIN s
         /\ PathOf(i, p) \in DOMAIN Delete(s, PathOf(j, q)) <=> PathOf(i, p) \in DOMAIN s
<1>1. PathOf(i, p) # PathOf(j, q)
  BY PathsDiffer
<1> HIDE DEF PathOf
<1>2. QED
  BY <1>1 DEF Put, Delete, Holds

\* The packages that an index lists.
LEMMA ReadPackages ==
  ASSUME TypeInv, NEW i
  PROVE  \A e \in Read(i) : e.pkg \in Packages
BY ReadType DEF TypeInv, TypeOK, Contents, Stanzas

\* A pool that matches an index is what an operation on it may start from.
LEMMA MatchesIsPending ==
  ASSUME NEW i, PoolMatches(i)
  PROVE  AddPending(i) /\ RemovePending(i)
BY DEF PoolMatches, AddPending, RemovePending

\* A step that leaves the pool and the Packages files alone.
LEMMA PoolFrame ==
  ASSUME UNCHANGED <<pool, packages>>
  PROVE  /\ \A i : Read(i)' = Read(i) /\ PoolMatches(i)' = PoolMatches(i)
         /\ \A c : IndexesOf(c)' = IndexesOf(c)
         /\ \A i : op' = op => /\ AddPending(i)' = AddPending(i)
                               /\ RemovePending(i)' = RemovePending(i)
<1>1. \A i : Read(i)' = Read(i)
  BY DEF Read
<1>2. \A i : PoolMatches(i)' = PoolMatches(i)
  BY <1>1 DEF PoolMatches
<1>3. \A c : IndexesOf(c)' = IndexesOf(c)
  BY DEF IndexesOf
<1>4. ASSUME NEW i, op' = op
      PROVE  AddPending(i)' = AddPending(i) /\ RemovePending(i)' = RemovePending(i)
  BY <1>1, <1>4 DEF AddPending, RemovePending
<1>5. QED
  BY <1>1, <1>2, <1>3, <1>4

LEMMA PoolBeginAdd ==
  ASSUME PoolInv, RunsAgain, NEW o \in AddOps, BeginAdd(o)
  PROVE  QueueOK' /\ PoolOK'
<1>1. /\ UNCHANGED <<pool, packages, queue>>
      /\ pc = "idle" /\ pc' = "upload" /\ op' = o /\ outcome' = "running"
      /\ outcome = "failed" => o = op
  BY DEF BeginAdd, Start, Admissible, bucket, RunsAgain
<1>2. queue = {} /\ QueueOK'
  BY <1>1 DEF PoolInv, QueueOK
<1>3. AddPending(TargetOf(o))'
  <2>1. CASE outcome = "failed"
    <3>1. op' = op /\ AddPending(TargetOf(op))
      BY <1>1, <2>1 DEF PoolInv, PoolOK
    <3>2. AddPending(TargetOf(op))' = AddPending(TargetOf(op))
      BY <1>1, <3>1 DEF AddPending, Read
    <3>3. QED
      BY <1>1, <3>1, <3>2
  <2>2. CASE outcome # "failed"
    <3>1. PoolMatches(TargetOf(o))
      BY <1>1, <1>2, <2>2, TargetType DEF PoolInv, PoolOK, Unwritten
    <3>2. PoolMatches(TargetOf(o))'
      BY <1>1, <3>1 DEF PoolMatches, Read
    <3>3. QED
      BY <3>2 DEF PoolMatches, AddPending
  <2>3. QED
    BY <2>1, <2>2
<1>4. ASSUME NEW i \in Indexes PROVE Unwritten(i)' \/ PoolMatches(i)'
  <2>1. Unwritten(i) => outcome = "failed" /\ i = TargetOf(o)
    BY <1>1, <1>2 DEF Unwritten, AddOps, RemoveOps
  <2>2. i = TargetOf(o) => Unwritten(i)'
    BY <1>1 DEF Unwritten
  <2>3. QED
    BY <1>1, <2>1, <2>2, PoolFrame DEF PoolInv, PoolOK
<1>5. QED
  BY <1>1, <1>2, <1>3, <1>4 DEF PoolOK

LEMMA PoolBeginRemove ==
  ASSUME PoolInv, RunsAgain, NEW o \in RemoveOps, BeginRemove(o)
  PROVE  QueueOK' /\ PoolOK'
<1>1. /\ UNCHANGED <<pool, packages>>
      /\ pc = "idle" /\ pc' = "scan" /\ op' = o /\ outcome' = "running"
      /\ queue' = IndexesOf(o.component)
      /\ outcome = "failed" => o = op
      /\ o \notin AddOps
  BY DEF BeginRemove, Start, Admissible, bucket, RunsAgain, AddOps, RemoveOps
<1>2. queue = {}
  BY <1>1 DEF PoolInv, QueueOK
<1>3. QueueOK'
  BY <1>1, PoolFrame DEF QueueOK
<1>4. ASSUME NEW i \in queue' PROVE RemovePending(i)'
  <2>1. CASE outcome = "failed"
    BY <1>1, <2>1, PoolFrame DEF PoolInv, PoolOK
  <2>2. CASE outcome # "failed"
    <3>1. i \in Indexes
      BY <1>1 DEF IndexesOf, PoolInv, WriteInv, TypeInv, TypeOK, IsStore
    <3>2. PoolMatches(i)
      BY <1>1, <1>2, <2>2, <3>1 DEF PoolInv, PoolOK, Unwritten
    <3>3. PoolMatches(i)'
      BY <1>1, <3>2, PoolFrame
    <3>4. QED
      BY <3>3 DEF PoolMatches, RemovePending
  <2>3. QED
    BY <2>1, <2>2
<1>5. ASSUME NEW i \in Indexes PROVE Unwritten(i)' \/ PoolMatches(i)'
  <2>1. Unwritten(i) => i \in queue'
    BY <1>1, <1>2 DEF Unwritten
  <2>2. i \in queue' => Unwritten(i)'
    BY DEF Unwritten
  <2>3. QED
    BY <1>1, <2>1, <2>2, PoolFrame DEF PoolInv, PoolOK
<1>6. QED
  BY <1>1, <1>3, <1>4, <1>5 DEF PoolOK

LEMMA PoolUpload == ASSUME PoolInv, Upload PROVE QueueOK' /\ PoolOK'
<1> DEFINE t == TargetOf(op)
<1>1. /\ op \in AddOps /\ t \in Indexes /\ op.pkg \in Packages
      /\ pool' = Put(pool, PathOf(t, op.pkg), op.build)
      /\ UNCHANGED <<packages, op, outcome, queue>>
      /\ pc = "upload" /\ pc' = "updateIndex"
      /\ queue = {}
  BY TargetType, KindOf DEF Upload, TargetOf, PoolInv, QueueOK, WriteInv, TypeInv, ControlOK
<1>2. \A i : Read(i)' = Read(i)
  BY <1>1 DEF Read
<1>3. \A i : \A e \in Read(i) : e.pkg \in Packages
  BY ReadPackages DEF PoolInv, WriteInv
<1>4. ASSUME NEW i \in Indexes, i # t PROVE PoolMatches(i)'
  <2>1. PoolMatches(i)
    BY <1>1, <1>4 DEF PoolInv, PoolOK, Unwritten
  <2>2. \A e \in Read(i) : Holds(pool', PathOf(i, e.pkg), e.build)
    BY <1>1, <1>3, <1>4, <2>1, OtherPaths DEF PoolMatches
  <2>3. \A pkg \in Packages : PathOf(i, pkg) \in DOMAIN pool' => PathOf(i, pkg) \in DOMAIN pool
    BY <1>1, <1>4, OtherPaths
  <2>4. QED
    BY <1>2, <2>1, <2>2, <2>3 DEF PoolMatches
<1>5. Holds(pool', PathOf(t, op.pkg), op.build)
  BY <1>1, StoreEffect
<1>6. AddPending(t)'
  <2>1. AddPending(t)
    BY <1>1 DEF PoolInv, PoolOK
  <2>2. \A e \in Read(t) : e.pkg # op.pkg /\ e \in Prune(Insert(Read(t), op)) =>
          Holds(pool', PathOf(t, e.pkg), e.build)
    BY <1>1, <1>3, <2>1, OtherPaths DEF AddPending
  <2>3. \A pkg \in Packages : pkg # op.pkg /\ PathOf(t, pkg) \in DOMAIN pool' =>
          PathOf(t, pkg) \in DOMAIN pool
    BY <1>1, OtherPaths
  <2>4. t' = t /\ op' = op
    BY <1>1
  <2> HIDE DEF t
  <2>5. QED
    BY <1>2, <2>1, <2>2, <2>3, <2>4 DEF AddPending
<1>7. QED
  BY <1>1, <1>4, <1>5, <1>6 DEF QueueOK, PoolOK, Unwritten

LEMMA PoolUpdateIndex == ASSUME PoolInv, UpdateIndex PROVE QueueOK' /\ PoolOK'
<1> DEFINE items == Insert(Read(index), op)
           new   == [pkg |-> op.pkg, build |-> op.build,
                     at |-> Cardinality(Read(index)) + 1]
<1>1. /\ op \in AddOps /\ op \notin RemoveOps
      /\ index = TargetOf(op) /\ index \in Indexes
      /\ pc = "updateIndex" /\ pc' = "rewrite"
      /\ UNCHANGED <<pool, packages, op, index, outcome, queue>>
      /\ queue = {}
      /\ kept' = Prune(items) /\ doomed' = Surplus(items)
  BY DEF UpdateIndex, bucket, PoolInv, QueueOK, WriteInv, TypeInv, ControlOK, AddOps,
         RemoveOps
<1>2. AddPending(index) /\ Holds(pool, PathOf(index, op.pkg), op.build)
  BY <1>1 DEF PoolInv, PoolOK
<1>3. \A e \in items : \/ e.pkg = op.pkg /\ e.build = op.build
                       \/ e.pkg # op.pkg /\ e \in Read(index)
  BY DEF Insert
<1>4. \A e \in kept' : Holds(pool, PathOf(index, e.pkg), e.build)
  BY <1>1, <1>2, <1>3, PruneSubset DEF AddPending
<1>5. kept' \cup doomed' = items
  BY <1>1, PruneSubset DEF Surplus
<1>6. new \in items /\ new.pkg = op.pkg
  BY DEF Insert
<1>7. \A e \in Read(index) : e.pkg # op.pkg => e \in items
  BY DEF Insert
<1>8. PoolFollows'
  <2>1. \E e \in items : e.pkg = op.pkg
    BY <1>6
  <2>2. QED
    BY <1>1, <1>2, <1>4, <1>5, <1>7, <2>1 DEF PoolFollows, AddPending
<1>9. \A i \in Indexes : Unwritten(i)' \/ PoolMatches(i)'
  BY <1>1 DEF PoolInv, PoolOK, Unwritten, PoolMatches, Read
<1>10. QED
  BY <1>1, <1>8, <1>9 DEF QueueOK, PoolOK

LEMMA PoolScan == ASSUME PoolInv, ScanIndex PROVE QueueOK' /\ PoolOK'
<1>1. /\ pc = "scan" /\ UNCHANGED <<pool, packages, op, outcome>>
      /\ op \in RemoveOps
  BY DEF ScanIndex, bucket, PoolInv, WriteInv, TypeInv, ControlOK
<1>2. PICK i \in queue :
        /\ queue' = queue \ {i}
        /\ IF Matching(Read(i), op) = {}
           THEN UNCHANGED <<pc, index, kept, doomed, removed>>
           ELSE /\ pc' = "rewrite"
                /\ index' = i
                /\ kept' = Read(i) \ Matching(Read(i), op)
                /\ doomed' = Matching(Read(i), op)
                /\ removed' = removed \cup {i}
  BY DEF ScanIndex
<1>3. i \in Indexes /\ i \in IndexesOf(op.component) /\ RemovePending(i)
  BY DEF PoolInv, QueueOK, PoolOK, WriteInv, TypeInv, TypeOK
<1>4. \A j \in queue' : RemovePending(j)'
  BY <1>1, <1>2, PoolFrame DEF PoolInv, PoolOK
<1>5. \A j \in Indexes : j \in queue' \/ j = i \/ PoolMatches(j)'
  BY <1>1, <1>2, PoolFrame DEF PoolInv, PoolOK, Unwritten
<1>6. CASE Matching(Read(i), op) = {}
  <2>1. PoolMatches(i)'
    <3>1. \A e \in Read(i) : e.pkg # op.pkg
      BY <1>6 DEF Matching
    <3>2. PoolMatches(i)
      BY <1>3, <3>1 DEF RemovePending, PoolMatches
    <3>3. QED
      BY <1>1, <3>2, PoolFrame
  <2>2. pc' = "scan" /\ QueueOK'
    BY <1>1, <1>2, <1>6, PoolFrame DEF PoolInv, QueueOK
  <2>3. QED
    BY <1>4, <1>5, <2>1, <2>2 DEF PoolOK, Unwritten
<1>7. CASE Matching(Read(i), op) # {}
  <2>1. /\ pc' = "rewrite" /\ index' = i
        /\ kept' \cup doomed' = Read(i)
        /\ \A e \in kept' : e \in Read(i) /\ e.pkg # op.pkg
    BY <1>2, <1>7 DEF Matching
  <2>2. PoolFollows'
    BY <1>1, <1>3, <2>1 DEF PoolFollows, RemovePending
  <2>3. QueueOK'
    BY <1>1, <1>2, <1>3, <2>1, PoolFrame DEF PoolInv, QueueOK
  <2>4. QED
    BY <1>4, <1>5, <2>1, <2>2, <2>3 DEF PoolOK, Unwritten
<1>8. QED
  BY <1>6, <1>7

LEMMA PoolDelete == ASSUME PoolInv, DeletePoolFile PROVE QueueOK' /\ PoolOK'
<1>1. PICK d \in doomed : /\ pool' = Delete(pool, PathOf(index, d.pkg))
                          /\ doomed' = doomed \ {d}
  BY DEF DeletePoolFile
<1>2. /\ UNCHANGED <<packages, op, index, kept, pc, outcome, queue>>
      /\ pc = "rewrite" /\ index \in Indexes /\ index \notin queue
      /\ queue \subseteq Indexes
  BY DEF DeletePoolFile, PoolInv, QueueOK, WriteInv, TypeInv, TypeOK, ControlOK, AddOps,
         RemoveOps
<1>3. /\ d.pkg \in Packages
      /\ \A e \in kept : e.pkg # d.pkg /\ e.pkg \in Packages
  BY <1>2, Split DEF PoolInv
<1>4. PoolFollows
  BY <1>2 DEF PoolInv, PoolOK
<1>5. \A e \in kept : Holds(pool', PathOf(index, e.pkg), e.build)
  BY <1>1, <1>2, <1>3, <1>4, OtherPaths DEF PoolFollows
<1>6. ASSUME NEW pkg \in Packages, PathOf(index, pkg) \in DOMAIN pool'
      PROVE  \E e \in kept \cup doomed' : e.pkg = pkg
  <2>1. pkg # d.pkg /\ PathOf(index, pkg) \in DOMAIN pool
    BY <1>1, <1>6, StoreEffect DEF Delete
  <2>2. QED
    BY <1>1, <1>4, <2>1 DEF PoolFollows
<1>7. PoolFollows'
  BY <1>2, <1>5, <1>6 DEF PoolFollows
<1>8. ASSUME NEW i \in Indexes, i # index
      PROVE  /\ PoolMatches(i) => PoolMatches(i)'
             /\ RemovePending(i) => RemovePending(i)'
  <2>1. \A e \in Read(i) : e.pkg \in Packages
    BY ReadPackages DEF PoolInv, WriteInv
  <2>2. \A e \in Read(i) :
          Holds(pool, PathOf(i, e.pkg), e.build) => Holds(pool', PathOf(i, e.pkg), e.build)
    BY <1>1, <1>2, <1>3, <1>8, <2>1, OtherPaths
  <2>3. \A pkg \in Packages : PathOf(i, pkg) \in DOMAIN pool' => PathOf(i, pkg) \in DOMAIN pool
    BY <1>1 DEF Delete
  <2>4. Read(i)' = Read(i)
    BY <1>2 DEF Read
  <2>5. QED
    BY <1>2, <2>2, <2>3, <2>4 DEF PoolMatches, RemovePending
<1>9. QueueOK'
  BY <1>2 DEF PoolInv, QueueOK, IndexesOf
<1>10. \A i \in queue : RemovePending(i)'
  BY <1>2, <1>8 DEF PoolInv, PoolOK
<1>11. \A i \in Indexes : Unwritten(i)' \/ PoolMatches(i)'
  BY <1>2, <1>8 DEF PoolInv, PoolOK, Unwritten
<1>12. QED
  BY <1>2, <1>7, <1>9, <1>10, <1>11 DEF PoolOK

LEMMA PoolPutPackages == ASSUME PoolInv, PutPackages PROVE QueueOK' /\ PoolOK'
<1>1. /\ packages' = Put(packages, index, BuildPackages(kept))
      /\ UNCHANGED <<pool, op, outcome, index, queue>>
      /\ pc = "rewrite" /\ pc' = "putGz" /\ doomed = {} /\ kept \in Contents
      /\ index \notin queue /\ queue \subseteq Indexes
  BY DEF PutPackages, locals, PoolInv, QueueOK, WriteInv, TypeInv, TypeOK, ControlOK,
         AddOps, RemoveOps
<1>2. PoolFollows
  BY <1>1 DEF PoolInv, PoolOK
<1>3. Read(index)' = BuildPackages(kept) /\ \A i : i # index => Read(i)' = Read(i)
  BY <1>1 DEF Read, Put
<1>4. PoolMatches(index)'
  <2>1. \A d \in BuildPackages(kept) : Holds(pool, PathOf(index, d.pkg), d.build)
    BY <1>1, <1>2, BuildPackagesType DEF PoolFollows
  <2>2. \A pkg \in Packages : PathOf(index, pkg) \in DOMAIN pool =>
          \E d \in BuildPackages(kept) : d.pkg = pkg
    BY <1>1, <1>2, BuildPackagesType DEF PoolFollows
  <2>3. QED
    BY <1>1, <1>3, <2>1, <2>2 DEF PoolMatches
<1>5. ASSUME NEW i \in Indexes, i # index
      PROVE  i \in queue \/ PoolMatches(i)'
  BY <1>1, <1>3, <1>5 DEF PoolInv, PoolOK, Unwritten, PoolMatches
<1>6. \A i \in queue : RemovePending(i)'
  BY <1>1, <1>3 DEF PoolInv, PoolOK, RemovePending
<1>7. QueueOK'
  BY <1>1 DEF PoolInv, QueueOK, IndexesOf, Put
<1>8. QED
  BY <1>1, <1>4, <1>5, <1>6, <1>7 DEF PoolOK, Unwritten

\* The steps that touch neither the pool nor a Packages file.
LEMMA PoolOtherStep ==
  ASSUME PoolInv,
         \/ EndScan \/ PutPackagesGz \/ PublishRelease \/ PutInRelease \/ PutReleaseGpg
         \/ Return
  PROVE  QueueOK' /\ PoolOK'
<1>1. /\ UNCHANGED <<pool, packages, op>>
      /\ pc \notin {"idle", "upload", "updateIndex", "rewrite"}
      /\ pc' \notin {"upload", "updateIndex", "rewrite"}
      /\ pc' = "idle" => outcome' # "failed"
  BY DEF EndScan, PutPackagesGz, PublishRelease, PutInRelease, PutReleaseGpg, Return,
         Finish, AfterScan, AfterRelease, bucket, locals
<1>2. queue' = queue /\ (queue # {} => pc' = "scan")
  <2>1. CASE PutPackagesGz
    BY <2>1, KindOf DEF PutPackagesGz, locals, PoolInv, QueueOK
  <2>2. CASE EndScan
    BY <2>2 DEF EndScan, locals
  <2>3. CASE PublishRelease \/ PutInRelease \/ PutReleaseGpg \/ Return
    BY <2>3 DEF PublishRelease, PutInRelease, PutReleaseGpg, Return, Finish, locals,
       PoolInv, QueueOK
  <2>4. QED
    BY <2>1, <2>2, <2>3
<1>3. \A i \in Indexes : i \in queue \/ PoolMatches(i)
  BY <1>1 DEF PoolInv, PoolOK, Unwritten
<1>4. QueueOK'
  BY <1>1, <1>2, PoolFrame DEF PoolInv, QueueOK
<1>5. QED
  BY <1>1, <1>2, <1>3, <1>4, PoolFrame DEF PoolInv, PoolOK, Unwritten

LEMMA PoolFail == ASSUME PoolInv, Fail PROVE QueueOK' /\ PoolOK'
<1> DEFINE t == TargetOf(op)
<1>1. /\ UNCHANGED <<pool, packages, op>> /\ queue' = {}
      /\ pc # "idle" /\ pc' = "idle" /\ outcome' = "failed"
      /\ op \in AddOps \cup RemoveOps
  BY DEF Fail, Finish, bucket, PoolInv, WriteInv, TypeInv, ControlOK
<1>2. CASE op \in AddOps
  <2>1. op \notin RemoveOps /\ t \in Indexes /\ queue = {}
    BY <1>2, TargetType DEF AddOps, RemoveOps, PoolInv, QueueOK
  <2>2. \A i \in Indexes : i # t => PoolMatches(i)
    BY <1>1, <1>2, <2>1 DEF PoolInv, PoolOK, Unwritten, WriteInv, TypeInv, ControlOK
  <2>3. AddPending(t)
    <3>1. CASE pc \in {"upload", "updateIndex"}
      BY <3>1 DEF PoolInv, PoolOK
    <3>2. CASE pc = "rewrite"
      <4>1. index = t /\ PoolFollows /\ kept = Prune(Insert(Read(t), op))
              /\ doomed \subseteq Insert(Read(t), op)
        BY <1>2, <3>2 DEF PoolInv, PoolOK, WriteInv, TypeInv, ControlOK, RewriteOK, Surplus
      <4>2. \A e \in kept \cup doomed : e.pkg = op.pkg \/ e \in Read(t)
        BY <4>1, PruneSubset DEF Insert
      <4>3. QED
        BY <4>1, <4>2 DEF PoolFollows, AddPending
    <3>3. CASE pc \notin {"idle", "upload", "updateIndex", "rewrite"}
      BY <2>1, <3>3, MatchesIsPending DEF PoolInv, PoolOK, Unwritten
    <3>4. QED
      BY <1>1, <3>1, <3>2, <3>3
  <2>4. QED
    BY <1>1, <1>2, <2>1, <2>2, <2>3, PoolFrame DEF QueueOK, PoolOK, Unwritten
<1>3. CASE op \in RemoveOps
  <2>1. op \notin AddOps /\ pc \notin {"upload", "updateIndex"}
          /\ IndexesOf(op.component) \subseteq Indexes
    BY <1>3 DEF AddOps, RemoveOps, PoolInv, WriteInv, TypeInv, TypeOK, ControlOK, IndexesOf,
       IsStore
  <2>2. \A i \in Indexes : i \in IndexesOf(op.component) \/ PoolMatches(i)
    BY <1>1, <1>3, <2>1 DEF PoolInv, PoolOK, QueueOK, Unwritten
  <2>3. ASSUME NEW i \in IndexesOf(op.component) PROVE RemovePending(i)
    <3>1. CASE i \in queue
      BY <3>1 DEF PoolInv, PoolOK
    <3>2. CASE i \notin queue /\ pc = "rewrite" /\ i = index
      <4>1. /\ PoolFollows /\ kept = Read(i) \ Matching(Read(i), op)
            /\ doomed \subseteq Read(i)
        BY <1>3, <3>2 DEF PoolInv, PoolOK, WriteInv, RewriteOK, Matching
      <4>2. \A e \in Read(i) : e.pkg # op.pkg => e \in kept
        BY <4>1 DEF Matching
      <4>3. QED
        BY <3>2, <4>1, <4>2 DEF PoolFollows, RemovePending
    <3>3. CASE i \notin queue /\ ~ (pc = "rewrite" /\ i = index)
      BY <1>1, <2>1, <3>3, MatchesIsPending DEF PoolInv, PoolOK, Unwritten
    <3>4. QED
      BY <3>1, <3>2, <3>3
  <2>4. QED
    BY <1>1, <1>3, <2>1, <2>2, <2>3, PoolFrame DEF QueueOK, PoolOK, Unwritten
<1>4. QED
  BY <1>1, <1>2, <1>3

LEMMA PoolStep == PoolInv /\ RunsAgain /\ [Next]_vars => PoolInv'
<1> SUFFICES ASSUME PoolInv, RunsAgain, [Next]_vars
             PROVE  PoolInv'
  OBVIOUS
<1>1. WriteInv'
  BY WriteStep DEF PoolInv
<1>2. CASE UNCHANGED vars
  <2>1. UNCHANGED <<pool, packages, pc, op, index, kept, doomed, queue, outcome>>
    BY <1>2 DEF vars, bucket, locals
  <2>2. QueueOK' /\ PoolFollows' = PoolFollows /\ \A i : Unwritten(i)' = Unwritten(i)
    BY <2>1, PoolFrame DEF PoolInv, QueueOK, PoolFollows, Unwritten
  <2>3. QED
    BY <1>1, <2>1, <2>2, PoolFrame DEF PoolInv, PoolOK
<1>3. CASE Next
  <2>1. QueueOK' /\ PoolOK'
    BY <1>3, PoolBeginAdd, PoolBeginRemove, PoolUpload, PoolUpdateIndex, PoolScan,
       PoolDelete, PoolPutPackages, PoolOtherStep, PoolFail DEF Next, Step
  <2>2. QED
    BY <1>1, <2>1 DEF PoolInv
<1>4. QED
  BY <1>2, <1>3

LEMMA PoolInvariance ==
  ASSUME RetryFirst
  PROVE  Spec => []PoolInv
<1>1. Init => PoolInv
  BY PoolInit
<1>2. PoolInv /\ [Next]_vars => PoolInv'
  BY PoolStep, RetriesRunAgain
<1>3. QED
  BY <1>1, <1>2, PTL DEF Spec

LEMMA PoolInvMatches == PoolInv => PoolMatchesPackages
<1> SUFFICES ASSUME PoolInv, Settled, NEW i \in Indexes
             PROVE  PoolMatches(i)
  BY DEF PoolMatchesPackages
<1>1. queue = {}
  BY DEF PoolInv, QueueOK, Settled
<1>2. QED
  BY <1>1 DEF PoolInv, PoolOK, Unwritten, Settled

\* When Add or Remove reports success the pool holds exactly the files that the
\* indexes list, of the very builds whose checksums they state, whatever
\* operations were interrupted before, at whichever step, provided that each was
\* run again before anything else (Add, Remove, updateIndex).
THEOREM PoolAgrees ==
  ASSUME RetryFirst
  PROVE  Spec => []PoolMatchesPackages
<1>1. QED
  BY PoolInvMatches, PoolInvariance, PTL

-----------------------------------------------------------------------------
(* The indexes, the Release and the signatures.                            *)

\* Only Adds are interrupted, and they are run again before anything else.  A
\* Remove that is interrupted after it has written an index does not match when
\* it is run again, and so publishes nothing: the pool agrees with the indexes all
\* the same, but Packages.gz and the Release may stay as they were.
RetriesAdds == RetryFirst /\ FaultyOps \subseteq {"add"}

FailedOK == outcome = "failed" => op \in AddOps

\* The index that an Add, or a failed one that is to be run again, has to write.
ToWrite(i) ==
  /\ op \in AddOps
  /\ i = TargetOf(op)
  /\ pc \in {"upload", "updateIndex", "rewrite"} \/ (pc = "idle" /\ outcome = "failed")

\* Packages.gz is the compressed Packages of an index.
GzAgrees(i) ==
  /\ i \in DOMAIN packages <=> i \in DOMAIN packagesGz
  /\ i \in DOMAIN packages => packages[i] = packagesGz[i]

\* It is for all indexes but the one that an Add has still to write, or that is
\* between its two writes.
GzOK ==
  /\ \A i \in Indexes : \/ GzAgrees(i)
                        \/ ToWrite(i)
                        \/ pc = "putGz" /\ i = index
  /\ pc = "putGz" => /\ index \in DOMAIN packages
                     /\ packages[index] = BuildPackages(kept)

\* Nothing has been written since the Release was.
Unchanging ==
  \/ Settled
  \/ pc \in {"scan", "return"} /\ op \in RemoveOps /\ removed = {}

\* A Remove that has rewritten an index knows it, and as long as it has not the
\* Release is current.
CurrentOK ==
  /\ /\ op \in RemoveOps
     /\ pc \in {"rewrite", "putGz", "publishRelease", "putInRelease", "putReleaseGpg"}
     => removed # {}
  /\ Unchanging /\ DOMAIN packages # {} => ReleaseCurrent

\* The signatures are those of the Release until a Remove writes a new one; an
\* Add that is run again may find others.
SignedOK ==
  /\ Signed
  /\ "Release" \in DOMAIN dist
  /\ \/ Settled
     \/ pc = "return"
     \/ op \in RemoveOps /\ pc \in {"scan", "rewrite", "putGz", "publishRelease"}
  => ReleaseSigned

IndexInv ==
  WriteInv /\ PublishInv /\ FailedOK /\ GzOK /\ CurrentOK /\ SignedOK

LEMMA IndexInit == Init => IndexInv
<1> SUFFICES ASSUME Init
             PROVE  IndexInv
  OBVIOUS
<1>1. packages = Empty /\ packagesGz = Empty /\ dist = Empty /\ pc = "idle"
        /\ DOMAIN Empty = {}
  BY DEF Init, Empty
<1>2. QED
  BY <1>1, WriteInit, PublishInit DEF IndexInv, FailedOK, GzOK, GzAgrees, CurrentOK, Unchanging,
     SignedOK, Init, AddOps, RemoveOps

LEMMA IndexBegin ==
  ASSUME IndexInv, RunsAgain,
         \/ \E o \in AddOps : BeginAdd(o)
         \/ \E o \in RemoveOps : BeginRemove(o)
  PROVE  (FailedOK /\ GzOK /\ CurrentOK /\ SignedOK)'
<1>1. /\ UNCHANGED <<packages, packagesGz, dist, removed>>
      /\ pc = "idle" /\ outcome' = "running"
      /\ \/ pc' = "upload" /\ op' \in AddOps /\ op' \notin RemoveOps
         \/ pc' = "scan" /\ op' \in RemoveOps /\ op' \notin AddOps
      /\ outcome = "failed" => op' = op
  BY DEF BeginAdd, BeginRemove, Start, Admissible, bucket, AddOps, RemoveOps, RunsAgain
<1>2. pc' = "scan" => outcome # "failed"
  BY <1>1 DEF IndexInv, FailedOK
<1>3. \A i : GzAgrees(i)' = GzAgrees(i)
  BY <1>1 DEF GzAgrees
<1>4. GzOK'
  <2> SUFFICES ASSUME NEW i \in Indexes
               PROVE  GzAgrees(i)' \/ ToWrite(i)'
    BY <1>1 DEF GzOK
  <2>1. GzAgrees(i) \/ (outcome = "failed" /\ i = TargetOf(op))
    BY <1>1 DEF IndexInv, GzOK, ToWrite
  <2>2. QED
    BY <1>1, <1>2, <1>3, <2>1 DEF ToWrite
<1>5. CurrentOK'
  BY <1>1, <1>2 DEF IndexInv, CurrentOK, Unchanging, Settled, ReleaseCurrent
<1>6. SignedOK'
  BY <1>1, <1>2 DEF IndexInv, SignedOK, Settled, ReleaseSigned
<1>7. QED
  BY <1>1, <1>4, <1>5, <1>6 DEF FailedOK

\* The steps before an index is written.
LEMMA IndexUnwritten ==
  ASSUME IndexInv, Upload \/ UpdateIndex \/ ScanIndex \/ DeletePoolFile
  PROVE  (FailedOK /\ GzOK /\ CurrentOK /\ SignedOK)'
<1>1. /\ UNCHANGED <<packages, packagesGz, dist, op, outcome>>
      /\ pc \in {"upload", "updateIndex", "scan", "rewrite"}
      /\ pc' \in {"updateIndex", "scan", "rewrite"}
  BY DEF Upload, UpdateIndex, ScanIndex, DeletePoolFile, bucket
<1>2. /\ pc \in {"upload", "updateIndex"} => op \in AddOps /\ op \notin RemoveOps
      /\ pc = "scan" => op \in RemoveOps /\ op \notin AddOps
      /\ pc = "rewrite" /\ op \in AddOps => index = TargetOf(op)
  BY <1>1 DEF IndexInv, WriteInv, TypeInv, ControlOK, AddOps, RemoveOps
<1>3. \A i \in Indexes : ToWrite(i) => ToWrite(i)'
  <2>1. CASE Upload \/ UpdateIndex
    BY <1>1, <2>1 DEF Upload, UpdateIndex, ToWrite, IndexInv, WriteInv, TypeInv,
       ControlOK
  <2>2. CASE ScanIndex \/ DeletePoolFile
    BY <1>1, <1>2, <2>2 DEF ScanIndex, DeletePoolFile, ToWrite
  <2>3. QED
    BY <2>1, <2>2
<1>4. \A i : GzAgrees(i)' = GzAgrees(i)
  BY <1>1 DEF GzAgrees
<1>5. GzOK'
  BY <1>1, <1>3, <1>4 DEF IndexInv, GzOK
<1>6. op \in RemoveOps =>
        /\ pc' = "rewrite" => removed' # {}
        /\ pc \in {"scan", "rewrite"}
        /\ pc' = "scan" => pc = "scan" /\ removed' = removed
        /\ pc' \in {"scan", "rewrite"}
  <2>1. CASE Upload \/ UpdateIndex
    BY <1>2, <2>1 DEF Upload, UpdateIndex
  <2>2. CASE ScanIndex
    BY <2>2 DEF ScanIndex
  <2>3. CASE DeletePoolFile
    BY <2>3 DEF DeletePoolFile, IndexInv, CurrentOK
  <2>4. QED
    BY <2>1, <2>2, <2>3
<1>7. CurrentOK'
  BY <1>1, <1>6 DEF IndexInv, CurrentOK, Unchanging, Settled, ReleaseCurrent
<1>8. SignedOK'
  BY <1>1, <1>6 DEF IndexInv, SignedOK, Settled, ReleaseSigned
<1>9. QED
  BY <1>1, <1>5, <1>7, <1>8 DEF IndexInv, FailedOK

LEMMA IndexPutPackages ==
  ASSUME IndexInv, PutPackages
  PROVE  (FailedOK /\ GzOK /\ CurrentOK /\ SignedOK)'
<1>1. /\ packages' = Put(packages, index, BuildPackages(kept))
      /\ UNCHANGED <<packagesGz, dist, op, index, kept, removed, outcome>>
      /\ pc = "rewrite" /\ pc' = "putGz"
      /\ op \in AddOps => index = TargetOf(op)
      /\ outcome = "running"
  BY DEF PutPackages, locals, IndexInv, WriteInv, TypeInv, ControlOK, OutcomeOK
<1>2. \A i : i # index => GzAgrees(i)' = GzAgrees(i)
  BY <1>1 DEF GzAgrees, Put
<1>3. index \in DOMAIN packages' /\ packages'[index] = BuildPackages(kept)
  BY <1>1, DistEffect
<1>4. GzOK'
  BY <1>1, <1>2, <1>3 DEF IndexInv, GzOK, ToWrite
<1>5. QED
  BY <1>1, <1>4 DEF IndexInv, FailedOK, CurrentOK, Unchanging, SignedOK, Settled, ReleaseSigned

LEMMA IndexPutPackagesGz ==
  ASSUME IndexInv, PutPackagesGz
  PROVE  (FailedOK /\ GzOK /\ CurrentOK /\ SignedOK)'
<1>1. /\ packagesGz' = Put(packagesGz, index, BuildPackages(kept))
      /\ UNCHANGED <<packages, dist, op, removed, outcome>>
      /\ pc = "putGz" /\ pc' \in {"publishRelease", "scan"}
      /\ op \in RemoveOps => removed # {}
      /\ outcome = "running"
  BY DEF PutPackagesGz, locals, IndexInv, CurrentOK, WriteInv, OutcomeOK
<1>2. index \in DOMAIN packages /\ packages[index] = BuildPackages(kept)
  BY <1>1 DEF IndexInv, GzOK
<1>3. \A i \in Indexes : GzAgrees(i)'
  <2> SUFFICES ASSUME NEW i \in Indexes PROVE GzAgrees(i)'
    OBVIOUS
  <2>1. CASE i = index
    BY <1>1, <1>2, <2>1, DistEffect DEF GzAgrees
  <2>2. CASE i # index
    BY <1>1, <2>2 DEF IndexInv, GzOK, ToWrite, GzAgrees, Put
  <2>3. QED
    BY <2>1, <2>2
<1>4. QED
  BY <1>1, <1>3 DEF IndexInv, FailedOK, GzOK, CurrentOK, Unchanging, SignedOK, Settled,
     ReleaseSigned

LEMMA IndexRelease ==
  ASSUME IndexInv, PublishInv', EndScan \/ PublishRelease \/ PutInRelease \/ PutReleaseGpg
  PROVE  (FailedOK /\ GzOK /\ CurrentOK /\ SignedOK)'
<1>1. /\ UNCHANGED <<packages, packagesGz, op, removed, outcome>>
      /\ pc \in {"scan", "publishRelease", "putInRelease", "putReleaseGpg"}
      /\ pc' \in {"return", "publishRelease", "putInRelease", "putReleaseGpg"}
      /\ outcome = "running"
      /\ op \in AddOps \cup RemoveOps
  BY DEF EndScan, PublishRelease, PutInRelease, PutReleaseGpg, AfterScan, AfterRelease, locals,
     bucket, IndexInv, WriteInv, OutcomeOK, TypeInv, ControlOK
<1>2. GzOK'
  BY <1>1 DEF IndexInv, GzOK, GzAgrees, ToWrite
<1>3. CASE EndScan
  <2>1. /\ pc = "scan" /\ op \in RemoveOps /\ op \notin AddOps /\ UNCHANGED dist
        /\ \/ pc' = "return" /\ removed = {}
           \/ pc' = "publishRelease" /\ removed # {}
    BY <1>3 DEF EndScan, AfterScan, bucket, IndexInv, WriteInv, TypeInv, ControlOK,
       AddOps, RemoveOps
  <2>2. CurrentOK' /\ SignedOK'
    BY <1>1, <2>1 DEF IndexInv, CurrentOK, Unchanging, SignedOK, Settled, ReleaseCurrent,
       ReleaseSigned
  <2>3. QED
    BY <1>1, <1>2, <2>2 DEF IndexInv, FailedOK
<1>4. CASE ~ EndScan
  <2>1. /\ op \in RemoveOps => removed # {}
        /\ pc' \in {"putInRelease", "putReleaseGpg", "return"}
        /\ Publishes'
    BY <1>1, <1>4 DEF PublishRelease, PutInRelease, PutReleaseGpg, AfterRelease, IndexInv,
       CurrentOK, Unchanging, Publishes
  <2>2. CurrentOK'
    BY <1>1, <2>1 DEF CurrentOK, Unchanging, Settled
  <2>3. SignedOK'
    BY <1>1, <2>1 DEF SignedOK, Settled, PublishInv, ReleaseOK
  <2>4. QED
    BY <1>1, <1>2, <2>2, <2>3 DEF IndexInv, FailedOK
<1>5. QED
  BY <1>3, <1>4

LEMMA IndexReturn ==
  ASSUME IndexInv, Return
  PROVE  (FailedOK /\ GzOK /\ CurrentOK /\ SignedOK)'
<1>1. /\ UNCHANGED <<packages, packagesGz, dist, op>>
      /\ pc = "return" /\ pc' = "idle" /\ outcome' # "failed"
  BY DEF Return, Finish, bucket
<1>2. \A i \in Indexes : GzAgrees(i)
  BY <1>1 DEF IndexInv, GzOK, ToWrite
<1>3. DOMAIN packages # {} => ReleaseCurrent
  <2>1. CASE Publishes
    BY <1>1, <2>1 DEF IndexInv, PublishInv, ReleaseOK
  <2>2. CASE ~ Publishes
    <3>1. Unchanging
      BY <1>1, <2>2 DEF Unchanging, Publishes, IndexInv, WriteInv, TypeInv, ControlOK
    <3>2. QED
      BY <3>1 DEF IndexInv, CurrentOK
  <2>3. QED
    BY <2>1, <2>2
<1>4. Signed /\ "Release" \in DOMAIN dist => ReleaseSigned
  BY <1>1 DEF IndexInv, SignedOK
<1>5. QED
  BY <1>1, <1>2, <1>3, <1>4 DEF FailedOK, GzOK, GzAgrees, CurrentOK, Unchanging, SignedOK,
     ReleaseCurrent, ReleaseSigned

LEMMA IndexFail ==
  ASSUME IndexInv, Fail, FailedOK'
  PROVE  (FailedOK /\ GzOK /\ CurrentOK /\ SignedOK)'
<1>1. /\ UNCHANGED <<packages, packagesGz, dist, op>>
      /\ pc # "idle" /\ pc' = "idle" /\ outcome' = "failed"
  BY DEF Fail, Finish, bucket
<1>2. op \in AddOps /\ op \notin RemoveOps
  BY <1>1 DEF FailedOK, AddOps, RemoveOps
<1>3. \A i \in Indexes : GzAgrees(i) \/ i = TargetOf(op)
  BY <1>1, <1>2 DEF IndexInv, GzOK, ToWrite, WriteInv, TypeInv, ControlOK
<1>4. GzOK'
  BY <1>1, <1>2, <1>3 DEF GzOK, GzAgrees, ToWrite
<1>5. QED
  BY <1>1, <1>2, <1>4 DEF FailedOK, CurrentOK, Unchanging, SignedOK, Settled

LEMMA IndexStep == IndexInv /\ RunsAgain /\ FailedOK' /\ [Next]_vars => IndexInv'
<1> SUFFICES ASSUME IndexInv, RunsAgain, FailedOK', [Next]_vars
             PROVE  IndexInv'
  OBVIOUS
<1>1. WriteInv' /\ PublishInv'
  BY WriteStep, PublishStep DEF IndexInv
<1>2. CASE UNCHANGED vars
  BY <1>1, <1>2 DEF vars, bucket, locals, IndexInv, FailedOK, GzOK, GzAgrees, ToWrite,
     CurrentOK, Unchanging, SignedOK, Settled, ReleaseCurrent, ReleaseSigned
<1>3. CASE Next
  <2>1. (FailedOK /\ GzOK /\ CurrentOK /\ SignedOK)'
    BY <1>1, <1>3, IndexBegin, IndexUnwritten, IndexPutPackages, IndexPutPackagesGz,
       IndexRelease, IndexReturn, IndexFail DEF Next, Step
  <2>2. QED
    BY <1>1, <2>1 DEF IndexInv
<1>4. QED
  BY <1>2, <1>3

\* When nothing is under way and nothing has failed, the indexes agree.
LEMMA SettledIndexes ==
  ASSUME IndexInv, Settled
  PROVE  packagesGz = packages
<1>1. \A i \in Indexes : GzAgrees(i)
  BY DEF IndexInv, GzOK, ToWrite, Settled
<1>2. /\ DOMAIN packages \subseteq Indexes /\ packages \in [DOMAIN packages -> Contents]
      /\ DOMAIN packagesGz \subseteq Indexes
      /\ packagesGz \in [DOMAIN packagesGz -> Contents]
  BY DEF IndexInv, PublishInv, TypeInv, TypeOK, IsStore
<1>3. DOMAIN packages = DOMAIN packagesGz
  BY <1>1, <1>2 DEF GzAgrees
<1>4. QED
  BY <1>1, <1>2, <1>3 DEF GzAgrees

LEMMA IndexInvariance ==
  ASSUME RetriesAdds
  PROVE  Spec => []IndexInv
<1>1. IndexInv /\ [Next]_vars => FailedOK'
  <2> SUFFICES ASSUME IndexInv, [Next]_vars, outcome' = "failed"
               PROVE  op' \in AddOps
    BY DEF FailedOK
  <2>1. CASE Fail
    BY <2>1, KindOf
    DEF Fail, Finish, RetriesAdds, IndexInv, WriteInv, TypeInv, ControlOK
  <2>2. CASE ~ Fail
    <3>1. UNCHANGED <<op, outcome>>
      BY <2>2
      DEF vars, Next, Step, BeginAdd, BeginRemove, Start, Upload, UpdateIndex, ScanIndex,
          EndScan, DeletePoolFile, PutPackages, PutPackagesGz, PublishRelease, PutInRelease,
          PutReleaseGpg, Return, Finish
    <3>2. QED
      BY <3>1 DEF IndexInv, FailedOK
  <2>3. QED
    BY <2>1, <2>2
<1>2. IndexInv /\ [Next]_vars => IndexInv'
  BY <1>1, IndexStep, RetriesRunAgain DEF RetriesAdds
<1>3. QED
  BY <1>2, IndexInit, PTL DEF Spec

\* When Add or Remove reports success, with or without a change, Packages.gz is
\* the compressed Packages and the Release lists both, for every index, whatever
\* Adds were interrupted before and run again (updateIndex, publishRelease).
THEOREM ReleaseAgrees ==
  ASSUME RetriesAdds
  PROVE  Spec => []ReleaseMatchesIndexes
<1>1. IndexInv => ReleaseMatchesIndexes
  BY SettledIndexes DEF IndexInv, CurrentOK, Unchanging, ReleaseMatchesIndexes
<1>2. QED
  BY <1>1, IndexInvariance, PTL

\* And in a signed repository both signatures are those of the Release that is
\* there, after a removal as after a push, and after one that found nothing to
\* remove (signRelease).
THEOREM SignaturesAgree ==
  ASSUME RetriesAdds
  PROVE  Spec => []SignaturesMatchRelease
<1>1. IndexInv => SignaturesMatchRelease
  BY DEF IndexInv, SignedOK, SignaturesMatchRelease
<1>2. QED
  BY <1>1, IndexInvariance, PTL

-----------------------------------------------------------------------------
(* The places of the stanzas.                                              *)

\* No two stanzas are at one place.
Spaced(c) == \A d, e \in c : d.at = e.at => d = e

\* A Packages file: there are no gaps, so that a new stanza comes last.
Written(c) == Spaced(c) /\ \A e \in c : e.at <= Cardinality(c)

LEMMA InsertSpaced ==
  ASSUME NEW c \in Contents, Written(c), NEW o \in AddOps
  PROVE  Spaced(Insert(c, o))
<1>1. Cardinality(c) \in Nat /\ \A e \in c : e.at \in Nat /\ e.at <= Cardinality(c)
  BY FS_CardinalityType DEF Contents, Stanzas, Written
<1>2. \A e \in c : e.at # Cardinality(c) + 1
  BY <1>1
<1>3. QED
  BY <1>2 DEF Insert, Written, Spaced

\* Writing an index numbers its stanzas anew and loses none.
LEMMA BuildWritten ==
  ASSUME NEW c \in Contents, Spaced(c)
  PROVE  Written(BuildPackages(c))
<1> DEFINE upTo(e)   == {d \in c : d.at <= e.at}
           listed(e) == [e EXCEPT !.at = Cardinality(upTo(e))]
           f         == [e \in c |-> listed(e)]
<1>1. IsFiniteSet(c) /\ Cardinality(c) \in Nat /\ \A e \in c : e \in Stanzas /\ e.at \in Nat
  BY FS_CardinalityType DEF Contents, Stanzas
<1>2. ASSUME NEW e \in c
      PROVE  /\ IsFiniteSet(upTo(e)) /\ Cardinality(upTo(e)) \in Nat
             /\ Cardinality(upTo(e)) <= Cardinality(c)
             /\ listed(e).at = Cardinality(upTo(e))
  <2>1. IsFiniteSet(upTo(e)) /\ Cardinality(upTo(e)) <= Cardinality(c)
    BY <1>1, FS_Subset
  <2>2. QED
    BY <1>1, <2>1, FS_CardinalityType DEF Stanzas
<1>3. ASSUME NEW d \in c, NEW e \in c, d.at < e.at
      PROVE  Cardinality(upTo(d)) < Cardinality(upTo(e))
  <2>1. upTo(d) \subseteq upTo(e) /\ e \in upTo(e) /\ e \notin upTo(d)
    BY <1>1, <1>3
  <2>2. IsFiniteSet(upTo(d)) /\ IsFiniteSet(upTo(e))
    BY <1>2
  <2> HIDE DEF upTo
  <2>3. /\ Cardinality(upTo(d)) <= Cardinality(upTo(e))
        /\ Cardinality(upTo(d)) # Cardinality(upTo(e))
    BY <2>1, <2>2, FS_Subset
  <2>4. Cardinality(upTo(d)) \in Nat /\ Cardinality(upTo(e)) \in Nat
    BY <2>2, FS_CardinalityType
  <2>5. QED
    BY <2>3, <2>4
<1>4. ASSUME NEW d \in c, NEW e \in c, listed(d).at = listed(e).at PROVE d = e
  <2>1. Cardinality(upTo(d)) = Cardinality(upTo(e))
    BY <1>2, <1>4
  <2>2. ~ (d.at < e.at) /\ ~ (e.at < d.at)
    <3>1. Cardinality(upTo(d)) \in Nat /\ Cardinality(upTo(e)) \in Nat
      BY <1>2
    <3> HIDE DEF upTo
    <3>2. QED
      BY <1>3, <2>1, <3>1
  <2>3. d.at = e.at
    BY <1>1, <2>2
  <2>4. QED
    BY <2>3 DEF Spaced
<1>5. BuildPackages(c) = {listed(e) : e \in c}
  BY DEF BuildPackages
<1>6. Cardinality(BuildPackages(c)) = Cardinality(c)
  <2>1. f \in [c -> BuildPackages(c)] /\ \A t \in BuildPackages(c) : \E x \in c : f[x] = t
    BY <1>5
  <2>2. \A d, e \in c : f[d] = f[e] => d = e
    BY <1>4
  <2> HIDE DEF f
  <2>3. QED
    BY <1>1, <2>1, <2>2, SameNumber
<1>7. \A e \in c : listed(e).at <= Cardinality(c)
  BY <1>2
<1> HIDE DEF listed
<1>8. QED
  BY <1>4, <1>5, <1>6, <1>7 DEF Written, Spaced

\* Stanzas at different places are the items of a slice.
LEMMA ContentsOrderly ==
  ASSUME NEW c \in Contents, Spaced(c)
  PROVE  Orderly(c, GroupOf, AgeOf)
<1>1. \A e \in c : /\ e.pkg \in Packages /\ e.at \in Nat
                   /\ AgeOf[e.pkg] \in Nat
  BY RankAssumption DEF Contents, Stanzas, AgeOf, Packages
<1>2. QED
  BY <1>1 DEF Contents, Spaced, Orderly

\* The stanzas of a name.
LEMMA GroupOfName ==
  ASSUME NEW c \in Contents, NEW n
  PROVE  GroupItems(c, GroupOf, n) = {e \in c : e.pkg.name = n}
BY DEF Contents, Stanzas, GroupOf, GroupItems

-----------------------------------------------------------------------------
(* Retention.                                                              *)

\* No package has more than Keep stanzas.
Bounded(c) ==
  Keep > 0 => \A n : /\ IsFiniteSet({e \in c : e.pkg.name = n})
                     /\ Cardinality({e \in c : e.pkg.name = n}) <= Keep

LEMMA PruneBounded ==
  ASSUME NEW c \in Contents, Spaced(c)
  PROVE  Bounded(Prune(c))
<1> SUFFICES ASSUME Keep > 0, NEW n
             PROVE  LET group == {e \in Prune(c) : e.pkg.name = n}
                    IN  IsFiniteSet(group) /\ Cardinality(group) <= Keep
  BY DEF Bounded
<1>1. Prune(c) = Retain(c, Keep, GroupOf, AgeOf) /\ Prune(c) \in Contents
  BY PruneSubset, SubContents DEF Prune
<1>2. {e \in Prune(c) : e.pkg.name = n} = GroupItems(Prune(c), GroupOf, n)
  BY <1>1, GroupOfName
<1>3. Orderly(c, GroupOf, AgeOf)
  BY ContentsOrderly
<1>4. LET group == GroupItems(Retain(c, Keep, GroupOf, AgeOf), GroupOf, n)
      IN  IsFiniteSet(group) /\ Cardinality(group) <= Keep
  BY <1>3, RetainsNewest, KeepAssumption
<1>5. QED
  BY <1>1, <1>2, <1>4

\* Fewer stanzas stay within the bound, and so do the same at other places.
LEMMA BoundedSubset ==
  ASSUME NEW c, Bounded(c), NEW d, d \subseteq c
  PROVE  Bounded(d)
<1> SUFFICES ASSUME Keep > 0, NEW n
             PROVE  LET group == {e \in d : e.pkg.name = n}
                    IN  IsFiniteSet(group) /\ Cardinality(group) <= Keep
  BY DEF Bounded
<1> DEFINE all == {e \in c : e.pkg.name = n}
           some == {e \in d : e.pkg.name = n}
<1>1. IsFiniteSet(all) /\ Cardinality(all) <= Keep /\ some \subseteq all
  BY DEF Bounded
<1>2. IsFiniteSet(some) /\ Cardinality(some) <= Cardinality(all)
  BY <1>1, FS_Subset
<1>3. Cardinality(some) \in Nat /\ Cardinality(all) \in Nat
  BY <1>1, <1>2, FS_CardinalityType
<1>4. QED
  BY <1>1, <1>2, <1>3, KeepAssumption

LEMMA BuildBounded ==
  ASSUME NEW c \in Contents, Bounded(c)
  PROVE  Bounded(BuildPackages(c))
<1> SUFFICES ASSUME Keep > 0, NEW n
             PROVE  LET group == {e \in BuildPackages(c) : e.pkg.name = n}
                    IN  IsFiniteSet(group) /\ Cardinality(group) <= Keep
  BY DEF Bounded
<1> DEFINE listed(e) == [e EXCEPT !.at = Cardinality({d \in c : d.at <= e.at})]
           here      == {e \in c : e.pkg.name = n}
           there     == {e \in BuildPackages(c) : e.pkg.name = n}
           f         == [e \in here |-> listed(e)]
<1>1. IsFiniteSet(here) /\ Cardinality(here) <= Keep
  BY DEF Bounded
<1>2. \A e \in c : listed(e).pkg = e.pkg
  BY DEF Contents, Stanzas
<1>3. there = {listed(e) : e \in here}
  BY <1>2 DEF BuildPackages
<1>4. f \in Surjection(here, there)
  BY <1>3 DEF Surjection
<1> HIDE DEF f, here, there
<1>5. IsFiniteSet(there) /\ Cardinality(there) <= Cardinality(here)
  BY <1>1, <1>4, FS_Surjection
<1>6. Cardinality(there) \in Nat /\ Cardinality(here) \in Nat
  BY <1>1, <1>5, FS_CardinalityType
<1>7. QED
  BY <1>1, <1>5, <1>6, KeepAssumption DEF there

\* Every index is one that BuildPackages has written, after retention.
BoundInv ==
  WriteInv /\ \A i \in Indexes : Written(Read(i)) /\ Bounded(Read(i))

\* What an operation is about to write.
LEMMA KeptBounded ==
  ASSUME BoundInv, pc = "rewrite"
  PROVE  kept \in Contents /\ Spaced(kept) /\ Bounded(kept)
<1> DEFINE items == Insert(Read(index), op)
<1>1. /\ index \in Indexes /\ Read(index) \in Contents /\ kept \in Contents
      /\ Written(Read(index)) /\ Bounded(Read(index))
      /\ op \in AddOps \cup RemoveOps
  BY ReadType DEF BoundInv, WriteInv, TypeInv, TypeOK, ControlOK
<1>2. CASE op \in AddOps
  <2>1. items \in Contents /\ Spaced(items) /\ kept = Prune(items)
    BY <1>1, <1>2, InsertType, InsertSpaced DEF BoundInv, WriteInv, RewriteOK
  <2> HIDE DEF items
  <2>2. Spaced(kept)
    BY <2>1, PruneSubset DEF Spaced
  <2>3. QED
    BY <1>1, <2>1, <2>2, PruneBounded
<1>3. CASE op \in RemoveOps
  <2>1. kept \subseteq Read(index)
    BY <1>3 DEF BoundInv, WriteInv, RewriteOK
  <2>2. QED
    BY <1>1, <2>1, BoundedSubset DEF Written, Spaced
<1>4. QED
  BY <1>1, <1>2, <1>3

LEMMA BoundInit == Init => BoundInv
<1> SUFFICES ASSUME Init
             PROVE  BoundInv
  OBVIOUS
<1>1. \A i : Read(i) = {}
  BY DEF Init, Read, Empty
<1>2. Written({})
  BY DEF Written, Spaced
<1>3. Bounded({})
  BY FS_EmptySet, KeepAssumption DEF Bounded
<1>4. QED
  BY <1>1, <1>2, <1>3, WriteInit DEF BoundInv

LEMMA BoundStep == BoundInv /\ [Next]_vars => BoundInv'
<1> SUFFICES ASSUME BoundInv, [Next]_vars
             PROVE  BoundInv'
  OBVIOUS
<1>1. WriteInv'
  BY WriteStep DEF BoundInv
<1>2. CASE PutPackages
  <2>1. /\ packages' = Put(packages, index, BuildPackages(kept))
        /\ pc = "rewrite"
    BY <1>2 DEF PutPackages
  <2>2. \A i : Read(i)' = IF i = index THEN BuildPackages(kept) ELSE Read(i)
    BY <2>1 DEF Read, Put
  <2>3. Written(BuildPackages(kept)) /\ Bounded(BuildPackages(kept))
    BY <2>1, KeptBounded, BuildWritten, BuildBounded
  <2>4. QED
    BY <1>1, <2>2, <2>3 DEF BoundInv
<1>3. CASE ~ PutPackages
  <2>1. UNCHANGED packages
    BY <1>3 DEF Next, Step, vars, bucket, BeginAdd, BeginRemove, Start, Upload, UpdateIndex,
       ScanIndex, EndScan, DeletePoolFile, PutPackagesGz, PublishRelease, PutInRelease,
       PutReleaseGpg, Return, Fail, Finish
  <2>2. \A i : Read(i)' = Read(i)
    BY <2>1 DEF Read
  <2>3. QED
    BY <1>1, <2>2 DEF BoundInv
<1>4. QED
  BY <1>2, <1>3

LEMMA BoundInvariance == Spec => []BoundInv
<1>1. QED
  BY BoundInit, BoundStep, PTL DEF Spec

\* No Packages file ever lists more than KeepVersions versions of a package, at
\* any step and whatever was interrupted before: retention is applied to all of
\* what is there and what is added, before the first write (updateIndex).
THEOREM RetentionHolds == Spec => []RetentionBound
<1>1. BoundInv => RetentionBound
  BY DEF BoundInv, Bounded, RetentionBound
<1>2. QED
  BY <1>1, BoundInvariance, PTL

-----------------------------------------------------------------------------
(* The files that the publisher answers for.  They are told from its own   *)
(* variables, so that this holds as well when others write to the pool.    *)

\* The file that an Add puts into the pool.
OwnFile == [path |-> PathOf(TargetOf(op), op.pkg), build |-> op.build]

\* The stanzas of an index whose files may be in the pool: while it is rewritten,
\* those that go have theirs until it is deleted.
Planned(i) == IF pc = "rewrite" /\ i = index THEN kept \cup doomed ELSE Read(i)

\* The publisher lists the file, is about to list it or to delete it, or has failed
\* to and is to be run again.
Claims(f) ==
  \/ \E i \in Indexes : \E e \in Planned(i) :
       /\ f = [path |-> PathOf(i, e.pkg), build |-> e.build]
       /\ pc = "updateIndex" => f.path # OwnFile.path
  \/ /\ \/ pc \in {"upload", "updateIndex"}
        \/ pc = "idle" /\ outcome = "failed" /\ op \in AddOps
     /\ f = OwnFile

\* The file with this key and build.
File(p, b) == [path |-> p, build |-> b]

\* A step leaves Read alone when it leaves the Packages files alone.
LEMMA ReadFrame == UNCHANGED packages => \A i : Read(i)' = Read(i)
BY DEF Read

LEMMA ClaimBegin ==
  ASSUME WriteInv, RunsAgain, NEW f, Claims(f),
         \/ \E o \in AddOps : BeginAdd(o)
         \/ \E o \in RemoveOps : BeginRemove(o)
  PROVE  Claims(f)'
<1>1. /\ UNCHANGED packages /\ pc = "idle" /\ pc' \in {"upload", "scan"}
      /\ outcome = "failed" => op' = op
      /\ outcome = "failed" /\ op \in AddOps => pc' = "upload"
  BY DEF BeginAdd, BeginRemove, Start, Admissible, bucket, RunsAgain, AddOps, RemoveOps
<1>2. \A i : Planned(i)' = Planned(i)
  BY <1>1, ReadFrame DEF Planned
<1>3. CASE \E i \in Indexes : \E e \in Planned(i) :
             f = [path |-> PathOf(i, e.pkg), build |-> e.build]
  BY <1>1, <1>2, <1>3 DEF Claims
<1>4. CASE outcome = "failed" /\ op \in AddOps /\ f = OwnFile
  BY <1>1, <1>4 DEF Claims, OwnFile
<1>5. QED
  BY <1>1, <1>3, <1>4 DEF Claims

LEMMA ClaimUpload ==
  ASSUME WriteInv, Upload, NEW p, NEW b, Holds(pool, p, b)',
         Holds(pool, p, b) => Claims(File(p, b))
  PROVE  Claims(File(p, b))'
<1> DEFINE k == PathOf(TargetOf(op), op.pkg)
<1>1. /\ pool' = Put(pool, k, op.build)
      /\ UNCHANGED <<packages, op>>
      /\ pc = "upload" /\ pc' = "updateIndex"
  BY DEF Upload, TargetOf
<1>2. OwnFile' = OwnFile /\ OwnFile = File(k, op.build)
  BY <1>1 DEF OwnFile, File
<1>3. CASE p = k
  <2>1. b = op.build
    BY <1>1, <1>3 DEF Holds, Put
  <2>2. QED
    BY <1>1, <1>2, <1>3, <2>1 DEF Claims
<1>4. CASE p # k
  <2>1. Holds(pool, p, b) /\ File(p, b).path # OwnFile.path
    BY <1>1, <1>2, <1>4 DEF Holds, Put, File
  <2>2. PICK i \in Indexes : \E e \in Planned(i) :
          File(p, b) = [path |-> PathOf(i, e.pkg), build |-> e.build]
    BY <2>1 DEF Claims
  <2>3. Planned(i)' = Planned(i)
    BY <1>1, ReadFrame DEF Planned
  <2>4. QED
    BY <1>2, <2>1, <2>2, <2>3 DEF Claims
<1>5. QED
  BY <1>3, <1>4

LEMMA ClaimUpdateIndex ==
  ASSUME WriteInv, NEW f, Claims(f), UpdateIndex
  PROVE  Claims(f)'
<1> DEFINE items == Insert(Read(index), op)
<1>1. /\ UNCHANGED <<packages, op, index>> /\ pc = "updateIndex" /\ pc' = "rewrite"
      /\ kept' = Prune(items) /\ doomed' = Surplus(items)
      /\ index = TargetOf(op) /\ index \in Indexes
  BY DEF UpdateIndex, bucket, WriteInv, TypeInv, ControlOK
<1>2. Planned(index)' = items
  BY <1>1, PruneSubset DEF Planned, Surplus
<1>3. \A i : i # index => Planned(i)' = Planned(i)
  BY <1>1, ReadFrame DEF Planned
<1>4. CASE f = OwnFile
  <2> DEFINE new == [pkg |-> op.pkg, build |-> op.build,
                     at |-> Cardinality(Read(index)) + 1]
  <2>1. new \in items /\ new.pkg = op.pkg /\ new.build = op.build
    BY DEF Insert
  <2> HIDE DEF new, items
  <2>2. PICK e \in items : e.pkg = op.pkg /\ e.build = op.build
    BY <2>1
  <2>3. f = [path |-> PathOf(index, e.pkg), build |-> e.build]
    BY <1>1, <1>4, <2>2 DEF OwnFile
  <2>4. PICK i \in Indexes : i = index /\ e \in Planned(i)'
    BY <1>1, <1>2, <2>2
  <2>5. QED
    BY <1>1, <2>3, <2>4 DEF Claims
<1>5. CASE f # OwnFile
  <2>1. PICK i, e :
          /\ i \in Indexes /\ e \in Planned(i)
          /\ f = [path |-> PathOf(i, e.pkg), build |-> e.build]
          /\ f.path # OwnFile.path
    BY <1>1, <1>5 DEF Claims
  <2>2. CASE i # index
    BY <1>1, <1>3, <2>1, <2>2 DEF Claims
  <2>3. CASE i = index
    <3>1. e \in Read(index) /\ e.pkg # op.pkg
      BY <1>1, <2>1, <2>3 DEF Planned, OwnFile
    <3>2. e \in items
      BY <3>1 DEF Insert
    <3>3. QED
      BY <1>1, <1>2, <2>1, <2>3, <3>2 DEF Claims
  <2>4. QED
    BY <2>2, <2>3
<1>6. QED
  BY <1>4, <1>5

LEMMA ClaimScan ==
  ASSUME WriteInv, NEW f, Claims(f), ScanIndex
  PROVE  Claims(f)'
<1>1. pc = "scan" /\ UNCHANGED packages
  BY DEF ScanIndex, bucket
<1>2. PICK j \in queue :
        IF Matching(Read(j), op) = {}
        THEN UNCHANGED <<pc, index, kept, doomed, removed>>
        ELSE /\ pc' = "rewrite"
             /\ index' = j
             /\ kept' = Read(j) \ Matching(Read(j), op)
             /\ doomed' = Matching(Read(j), op)
  BY DEF ScanIndex
<1>3. \A i : Planned(i)' = Planned(i)
  <2>1. Matching(Read(j), op) \subseteq Read(j)
    BY DEF Matching
  <2>2. QED
    BY <1>1, <1>2, <2>1, ReadFrame DEF Planned
<1>4. pc' \in {"scan", "rewrite"}
  BY <1>1, <1>2
<1>5. QED
  BY <1>1, <1>3, <1>4 DEF Claims

LEMMA ClaimDelete ==
  ASSUME WriteInv, DeletePoolFile, NEW p, NEW b, Holds(pool, p, b)',
         Holds(pool, p, b) => Claims(File(p, b))
  PROVE  Claims(File(p, b))'
<1>1. PICK d \in doomed : /\ pool' = Delete(pool, PathOf(index, d.pkg))
                          /\ doomed' = doomed \ {d}
  BY DEF DeletePoolFile
<1>2. pc = "rewrite" /\ UNCHANGED <<packages, pc, index, kept>>
  BY DEF DeletePoolFile
<1>3. Holds(pool, p, b) /\ p # PathOf(index, d.pkg)
  BY <1>1 DEF Delete, Holds
<1>4. PICK i, e :
        /\ i \in Indexes /\ e \in Planned(i)
        /\ File(p, b) = [path |-> PathOf(i, e.pkg), build |-> e.build]
  BY <1>2, <1>3 DEF Claims
<1>5. e \in Planned(i)'
  <2>1. CASE i # index
    BY <1>2, <1>4, <2>1, ReadFrame DEF Planned
  <2>2. CASE i = index
    <3>1. e # d
      BY <1>3, <1>4, <2>2 DEF File
    <3>2. QED
      BY <1>1, <1>2, <1>4, <2>2, <3>1 DEF Planned
  <2>3. QED
    BY <2>1, <2>2
<1>6. QED
  BY <1>2, <1>4, <1>5 DEF Claims

LEMMA ClaimPutPackages ==
  ASSUME WriteInv, NEW f, Claims(f), PutPackages
  PROVE  Claims(f)'
<1>1. /\ packages' = Put(packages, index, BuildPackages(kept))
      /\ UNCHANGED index
      /\ pc = "rewrite" /\ pc' = "putGz" /\ doomed = {} /\ kept \in Contents
  BY DEF PutPackages, locals, WriteInv, TypeInv, TypeOK
<1>2. Planned(index)' = BuildPackages(kept) /\ \A i : i # index => Planned(i)' = Planned(i)
  BY <1>1 DEF Planned, Read, Put
<1>3. PICK i, e :
        /\ i \in Indexes /\ e \in Planned(i)
        /\ f = [path |-> PathOf(i, e.pkg), build |-> e.build]
  BY <1>1 DEF Claims
<1>4. \E d \in Planned(i)' : d.pkg = e.pkg /\ d.build = e.build
  <2>1. CASE i # index
    BY <1>2, <1>3, <2>1
  <2>2. CASE i = index
    BY <1>1, <1>2, <1>3, <2>2, BuildPackagesType DEF Planned
  <2>3. QED
    BY <2>1, <2>2
<1>5. QED
  BY <1>1, <1>3, <1>4 DEF Claims

\* The steps that touch neither the pool nor a Packages file.
LEMMA ClaimOtherStep ==
  ASSUME WriteInv, NEW f, Claims(f),
         \/ EndScan \/ PutPackagesGz \/ PublishRelease \/ PutInRelease \/ PutReleaseGpg
         \/ Return
  PROVE  Claims(f)'
<1>1. /\ UNCHANGED packages
      /\ pc \notin {"idle", "upload", "updateIndex", "rewrite"}
      /\ pc' \notin {"upload", "updateIndex", "rewrite"}
  BY DEF EndScan, PutPackagesGz, PublishRelease, PutInRelease, PutReleaseGpg, Return,
         Finish, AfterScan, AfterRelease, bucket, locals
<1>2. \A i : Planned(i)' = Planned(i)
  BY <1>1, ReadFrame DEF Planned
<1>3. QED
  BY <1>1, <1>2 DEF Claims

LEMMA ClaimFail ==
  ASSUME WriteInv, NEW f, Claims(f), Fail
  PROVE  Claims(f)'
<1>1. /\ UNCHANGED <<packages, op>>
      /\ pc # "idle" /\ pc' = "idle" /\ outcome' = "failed"
      /\ op \in AddOps \cup RemoveOps
  BY DEF Fail, Finish, bucket, WriteInv, TypeInv, ControlOK
<1>2. OwnFile' = OwnFile /\ \A i : Planned(i)' = Read(i)
  BY <1>1, ReadFrame DEF OwnFile, Planned
<1>3. CASE f = OwnFile /\ op \in AddOps
  BY <1>1, <1>2, <1>3 DEF Claims
<1>4. CASE ~ (f = OwnFile /\ op \in AddOps)
  <2>1. pc \in {"upload", "updateIndex"} => op \in AddOps
    BY DEF WriteInv, TypeInv, ControlOK
  <2>2. PICK i, e :
          /\ i \in Indexes /\ e \in Planned(i)
          /\ f = [path |-> PathOf(i, e.pkg), build |-> e.build]
    BY <1>1, <1>4, <2>1 DEF Claims
  <2>3. e \in Read(i)
    <3>1. CASE pc = "rewrite" /\ i = index /\ op \in AddOps
      <4>1. e \in Insert(Read(index), op) /\ index = TargetOf(op)
        BY <2>2, <3>1, PruneSubset
        DEF Planned, WriteInv, RewriteOK, Surplus, TypeInv, ControlOK
      <4>2. ~ (e.pkg = op.pkg /\ e.build = op.build)
        BY <1>4, <2>2, <3>1, <4>1 DEF OwnFile
      <4>3. QED
        BY <3>1, <4>1, <4>2 DEF Insert
    <3>2. CASE pc = "rewrite" /\ i = index /\ op \in RemoveOps
      BY <2>2, <3>2 DEF Planned, WriteInv, RewriteOK, Matching
    <3>3. CASE ~ (pc = "rewrite" /\ i = index)
      BY <2>2, <3>3 DEF Planned
    <3>4. QED
      BY <1>1, <3>1, <3>2, <3>3
  <2>4. QED
    BY <1>1, <1>2, <2>2, <2>3 DEF Claims
<1>5. QED
  BY <1>3, <1>4

\* A file that the publisher puts into the pool is one it answers for, and it goes
\* on to answer for the files in the pool for which it did.
LEMMA ClaimStep ==
  ASSUME WriteInv, RunsAgain, Next, NEW p, NEW b, Holds(pool, p, b)',
         Holds(pool, p, b) => Claims(File(p, b))
  PROVE  Claims(File(p, b))'
<1>1. CASE Upload
  BY <1>1, ClaimUpload
<1>2. CASE DeletePoolFile
  BY <1>2, ClaimDelete
<1>3. CASE ~ Upload /\ ~ DeletePoolFile
  <2>1. UNCHANGED pool
    BY <1>3
    DEF Next, Step, BeginAdd, BeginRemove, Start, UpdateIndex, ScanIndex, EndScan,
        PutPackages, PutPackagesGz, PublishRelease, PutInRelease, PutReleaseGpg, Return,
        Fail, Finish, bucket
  <2>2. Claims(File(p, b))
    BY <2>1 DEF Holds
  <2>3. QED
    BY <1>3, <2>2, ClaimBegin, ClaimUpdateIndex, ClaimScan, ClaimPutPackages,
       ClaimOtherStep, ClaimFail DEF Next, Step
<1>4. QED
  BY <1>1, <1>2, <1>3

\* At rest it answers for no file but those that its indexes list.
LEMMA ClaimsAtRest ==
  ASSUME Settled, NEW f, Claims(f)
  PROVE  \E i \in Indexes : \E e \in Read(i) :
           f = [path |-> PathOf(i, e.pkg), build |-> e.build]
BY DEF Settled, Claims, Planned

=============================================================================
