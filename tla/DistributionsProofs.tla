------------------------ MODULE DistributionsProofs ------------------------
(***************************************************************************)
(* Theorems about Distributions, for every value of its constants.         *)
(*                                                                         *)
(* Two distributions that share no package are two publishers that do not  *)
(* notice each other: each of them, with its own part of the pool, behaves *)
(* as a publisher that is alone in its bucket.  What is proved about one   *)
(* publisher (AptPublisherProofs) therefore holds of both.                 *)
(*                                                                         *)
(* Two that share packages may take files from each other, but of every    *)
(* file in the pool one of them knows.                                     *)
(***************************************************************************)
EXTENDS Distributions, TLAPS

\* No file of the pool belongs to both distributions.  They may have different
\* versions of one package.
ShareNoPackage == Packages \cap Other!Packages = {}

\* The files of a pool that are those of some packages.
PartOf(files, pkgs) ==
  [p \in {q \in DOMAIN files : q.pkg \in pkgs} |-> files[p]]

\* The first distribution as if it were alone.
First == INSTANCE AptPublisherProofs WITH
  pool <- PartOf(pool, Packages)

\* The second distribution as if it were alone.
Second == INSTANCE AptPublisherProofs WITH
  Names      <- OtherNames,
  Versions   <- OtherVersions,
  Rank       <- OtherRank,
  pool       <- PartOf(pool, Other!Packages),
  packages   <- packages2,
  packagesGz <- packagesGz2,
  dist       <- dist2,
  pc         <- pc2,
  op         <- op2,
  index      <- index2,
  kept       <- kept2,
  doomed     <- doomed2,
  queue      <- queue2,
  removed    <- removed2,
  outcome    <- outcome2,
  acked      <- acked2,
  ops        <- ops2,
  faults     <- faults2

\* Each of them has its types and knows what it is doing.
BothInv == First!TypeInv /\ Second!TypeInv

-----------------------------------------------------------------------------
(* What a call of the store does to one part of the pool.                  *)

LEMMA PutInPart ==
  ASSUME NEW s, NEW k, NEW v, NEW pkgs, k.pkg \in pkgs
  PROVE  PartOf(Put(s, k, v), pkgs) = Put(PartOf(s, pkgs), k, v)
BY DEF PartOf, Put

LEMMA PutElsewhere ==
  ASSUME NEW s, NEW k, NEW v, NEW pkgs, k.pkg \notin pkgs
  PROVE  PartOf(Put(s, k, v), pkgs) = PartOf(s, pkgs)
BY DEF PartOf, Put

LEMMA DeleteInPart ==
  ASSUME NEW s, NEW k, NEW pkgs
  PROVE  PartOf(Delete(s, k), pkgs) = Delete(PartOf(s, pkgs), k)
BY DEF PartOf, Delete

LEMMA DeleteElsewhere ==
  ASSUME NEW s, NEW k, NEW pkgs, k.pkg \notin pkgs
  PROVE  PartOf(Delete(s, k), pkgs) = PartOf(s, pkgs)
BY DEF PartOf, Delete

\* A key of the pool is that of a package in an index.
LEMMA PathIndex ==
  /\ \A p \in Paths : \E i \in Indexes : p = PathOf(i, p.pkg)
  /\ \A p \in Other!Paths : \E i \in Other!Indexes : p = Other!PathOf(i, p.pkg)
<1>1. ASSUME NEW p \in Paths
      PROVE  \E i \in Indexes : p = PathOf(i, p.pkg)
  <2>1. [component |-> p.component, arch |-> p.arch] \in Indexes
    BY DEF Paths, Indexes
  <2>2. QED
    BY <2>1 DEF Paths, PathOf
<1>2. ASSUME NEW p \in Other!Paths
      PROVE  \E i \in Other!Indexes : p = Other!PathOf(i, p.pkg)
  <2>1. [component |-> p.component, arch |-> p.arch] \in Other!Indexes
    BY DEF Other!Paths, Other!Indexes
  <2>2. QED
    BY <2>1 DEF Other!Paths, Other!PathOf
<1>3. QED
  BY <1>1, <1>2

-----------------------------------------------------------------------------
(* A step of the first distribution is a step of it alone, whoever else    *)
(* writes to the pool.                                                     *)

\* The store, and the operators on contents, are the same.
LEMMA SameOperators ==
  /\ \A s : First!Cardinality(s) = Cardinality(s)
  /\ \A s, k, v : First!Put(s, k, v) = Put(s, k, v)
  /\ \A s, k : First!Delete(s, k) = Delete(s, k)
  /\ \A i, p : First!PathOf(i, p) = PathOf(i, p)
  /\ \A c, o : First!Insert(c, o) = Insert(c, o)
  /\ \A c : First!Prune(c) = Prune(c)
  /\ \A c : First!Surplus(c) = Surplus(c)
  /\ \A i : First!Read(i) = Read(i)
<1>0. \A s : First!Cardinality(s) = Cardinality(s)
  BY DEF First!Cardinality, Cardinality, First!IsFiniteSet, IsFiniteSet
<1>1. \A c : First!Prune(c) = Prune(c)
  BY <1>0 DEF First!Prune, Prune, First!Retain, Retain, First!Ahead, Ahead, First!Newer,
         Newer, First!GroupOf, GroupOf, First!AgeOf, AgeOf, First!Packages, Packages
<1>2. QED
  BY <1>0, <1>1
  DEF First!Put, Put, First!Delete, Delete, First!PathOf, PathOf, First!Insert, Insert,
      First!Surplus, Surplus, First!Read, Read

\* The names of what an operation under way writes.
LEMMA FirstPackages ==
  ASSUME First!TypeInv
  PROVE  /\ pc = "upload" => op.pkg \in Packages
         /\ \A e \in doomed : e.pkg \in Packages
<1>1. doomed \subseteq First!Stanzas
  BY DEF First!TypeInv, First!TypeOK, First!Contents
<1>2. First!Packages = Packages
  BY DEF First!Packages, Packages
<1>3. \A e \in First!Stanzas : e.pkg \in First!Packages
  BY DEF First!Stanzas
<1>4. pc = "upload" => op.pkg \in First!Packages
  BY DEF First!TypeInv, First!ControlOK, First!AddOps
<1>5. QED
  BY <1>1, <1>2, <1>3, <1>4

LEMMA FirstUpload ==
  ASSUME First!TypeInv, Upload
  PROVE  First!Upload
<1> DEFINE k == PathOf(index', op.pkg)
<1>1. k.pkg \in Packages
  BY FirstPackages DEF Upload, PathOf
<1>2. pool' = Put(pool, k, op.build)
  BY DEF Upload
<1> HIDE DEF k
<1>3. PartOf(pool', Packages) = Put(PartOf(pool, Packages), k, op.build)
  BY <1>1, <1>2, PutInPart
<1>4. PartOf(pool, Packages)' = PartOf(pool', Packages)
  BY DEF PartOf
<1>5. QED
  BY <1>3, <1>4, SameOperators DEF Upload, First!Upload, k

LEMMA FirstDelete ==
  ASSUME First!TypeInv, DeletePoolFile
  PROVE  First!DeletePoolFile
<1>1. PICK e \in doomed : /\ pool' = Delete(pool, PathOf(index, e.pkg))
                          /\ doomed' = doomed \ {e}
  BY DEF DeletePoolFile
<1> DEFINE k == PathOf(index, e.pkg)
<1>2. k.pkg \in Packages
  BY FirstPackages DEF PathOf
<1> HIDE DEF k
<1>3. PartOf(pool', Packages) = Delete(PartOf(pool, Packages), k)
  BY <1>1, DeleteInPart DEF k
<1>4. PartOf(pool, Packages)' = PartOf(pool', Packages)
  BY DEF PartOf
<1>5. QED
  BY <1>1, <1>3, <1>4, SameOperators DEF DeletePoolFile, First!DeletePoolFile, k

LEMMA FirstStep ==
  ASSUME First!TypeInv, Next
  PROVE  First!Next
<1>1. CASE Upload
  BY <1>1, FirstUpload DEF First!Next, First!Step
<1>2. CASE DeletePoolFile
  BY <1>2, FirstDelete DEF First!Next, First!Step
<1>3. ASSUME UNCHANGED pool
      PROVE  UNCHANGED PartOf(pool, Packages)
  BY <1>3 DEF PartOf
<1>4. ASSUME NEW o \in AddOps, BeginAdd(o)
      PROVE  First!BeginAdd(o) /\ o \in First!AddOps
  BY <1>4, <1>3
  DEF BeginAdd, First!BeginAdd, Start, First!Start, Admissible, First!Admissible, bucket,
      First!bucket, AddOps, First!AddOps, Packages, First!Packages
<1>5. ASSUME NEW o \in RemoveOps, BeginRemove(o)
      PROVE  First!BeginRemove(o) /\ o \in First!RemoveOps
  BY <1>5, <1>3
  DEF BeginRemove, First!BeginRemove, Start, First!Start, Admissible, First!Admissible,
      bucket, First!bucket, RemoveOps, First!RemoveOps, Packages, First!Packages,
      IndexesOf, First!IndexesOf
<1>6. CASE UpdateIndex
  <2>1. First!UpdateIndex
    BY <1>6, <1>3, SameOperators DEF UpdateIndex, First!UpdateIndex, bucket, First!bucket
  <2>2. QED
    BY <1>3, <2>1 DEF First!Next, First!Step
<1>7. CASE ScanIndex
  <2>1. First!ScanIndex
    BY <1>7, <1>3, SameOperators
    DEF ScanIndex, First!ScanIndex, bucket, First!bucket, Matching, First!Matching
  <2>2. QED
    BY <1>3, <2>1 DEF First!Next, First!Step
<1>8. CASE EndScan
  <2>1. First!EndScan
    BY <1>8, <1>3
    DEF EndScan, First!EndScan, bucket, First!bucket, locals, First!locals, AfterScan,
        First!AfterScan
  <2>2. QED
    BY <1>3, <2>1 DEF First!Next, First!Step
<1>9. CASE PutPackages
  <2>1. First!PutPackages
    BY <1>9, <1>3, SameOperators
    DEF PutPackages, First!PutPackages, locals, First!locals, BuildPackages,
        First!BuildPackages
  <2>2. QED
    BY <1>3, <2>1 DEF First!Next, First!Step
<1>10. CASE PutPackagesGz
  <2>1. First!PutPackagesGz
    BY <1>10, <1>3, SameOperators
    DEF PutPackagesGz, First!PutPackagesGz, locals, First!locals, BuildPackages,
        First!BuildPackages
  <2>2. QED
    BY <1>3, <2>1 DEF First!Next, First!Step
<1>11. CASE PublishRelease
  <2>1. First!PublishRelease
    BY <1>11, <1>3, SameOperators
    DEF PublishRelease, First!PublishRelease, locals, First!locals, BuildRelease,
        First!BuildRelease, AfterRelease, First!AfterRelease
  <2>2. QED
    BY <1>3, <2>1 DEF First!Next, First!Step
<1>12. CASE PutInRelease
  <2>1. First!PutInRelease
    BY <1>12, <1>3, SameOperators
    DEF PutInRelease, First!PutInRelease, locals, First!locals
  <2>2. QED
    BY <1>3, <2>1 DEF First!Next, First!Step
<1>13. CASE PutReleaseGpg
  <2>1. First!PutReleaseGpg
    BY <1>13, <1>3, SameOperators
    DEF PutReleaseGpg, First!PutReleaseGpg, locals, First!locals
  <2>2. QED
    BY <1>3, <2>1 DEF First!Next, First!Step
<1>14. CASE Return \/ Fail
  <2>1. (First!Return \/ First!Fail)
    BY <1>14, <1>3, SameOperators
    DEF Return, First!Return, Fail, First!Fail, Finish, First!Finish, bucket, First!bucket
  <2>2. QED
    BY <1>3, <2>1 DEF First!Next, First!Step
<1>15. QED
  BY <1>1, <1>2, <1>3, <1>4, <1>5, <1>6, <1>7, <1>8, <1>9, <1>10, <1>11, <1>12, <1>13,
     <1>14
  DEF Next, Step, First!Next

-----------------------------------------------------------------------------
(* A step of the second distribution, likewise.                            *)

\* The operators of the second distribution are the same as well.
LEMMA SameOperators2 ==
  /\ \A s, k, v : Other!Put(s, k, v) = Put(s, k, v) /\ Second!Put(s, k, v) = Put(s, k, v)
  /\ \A s, k : Other!Delete(s, k) = Delete(s, k) /\ Second!Delete(s, k) = Delete(s, k)
  /\ \A s : Second!Cardinality(s) = Other!Cardinality(s)
  /\ \A i, p : Second!PathOf(i, p) = Other!PathOf(i, p)
  /\ \A c, o : Second!Insert(c, o) = Other!Insert(c, o)
  /\ \A c : Second!Prune(c) = Other!Prune(c)
  /\ \A c : Second!Surplus(c) = Other!Surplus(c)
  /\ \A i : Second!Read(i) = Other!Read(i)
<1>1. \A s : Second!Cardinality(s) = Other!Cardinality(s)
  BY DEF Second!Cardinality, Other!Cardinality, Second!IsFiniteSet, Other!IsFiniteSet
<1>2. \A c : Second!Prune(c) = Other!Prune(c)
  BY <1>1
  DEF Second!Prune, Other!Prune, Second!Retain, Other!Retain, Second!Ahead, Other!Ahead,
      Second!Newer, Other!Newer, Second!GroupOf, Other!GroupOf, Second!AgeOf, Other!AgeOf,
      Second!Packages, Other!Packages
<1>3. QED
  BY <1>1, <1>2
  DEF Put, Second!Put, Other!Put, Delete, Second!Delete, Other!Delete, Second!PathOf,
      Other!PathOf, Second!Insert, Other!Insert, Second!Surplus, Other!Surplus,
      Second!Read, Other!Read

\* The names of what an operation under way writes.
LEMMA SecondPackages ==
  ASSUME Second!TypeInv
  PROVE  /\ pc2 = "upload" => op2.pkg \in Other!Packages
         /\ \A e \in doomed2 : e.pkg \in Other!Packages
<1>1. doomed2 \subseteq Second!Stanzas
  BY DEF Second!TypeInv, Second!TypeOK, Second!Contents
<1>2. Second!Packages = Other!Packages
  BY DEF Second!Packages, Other!Packages
<1>3. \A e \in Second!Stanzas : e.pkg \in Second!Packages
  BY DEF Second!Stanzas
<1>4. pc2 = "upload" => op2.pkg \in Second!Packages
  BY DEF Second!TypeInv, Second!ControlOK, Second!AddOps
<1>5. QED
  BY <1>1, <1>2, <1>3, <1>4

LEMMA SecondUpload ==
  ASSUME Second!TypeInv, Other!Upload
  PROVE  Second!Upload
<1> DEFINE k == Other!PathOf(index2', op2.pkg)
<1>1. k.pkg \in Other!Packages
  BY SecondPackages DEF Other!Upload, Other!PathOf
<1>2. pool' = Put(pool, k, op2.build)
  BY SameOperators2 DEF Other!Upload
<1> HIDE DEF k
<1>3. PartOf(pool', Other!Packages) = Put(PartOf(pool, Other!Packages), k, op2.build)
  BY <1>1, <1>2, PutInPart
<1>4. PartOf(pool, Other!Packages)' = PartOf(pool', Other!Packages)
  BY DEF PartOf
<1>5. QED
  BY <1>3, <1>4, SameOperators2 DEF Other!Upload, Second!Upload, k

LEMMA SecondDelete ==
  ASSUME Second!TypeInv, Other!DeletePoolFile
  PROVE  Second!DeletePoolFile
<1>1. PICK e \in doomed2 : /\ pool' = Delete(pool, Other!PathOf(index2, e.pkg))
                          /\ doomed2' = doomed2 \ {e}
  BY SameOperators2 DEF Other!DeletePoolFile
<1> DEFINE k == Other!PathOf(index2, e.pkg)
<1>2. k.pkg \in Other!Packages
  BY SecondPackages DEF Other!PathOf
<1> HIDE DEF k
<1>3. PartOf(pool', Other!Packages) = Delete(PartOf(pool, Other!Packages), k)
  BY <1>1, DeleteInPart DEF k
<1>4. PartOf(pool, Other!Packages)' = PartOf(pool', Other!Packages)
  BY DEF PartOf
<1>5. QED
  BY <1>1, <1>3, <1>4, SameOperators2
  DEF Other!DeletePoolFile, Second!DeletePoolFile, k

LEMMA SecondStep ==
  ASSUME Second!TypeInv, Other!Next
  PROVE  Second!Next
<1>1. CASE Other!Upload
  BY <1>1, SecondUpload DEF Second!Next, Second!Step
<1>2. CASE Other!DeletePoolFile
  BY <1>2, SecondDelete DEF Second!Next, Second!Step
<1>3. ASSUME UNCHANGED pool
      PROVE  UNCHANGED PartOf(pool, Other!Packages)
  BY <1>3 DEF PartOf
<1>4. ASSUME NEW o \in Other!AddOps, Other!BeginAdd(o)
      PROVE  Second!BeginAdd(o) /\ o \in Second!AddOps
  BY <1>4, <1>3
  DEF Other!BeginAdd, Second!BeginAdd, Other!Start, Second!Start, Other!Admissible,
      Second!Admissible, Other!bucket, Second!bucket, Other!AddOps, Second!AddOps,
      Other!Packages, Second!Packages
<1>5. ASSUME NEW o \in Other!RemoveOps, Other!BeginRemove(o)
      PROVE  Second!BeginRemove(o) /\ o \in Second!RemoveOps
  BY <1>5, <1>3
  DEF Other!BeginRemove, Second!BeginRemove, Other!Start, Second!Start, Other!Admissible,
      Second!Admissible, Other!bucket, Second!bucket, Other!RemoveOps, Second!RemoveOps,
      Other!Packages, Second!Packages, Other!IndexesOf, Second!IndexesOf
<1>6. CASE Other!UpdateIndex
  <2>1. Second!UpdateIndex
    BY <1>6, <1>3, SameOperators2
    DEF Other!UpdateIndex, Second!UpdateIndex, Other!bucket, Second!bucket
  <2>2. QED
    BY <1>3, <2>1 DEF Second!Next, Second!Step
<1>7. CASE Other!ScanIndex
  <2>1. Second!ScanIndex
    BY <1>7, <1>3, SameOperators2
    DEF Other!ScanIndex, Second!ScanIndex, Other!bucket, Second!bucket, Other!Matching,
        Second!Matching
  <2>2. QED
    BY <1>3, <2>1 DEF Second!Next, Second!Step
<1>8. CASE Other!EndScan
  <2>1. Second!EndScan
    BY <1>8, <1>3
    DEF Other!EndScan, Second!EndScan, Other!bucket, Second!bucket, Other!locals,
        Second!locals, Other!AfterScan, Second!AfterScan
  <2>2. QED
    BY <1>3, <2>1 DEF Second!Next, Second!Step
<1>9. CASE Other!PutPackages
  <2>1. Second!PutPackages
    BY <1>9, <1>3, SameOperators2
    DEF Other!PutPackages, Second!PutPackages, Other!locals, Second!locals,
        Other!BuildPackages, Second!BuildPackages
  <2>2. QED
    BY <1>3, <2>1 DEF Second!Next, Second!Step
<1>10. CASE Other!PutPackagesGz
  <2>1. Second!PutPackagesGz
    BY <1>10, <1>3, SameOperators2
    DEF Other!PutPackagesGz, Second!PutPackagesGz, Other!locals, Second!locals,
        Other!BuildPackages, Second!BuildPackages
  <2>2. QED
    BY <1>3, <2>1 DEF Second!Next, Second!Step
<1>11. CASE Other!PublishRelease
  <2>1. Second!PublishRelease
    BY <1>11, <1>3, SameOperators2
    DEF Other!PublishRelease, Second!PublishRelease, Other!locals, Second!locals,
        Other!BuildRelease, Second!BuildRelease, Other!AfterRelease, Second!AfterRelease
  <2>2. QED
    BY <1>3, <2>1 DEF Second!Next, Second!Step
<1>12. CASE Other!PutInRelease
  <2>1. Second!PutInRelease
    BY <1>12, <1>3, SameOperators2
    DEF Other!PutInRelease, Second!PutInRelease, Other!locals, Second!locals
  <2>2. QED
    BY <1>3, <2>1 DEF Second!Next, Second!Step
<1>13. CASE Other!PutReleaseGpg
  <2>1. Second!PutReleaseGpg
    BY <1>13, <1>3, SameOperators2
    DEF Other!PutReleaseGpg, Second!PutReleaseGpg, Other!locals, Second!locals
  <2>2. QED
    BY <1>3, <2>1 DEF Second!Next, Second!Step
<1>14. CASE Other!Return \/ Other!Fail
  <2>1. (Second!Return \/ Second!Fail)
    BY <1>14, <1>3, SameOperators2
    DEF Other!Return, Second!Return, Other!Fail, Second!Fail, Other!Finish,
        Second!Finish, Other!bucket, Second!bucket
  <2>2. QED
    BY <1>3, <2>1 DEF Second!Next, Second!Step
<1>15. QED
  BY <1>1, <1>2, <1>3, <1>4, <1>5, <1>6, <1>7, <1>8, <1>9, <1>10, <1>11, <1>12, <1>13,
     <1>14
  DEF Other!Next, Other!Step, Second!Next

-----------------------------------------------------------------------------
(* What a step of one of them does to the part of the pool of the other.   *)

\* A step writes or deletes one file of the pool at most, and one of a package that
\* its distribution has.
LEMMA FirstEffect ==
  ASSUME First!TypeInv, Next
  PROVE  \/ UNCHANGED pool
         \/ \E k \in Paths : \E v \in Builds : pool' = Put(pool, k, v)
         \/ \E k \in Paths : pool' = Delete(pool, k)
<1>1. CASE Upload
  <2>1. op \in AddOps
    BY <1>1 DEF Upload, First!TypeInv, First!ControlOK, First!AddOps, AddOps,
       First!Packages, Packages
  <2>2. PathOf(index', op.pkg) \in Paths /\ op.build \in Builds
    BY <1>1, <2>1 DEF Upload, AddOps, PathOf, Paths
  <2>3. QED
    BY <1>1, <2>2 DEF Upload
<1>2. CASE DeletePoolFile
  <2>1. PICK e \in doomed : pool' = Delete(pool, PathOf(index, e.pkg))
    BY <1>2 DEF DeletePoolFile
  <2>2. e.pkg \in Packages /\ index \in Indexes
    BY <1>2, FirstPackages
    DEF DeletePoolFile, First!TypeInv, First!ControlOK, First!Indexes, Indexes
  <2>3. PathOf(index, e.pkg) \in Paths
    BY <2>2 DEF PathOf, Paths, Indexes
  <2>4. QED
    BY <2>1, <2>3
<1>3. CASE ~ Upload /\ ~ DeletePoolFile
  BY <1>3
  DEF Next, Step, BeginAdd, BeginRemove, Start, UpdateIndex, ScanIndex, EndScan,
      PutPackages, PutPackagesGz, PublishRelease, PutInRelease, PutReleaseGpg, Return,
      Fail, Finish, bucket
<1>4. QED
  BY <1>1, <1>2, <1>3

LEMMA SecondEffect ==
  ASSUME Second!TypeInv, Other!Next
  PROVE  \/ UNCHANGED pool
         \/ \E k \in Other!Paths : \E v \in Builds : pool' = Put(pool, k, v)
         \/ \E k \in Other!Paths : pool' = Delete(pool, k)
<1>1. CASE Other!Upload
  <2>1. op2 \in Other!AddOps
    BY <1>1 DEF Other!Upload, Second!TypeInv, Second!ControlOK, Second!AddOps,
       Other!AddOps, Second!Packages, Other!Packages
  <2>2. Other!PathOf(index2', op2.pkg) \in Other!Paths /\ op2.build \in Builds
    BY <1>1, <2>1 DEF Other!Upload, Other!AddOps, Other!PathOf, Other!Paths
  <2>3. QED
    BY <1>1, <2>2, SameOperators2 DEF Other!Upload
<1>2. CASE Other!DeletePoolFile
  <2>1. PICK e \in doomed2 : pool' = Delete(pool, Other!PathOf(index2, e.pkg))
    BY <1>2, SameOperators2 DEF Other!DeletePoolFile
  <2>2. e.pkg \in Other!Packages /\ index2 \in Other!Indexes
    BY <1>2, SecondPackages
    DEF Other!DeletePoolFile, Second!TypeInv, Second!ControlOK, Second!Indexes,
        Other!Indexes
  <2>3. Other!PathOf(index2, e.pkg) \in Other!Paths
    BY <2>2 DEF Other!PathOf, Other!Paths, Other!Indexes
  <2>4. QED
    BY <2>1, <2>3
<1>3. CASE ~ Other!Upload /\ ~ Other!DeletePoolFile
  BY <1>3
  DEF Other!Next, Other!Step, Other!BeginAdd, Other!BeginRemove, Other!Start,
      Other!UpdateIndex, Other!ScanIndex, Other!EndScan, Other!PutPackages,
      Other!PutPackagesGz, Other!PublishRelease, Other!PutInRelease,
      Other!PutReleaseGpg, Other!Return, Other!Fail, Other!Finish, Other!bucket
<1>4. QED
  BY <1>1, <1>2, <1>3

\* When they share no package it does nothing to it.
LEMMA Apart ==
  ASSUME ShareNoPackage, BothInv
  PROVE  /\ Next => UNCHANGED PartOf(pool, Other!Packages)
         /\ Other!Next => UNCHANGED PartOf(pool, Packages)
<1>1. \A k \in Paths : k.pkg \notin Other!Packages
  BY DEF ShareNoPackage, Paths
<1>2. \A k \in Other!Paths : k.pkg \notin Packages
  BY DEF ShareNoPackage, Other!Paths
<1>3. ASSUME Next PROVE PartOf(pool', Other!Packages) = PartOf(pool, Other!Packages)
  BY <1>1, <1>3, FirstEffect, PutElsewhere, DeleteElsewhere DEF BothInv
<1>4. ASSUME Other!Next PROVE PartOf(pool', Packages) = PartOf(pool, Packages)
  BY <1>2, <1>4, SecondEffect, PutElsewhere, DeleteElsewhere DEF BothInv
<1>5. /\ PartOf(pool, Packages)' = PartOf(pool', Packages)
      /\ PartOf(pool, Other!Packages)' = PartOf(pool', Other!Packages)
  BY DEF PartOf
<1>6. QED
  BY <1>3, <1>4, <1>5

\* Otherwise it leaves files of the right kind there.
LEMMA PartType ==
  ASSUME NEW keys, NEW pkgs, NEW s, IsStore(PartOf(s, pkgs), keys, Builds), NEW k
  PROVE  /\ \A v \in Builds : k \in keys \/ k.pkg \notin pkgs
              => IsStore(PartOf(Put(s, k, v), pkgs), keys, Builds)
         /\ IsStore(PartOf(Delete(s, k), pkgs), keys, Builds)
BY DEF IsStore, PartOf, Put, Delete

-----------------------------------------------------------------------------
(* Both together.                                                          *)

LEMMA BothAloneInit ==
  ASSUME BothInit
  PROVE  First!Init /\ Second!Init
<1>1. PartOf(Empty, Packages) = Empty /\ PartOf(Empty, Other!Packages) = Empty
  BY DEF PartOf, Empty
<1>2. Other!Empty = Empty /\ First!Empty = Empty /\ Second!Empty = Empty
  BY DEF Other!Empty, Empty, First!Empty, Second!Empty
<1>3. QED
  BY <1>1, <1>2 DEF BothInit, Init, Other!Init, First!Init, Second!Init

LEMMA BothAloneStep ==
  ASSUME ShareNoPackage, BothInv, [BothNext]_allVars
  PROVE  [First!Next]_First!vars /\ [Second!Next]_Second!vars
<1> USE DEF First!vars, First!bucket, First!locals, Second!vars, Second!bucket,
            Second!locals
<1>1. CASE Next /\ UNCHANGED others
  BY <1>1, FirstStep, Apart DEF BothInv, others
<1>2. CASE Other!Next /\ UNCHANGED mine
  BY <1>2, SecondStep, Apart DEF BothInv, mine, locals
<1>3. CASE UNCHANGED allVars
  BY <1>3 DEF allVars, mine, others, locals, PartOf
<1>4. QED
  BY <1>1, <1>2, <1>3 DEF BothNext

LEMMA BothInvStep ==
  ASSUME ShareNoPackage, BothInv, [BothNext]_allVars
  PROVE  BothInv'
BY BothAloneStep, First!TypeStep, Second!TypeStep, WithinAssumption, RankAssumption,
   OtherRankAssumption, KeepAssumption, SignedAssumption, FaultAssumption, BoundAssumption
DEF BothInv

LEMMA BothInvInit == BothInit => BothInv
BY BothAloneInit, First!TypeInit, Second!TypeInit, WithinAssumption, RankAssumption,
   OtherRankAssumption, KeepAssumption, SignedAssumption, FaultAssumption, BoundAssumption
DEF BothInv

\* Two distributions that share no package, each written by a writer of its own at
\* the same time, do not notice each other: with its own part of the pool either
\* is a publisher that is alone in its bucket (poolPath, indexPrefix, distPrefix).
THEOREM EachIsAlone ==
  ASSUME ShareNoPackage
  PROVE  BothSpec => First!Spec /\ Second!Spec
<1>1. BothInit => First!Init /\ Second!Init
  BY BothAloneInit
<1>2. BothInv /\ [BothNext]_allVars => BothInv'
  BY BothInvStep
<1>3. BothInv /\ [BothNext]_allVars
        => [First!Next]_First!vars /\ [Second!Next]_Second!vars
  BY BothAloneStep
<1>4. QED
  BY <1>1, <1>2, <1>3, BothInvInit, PTL DEF BothSpec, First!Spec, Second!Spec

\* What holds of a part of the pool holds of the pool.
LEMMA HoldsInPart ==
  ASSUME NEW s, NEW pkgs, NEW k, NEW v
  PROVE  /\ Holds(PartOf(s, pkgs), k, v) => Holds(s, k, v)
         /\ k.pkg \in pkgs /\ Holds(s, k, v) => Holds(PartOf(s, pkgs), k, v)
BY DEF Holds, PartOf

LEMMA FirstMatches ==
  ASSUME First!TypeInv, First!PoolMatchesPackages, Settled
  PROVE  FilesOf(InPool, OnlyFirst) = FilesOf(ListedFirst, OnlyFirst)
<1>1. \A i \in Indexes : First!PoolMatches(i)
  BY DEF First!PoolMatchesPackages, First!Settled, Settled, First!Indexes, Indexes
<1>2. ASSUME NEW f \in ListedFirst
      PROVE  f \in InPool
  <2>1. PICK i \in Indexes : \E e \in Read(i) :
          f = [path |-> PathOf(i, e.pkg), build |-> e.build]
    BY DEF ListedFirst
  <2>2. PICK e \in Read(i) : f = [path |-> PathOf(i, e.pkg), build |-> e.build]
    BY <2>1
  <2>3. Holds(pool, PathOf(i, e.pkg), e.build)
    BY <1>1, HoldsInPart, SameOperators DEF First!PoolMatches, First!Holds, Holds
  <2>4. QED
    BY <2>2, <2>3 DEF InPool, Holds
<1>3. ASSUME NEW f \in InPool, f.path.pkg \in Packages
      PROVE  f \in ListedFirst
  <2>1. PICK p \in DOMAIN pool : f = [path |-> p, build |-> pool[p]]
    BY DEF InPool
  <2>2. p \in DOMAIN PartOf(pool, Packages) /\ PartOf(pool, Packages)[p] = pool[p]
    BY <1>3, <2>1 DEF PartOf
  <2>3. p \in Paths
    BY <2>2 DEF First!TypeInv, First!TypeOK, First!IsStore, First!Paths, Paths,
       First!Packages, Packages
  <2>4. PICK i \in Indexes : p = PathOf(i, p.pkg)
    BY <2>3, PathIndex
  <2>5. PICK e \in Read(i) : e.pkg = p.pkg
    BY <1>1, <1>3, <2>1, <2>2, <2>4, SameOperators
    DEF First!PoolMatches, First!Packages, Packages
  <2>6. e.build = pool[p]
    BY <1>1, <2>2, <2>4, <2>5, SameOperators DEF First!PoolMatches, First!Holds
  <2>7. f = [path |-> PathOf(i, e.pkg), build |-> e.build]
    BY <2>1, <2>4, <2>5, <2>6
  <2>8. QED
    BY <2>7 DEF ListedFirst
<1>4. QED
  BY <1>2, <1>3 DEF FilesOf, OnlyFirst

LEMMA SecondMatches ==
  ASSUME Second!TypeInv, Second!PoolMatchesPackages, Other!Settled
  PROVE  FilesOf(InPool, OnlySecond) = FilesOf(ListedSecond, OnlySecond)
<1>1. \A i \in Other!Indexes : Second!PoolMatches(i)
  BY DEF Second!PoolMatchesPackages, Second!Settled, Other!Settled, Second!Indexes,
     Other!Indexes
<1>2. ASSUME NEW f \in ListedSecond
      PROVE  f \in InPool
  <2>1. PICK i \in Other!Indexes : \E e \in Other!Read(i) :
          f = [path |-> Other!PathOf(i, e.pkg), build |-> e.build]
    BY DEF ListedSecond
  <2>2. PICK e \in Other!Read(i) : f = [path |-> Other!PathOf(i, e.pkg), build |-> e.build]
    BY <2>1
  <2>3. Holds(pool, Other!PathOf(i, e.pkg), e.build)
    BY <1>1, HoldsInPart, SameOperators2 DEF Second!PoolMatches, Second!Holds, Holds
  <2>4. QED
    BY <2>2, <2>3 DEF InPool, Holds
<1>3. ASSUME NEW f \in InPool, f.path.pkg \in Other!Packages
      PROVE  f \in ListedSecond
  <2>1. PICK p \in DOMAIN pool : f = [path |-> p, build |-> pool[p]]
    BY DEF InPool
  <2>2. p \in DOMAIN PartOf(pool, Other!Packages)
          /\ PartOf(pool, Other!Packages)[p] = pool[p]
    BY <1>3, <2>1 DEF PartOf
  <2>3. p \in Other!Paths
    BY <2>2 DEF Second!TypeInv, Second!TypeOK, Second!IsStore, Second!Paths, Other!Paths,
       Second!Packages, Other!Packages
  <2>4. PICK i \in Other!Indexes : p = Other!PathOf(i, p.pkg)
    BY <2>3, PathIndex
  <2>5. PICK e \in Other!Read(i) : e.pkg = p.pkg
    BY <1>1, <1>3, <2>1, <2>2, <2>4, SameOperators2
    DEF Second!PoolMatches, Second!Packages, Other!Packages
  <2>6. e.build = pool[p]
    BY <1>1, <2>2, <2>4, <2>5, SameOperators2 DEF Second!PoolMatches, Second!Holds
  <2>7. f = [path |-> Other!PathOf(i, e.pkg), build |-> e.build]
    BY <2>1, <2>4, <2>5, <2>6
  <2>8. QED
    BY <2>7 DEF ListedSecond
<1>4. QED
  BY <1>2, <1>3 DEF FilesOf, OnlySecond

LEMMA FirstStays ==
  ASSUME First!TypeInv, First!AckedStays
  PROVE  acked \subseteq InPool \cap ListedFirst
<1> SUFFICES ASSUME NEW f \in acked
             PROVE  f \in InPool /\ f \in ListedFirst
  OBVIOUS
<1>1. f = [path |-> f.path, build |-> f.build]
  BY DEF First!TypeInv, First!TypeOK
<1>2. Holds(pool, f.path, f.build)
  BY HoldsInPart DEF First!AckedStays, First!Holds, Holds
<1>3. PICK i \in Indexes : \E e \in Read(i) : PathOf(i, e.pkg) = f.path /\ e.build = f.build
  BY SameOperators DEF First!AckedStays, First!Indexes, Indexes
<1>4. QED
  BY <1>1, <1>2, <1>3 DEF InPool, ListedFirst, Holds

LEMMA SecondStays ==
  ASSUME Second!TypeInv, Second!AckedStays
  PROVE  acked2 \subseteq InPool \cap ListedSecond
<1> SUFFICES ASSUME NEW f \in acked2
             PROVE  f \in InPool /\ f \in ListedSecond
  OBVIOUS
<1>1. f = [path |-> f.path, build |-> f.build]
  BY DEF Second!TypeInv, Second!TypeOK
<1>2. Holds(pool, f.path, f.build)
  BY HoldsInPart DEF Second!AckedStays, Second!Holds, Holds
<1>3. PICK i \in Other!Indexes : \E e \in Other!Read(i) :
        Other!PathOf(i, e.pkg) = f.path /\ e.build = f.build
  BY SameOperators2 DEF Second!AckedStays, Second!Indexes, Other!Indexes
<1>4. QED
  BY <1>1, <1>2, <1>3 DEF InPool, ListedSecond, Holds

\* Two distributions that share no package, but may have different versions of one,
\* may be written at the same time: when either reports success, the pool holds what
\* its indexes list and nothing that it has dropped, for callers that run an
\* interrupted operation again first.
THEOREM PoolsAgree ==
  ASSUME ShareNoPackage, RetryFirst
  PROVE  BothSpec => []BothPoolsMatch
<1>1. First!Spec => []First!PoolMatchesPackages /\ []First!TypeInv
  BY First!PoolAgrees, First!TypeInvariance, WithinAssumption, RankAssumption,
     KeepAssumption, SignedAssumption, FaultAssumption, BoundAssumption
<1>2. Second!Spec => []Second!PoolMatchesPackages /\ []Second!TypeInv
  BY Second!PoolAgrees, Second!TypeInvariance, WithinAssumption, OtherRankAssumption,
     KeepAssumption, SignedAssumption, FaultAssumption, BoundAssumption
<1>3. BothSpec => First!Spec /\ Second!Spec
  BY EachIsAlone
<1>4. First!PoolMatchesPackages /\ First!TypeInv
        /\ Second!PoolMatchesPackages /\ Second!TypeInv => BothPoolsMatch
  BY FirstMatches, SecondMatches DEF BothPoolsMatch
<1>5. QED
  BY <1>1, <1>2, <1>3, <1>4, PTL

\* Nor does either lose what its Add has published, at any step of an operation of
\* the other and whatever is interrupted, when no component is below another.
THEOREM BothPublishedStay ==
  ASSUME ShareNoPackage, First!Flat
  PROVE  BothSpec => []BothAckedStay
<1>1. First!Spec => []First!AckedStays /\ []First!TypeInv
  BY First!PublishedStays, First!TypeInvariance, WithinAssumption, RankAssumption,
     KeepAssumption, SignedAssumption, FaultAssumption, BoundAssumption
<1>2. Second!Spec => []Second!AckedStays /\ []Second!TypeInv
  BY Second!PublishedStays, Second!TypeInvariance, WithinAssumption, OtherRankAssumption,
     KeepAssumption, SignedAssumption, FaultAssumption, BoundAssumption
  DEF First!Flat, Second!Flat
<1>3. BothSpec => First!Spec /\ Second!Spec
  BY EachIsAlone
<1>4. First!AckedStays /\ First!TypeInv /\ Second!AckedStays /\ Second!TypeInv
        => BothAckedStay
  BY FirstStays, SecondStays DEF BothAckedStay, FilesOf
<1>5. QED
  BY <1>1, <1>2, <1>3, <1>4, PTL

-----------------------------------------------------------------------------
(* Distributions that share packages.                                      *)

\* Whatever the other does, each knows what it is doing, and for every file of the
\* pool one of them answers, which lists it or is about to list or to delete it.
SharedInv ==
  /\ First!WriteInv
  /\ Second!WriteInv
  /\ \A p \in DOMAIN pool : \/ First!Claims([path |-> p, build |-> pool[p]])
                            \/ Second!Claims([path |-> p, build |-> pool[p]])

LEMMA SharedInit == BothInit => SharedInv
<1>1. BothInit => First!WriteInv /\ Second!WriteInv
  BY BothAloneInit, First!WriteInit, Second!WriteInit, WithinAssumption, RankAssumption,
     OtherRankAssumption, KeepAssumption, SignedAssumption, FaultAssumption,
     BoundAssumption
<1>2. BothInit => DOMAIN pool = {}
  BY DEF BothInit, Init, Empty
<1>3. QED
  BY <1>1, <1>2 DEF SharedInv

\* A step of the second leaves the first as it was, but for the pool.
LEMMA FirstUndisturbed ==
  ASSUME First!WriteInv, Second!TypeInv, Other!Next, UNCHANGED mine
  PROVE  /\ First!WriteInv'
         /\ \A f : First!Claims(f) => First!Claims(f)'
<1>1. UNCHANGED <<packages, packagesGz, dist, pc, op, index, kept, doomed, queue, removed,
                  outcome, acked, ops, faults>>
  BY DEF mine, locals
<1>2. IsStore(PartOf(pool, Packages), First!Paths, Builds)
  BY DEF First!WriteInv, First!TypeInv, First!TypeOK, First!IsStore, IsStore
<1>3. \A k \in Other!Paths : k \in First!Paths \/ k.pkg \notin Packages
  BY DEF Other!Paths, First!Paths, First!Packages, Packages
<1>4. IsStore(PartOf(pool', Packages), First!Paths, Builds)
  BY <1>2, <1>3, SecondEffect, PartType
<1>5. PartOf(pool, Packages)' = PartOf(pool', Packages)
  BY DEF PartOf
<1>6. First!TypeInv'
  BY <1>1, <1>4, <1>5
  DEF First!WriteInv, First!TypeInv, First!TypeOK, First!ControlOK, First!IsStore, IsStore,
      First!IsRelease
<1>7. First!OutcomeOK' /\ First!RewriteOK'
  BY <1>1 DEF First!WriteInv, First!OutcomeOK, First!RewriteOK, First!Read
<1>8. \A f : First!Claims(f)' = First!Claims(f)
  BY <1>1 DEF First!Claims, First!Planned, First!OwnFile, First!Read, First!TargetOf
<1>9. QED
  BY <1>6, <1>7, <1>8 DEF First!WriteInv

LEMMA SecondUndisturbed ==
  ASSUME Second!WriteInv, First!TypeInv, Next, UNCHANGED others
  PROVE  /\ Second!WriteInv'
         /\ \A f : Second!Claims(f) => Second!Claims(f)'
<1>1. UNCHANGED <<packages2, packagesGz2, dist2, pc2, op2, index2, kept2, doomed2, queue2,
                  removed2, outcome2, acked2, ops2, faults2>>
  BY DEF others
<1>2. IsStore(PartOf(pool, Other!Packages), Second!Paths, Builds)
  BY DEF Second!WriteInv, Second!TypeInv, Second!TypeOK, Second!IsStore, IsStore
<1>3. \A k \in Paths : k \in Second!Paths \/ k.pkg \notin Other!Packages
  BY DEF Paths, Second!Paths, Second!Packages, Other!Packages
<1>4. IsStore(PartOf(pool', Other!Packages), Second!Paths, Builds)
  BY <1>2, <1>3, FirstEffect, PartType
<1>5. PartOf(pool, Other!Packages)' = PartOf(pool', Other!Packages)
  BY DEF PartOf
<1>6. Second!TypeInv'
  BY <1>1, <1>4, <1>5
  DEF Second!WriteInv, Second!TypeInv, Second!TypeOK, Second!ControlOK, Second!IsStore,
      IsStore, Second!IsRelease
<1>7. Second!OutcomeOK' /\ Second!RewriteOK'
  BY <1>1 DEF Second!WriteInv, Second!OutcomeOK, Second!RewriteOK, Second!Read
<1>8. \A f : Second!Claims(f)' = Second!Claims(f)
  BY <1>1 DEF Second!Claims, Second!Planned, Second!OwnFile, Second!Read, Second!TargetOf
<1>9. QED
  BY <1>6, <1>7, <1>8 DEF Second!WriteInv

\* Neither answers for a package that it does not have.
LEMMA FirstClaims ==
  ASSUME First!WriteInv, NEW f, First!Claims(f)
  PROVE  f.path.pkg \in Packages
<1>1. First!Packages = Packages
  BY DEF First!Packages, Packages
<1>2. \A i \in First!Indexes : \A e \in First!Planned(i) : e.pkg \in First!Packages
  <2>1. \A i : \A e \in First!Read(i) : e.pkg \in First!Packages
    BY First!ReadPackages, WithinAssumption, RankAssumption, KeepAssumption,
       SignedAssumption, FaultAssumption, BoundAssumption DEF First!WriteInv
  <2>2. \A e \in kept \cup doomed : e.pkg \in First!Packages
    BY DEF First!WriteInv, First!TypeInv, First!TypeOK, First!Contents, First!Stanzas
  <2>3. QED
    BY <2>1, <2>2 DEF First!Planned
<1>3. (pc \in {"upload", "updateIndex"} \/ op \in First!AddOps) => op.pkg \in First!Packages
  BY DEF First!WriteInv, First!TypeInv, First!ControlOK, First!AddOps
<1>4. QED
  BY <1>1, <1>2, <1>3 DEF First!Claims, First!OwnFile, First!PathOf

LEMMA FirstShares ==
  ASSUME RetryFirst, SharedInv, Next, UNCHANGED others
  PROVE  SharedInv'
<1>1. First!Next /\ First!RunsAgain
  BY FirstStep, First!RetriesRunAgain, WithinAssumption, RankAssumption, KeepAssumption,
     SignedAssumption, FaultAssumption, BoundAssumption DEF SharedInv, First!WriteInv
<1>2. First!WriteInv'
  BY <1>1, First!WriteStep, WithinAssumption, RankAssumption, KeepAssumption,
     SignedAssumption, FaultAssumption, BoundAssumption DEF SharedInv
<1>3. Second!WriteInv' /\ \A f : Second!Claims(f) => Second!Claims(f)'
  BY SecondUndisturbed DEF SharedInv, First!WriteInv
<1>4. ASSUME NEW p \in DOMAIN pool', NEW b, b = pool'[p]
      PROVE  First!Claims(First!File(p, b))' \/ Second!Claims(First!File(p, b))'
  <2>1. CASE p.pkg \in Packages
    <3>1. First!Holds(PartOf(pool, Packages), p, b)'
      BY <1>4, <2>1 DEF First!Holds, PartOf
    <3>2. CASE Holds(pool, p, b)
      <4>1. First!Claims(First!File(p, b)) \/ Second!Claims(First!File(p, b))
        BY <3>2 DEF SharedInv, Holds, First!File
      <4>2. First!Claims(First!File(p, b)) => First!Claims(First!File(p, b))'
        BY <1>1, <3>1, First!ClaimStep, WithinAssumption, RankAssumption, KeepAssumption,
           SignedAssumption, FaultAssumption, BoundAssumption DEF SharedInv
      <4>3. QED
        BY <1>3, <4>1, <4>2
    <3>3. CASE ~ Holds(pool, p, b)
      <4>1. ~ First!Holds(PartOf(pool, Packages), p, b)
        BY <3>3, HoldsInPart DEF First!Holds, Holds
      <4>2. QED
        BY <1>1, <3>1, <4>1, First!ClaimStep, WithinAssumption, RankAssumption,
           KeepAssumption, SignedAssumption, FaultAssumption, BoundAssumption
        DEF SharedInv
    <3>4. QED
      BY <3>2, <3>3
  <2>2. CASE p.pkg \notin Packages
    <3>1. Holds(pool, p, b)
      <4>1. \A k \in Paths : k # p
        BY <2>2 DEF Paths
      <4>2. CASE UNCHANGED pool
        BY <1>4, <4>2 DEF Holds
      <4>3. CASE \E k \in Paths : \E v \in Builds : pool' = Put(pool, k, v)
        <5>1. PICK k \in Paths, v \in Builds : pool' = Put(pool, k, v)
          BY <4>3
        <5>2. QED
          BY <1>4, <4>1, <5>1 DEF Put, Holds
      <4>4. CASE \E k \in Paths : pool' = Delete(pool, k)
        BY <1>4, <4>4 DEF Delete, Holds
      <4>5. QED
        BY <4>2, <4>3, <4>4, FirstEffect DEF SharedInv, First!WriteInv
    <3>2. First!Claims(First!File(p, b)) \/ Second!Claims(First!File(p, b))
      BY <3>1 DEF SharedInv, Holds, First!File
    <3>3. ~ First!Claims(First!File(p, b))
      BY <2>2, FirstClaims DEF SharedInv, First!File
    <3>4. QED
      BY <1>3, <3>2, <3>3
  <2>3. QED
    BY <2>1, <2>2
<1>5. \A p \in DOMAIN pool' : \/ First!Claims([path |-> p, build |-> pool[p]])'
                              \/ Second!Claims([path |-> p, build |-> pool[p]])'
  BY <1>4 DEF First!File, First!Claims, Second!Claims
<1>6. QED
  BY <1>2, <1>3, <1>5 DEF SharedInv

LEMMA SecondClaims ==
  ASSUME Second!WriteInv, NEW f, Second!Claims(f)
  PROVE  f.path.pkg \in Other!Packages
<1>1. Second!Packages = Other!Packages
  BY DEF Second!Packages, Other!Packages
<1>2. \A i \in Second!Indexes : \A e \in Second!Planned(i) : e.pkg \in Second!Packages
  <2>1. \A i : \A e \in Second!Read(i) : e.pkg \in Second!Packages
    BY Second!ReadPackages, WithinAssumption, OtherRankAssumption, KeepAssumption,
       SignedAssumption, FaultAssumption, BoundAssumption DEF Second!WriteInv
  <2>2. \A e \in kept2 \cup doomed2 : e.pkg \in Second!Packages
    BY DEF Second!WriteInv, Second!TypeInv, Second!TypeOK, Second!Contents, Second!Stanzas
  <2>3. QED
    BY <2>1, <2>2 DEF Second!Planned
<1>3. (pc2 \in {"upload", "updateIndex"} \/ op2 \in Second!AddOps) => op2.pkg \in Second!Packages
  BY DEF Second!WriteInv, Second!TypeInv, Second!ControlOK, Second!AddOps
<1>4. QED
  BY <1>1, <1>2, <1>3 DEF Second!Claims, Second!OwnFile, Second!PathOf

LEMMA SecondShares ==
  ASSUME RetryFirst, SharedInv, Other!Next, UNCHANGED mine
  PROVE  SharedInv'
<1>1. Second!Next /\ Second!RunsAgain
  BY SecondStep, Second!RetriesRunAgain, WithinAssumption, OtherRankAssumption, KeepAssumption,
     SignedAssumption, FaultAssumption, BoundAssumption DEF SharedInv, Second!WriteInv
<1>2. Second!WriteInv'
  BY <1>1, Second!WriteStep, WithinAssumption, OtherRankAssumption, KeepAssumption,
     SignedAssumption, FaultAssumption, BoundAssumption DEF SharedInv
<1>3. First!WriteInv' /\ \A f : First!Claims(f) => First!Claims(f)'
  BY FirstUndisturbed DEF SharedInv, Second!WriteInv
<1>4. ASSUME NEW p \in DOMAIN pool', NEW b, b = pool'[p]
      PROVE  Second!Claims(Second!File(p, b))' \/ First!Claims(Second!File(p, b))'
  <2>1. CASE p.pkg \in Other!Packages
    <3>1. Second!Holds(PartOf(pool, Other!Packages), p, b)'
      BY <1>4, <2>1 DEF Second!Holds, PartOf
    <3>2. CASE Holds(pool, p, b)
      <4>1. Second!Claims(Second!File(p, b)) \/ First!Claims(Second!File(p, b))
        BY <3>2 DEF SharedInv, Holds, Second!File
      <4>2. Second!Claims(Second!File(p, b)) => Second!Claims(Second!File(p, b))'
        BY <1>1, <3>1, Second!ClaimStep, WithinAssumption, OtherRankAssumption, KeepAssumption,
           SignedAssumption, FaultAssumption, BoundAssumption DEF SharedInv
      <4>3. QED
        BY <1>3, <4>1, <4>2
    <3>3. CASE ~ Holds(pool, p, b)
      <4>1. ~ Second!Holds(PartOf(pool, Other!Packages), p, b)
        BY <3>3, HoldsInPart DEF Second!Holds, Holds
      <4>2. QED
        BY <1>1, <3>1, <4>1, Second!ClaimStep, WithinAssumption, OtherRankAssumption,
           KeepAssumption, SignedAssumption, FaultAssumption, BoundAssumption
        DEF SharedInv
    <3>4. QED
      BY <3>2, <3>3
  <2>2. CASE p.pkg \notin Other!Packages
    <3>1. Holds(pool, p, b)
      <4>1. \A k \in Other!Paths : k # p
        BY <2>2 DEF Other!Paths
      <4>2. CASE UNCHANGED pool
        BY <1>4, <4>2 DEF Holds
      <4>3. CASE \E k \in Other!Paths : \E v \in Builds : pool' = Put(pool, k, v)
        <5>1. PICK k \in Other!Paths, v \in Builds : pool' = Put(pool, k, v)
          BY <4>3
        <5>2. QED
          BY <1>4, <4>1, <5>1 DEF Put, Holds
      <4>4. CASE \E k \in Other!Paths : pool' = Delete(pool, k)
        BY <1>4, <4>4 DEF Delete, Holds
      <4>5. QED
        BY <4>2, <4>3, <4>4, SecondEffect DEF SharedInv, Second!WriteInv
    <3>2. Second!Claims(Second!File(p, b)) \/ First!Claims(Second!File(p, b))
      BY <3>1 DEF SharedInv, Holds, Second!File
    <3>3. ~ Second!Claims(Second!File(p, b))
      BY <2>2, SecondClaims DEF SharedInv, Second!File
    <3>4. QED
      BY <1>3, <3>2, <3>3
  <2>3. QED
    BY <2>1, <2>2
<1>5. \A p \in DOMAIN pool' : \/ Second!Claims([path |-> p, build |-> pool[p]])'
                              \/ First!Claims([path |-> p, build |-> pool[p]])'
  BY <1>4 DEF Second!File, Second!Claims, First!Claims
<1>6. QED
  BY <1>2, <1>3, <1>5 DEF SharedInv

\* Whatever packages two distributions share and whatever one removes, replaces or
\* prunes beside the other, nothing stays in the pool that neither lists, when both
\* have reported success and run what was interrupted again first (poolPath).
THEOREM NothingIsLeftBehind ==
  ASSUME RetryFirst
  PROVE  BothSpec => []PoolIsListed
<1>1. SharedInv /\ [BothNext]_allVars => SharedInv'
  <2> SUFFICES ASSUME SharedInv, [BothNext]_allVars
               PROVE  SharedInv'
    OBVIOUS
  <2>1. CASE UNCHANGED allVars
    <3>1. SharedInv' = SharedInv
      BY <2>1
      DEF allVars, mine, others, locals, SharedInv, First!WriteInv, Second!WriteInv,
          First!TypeInv, Second!TypeInv, First!TypeOK, Second!TypeOK, First!ControlOK,
          Second!ControlOK, First!OutcomeOK, Second!OutcomeOK, First!RewriteOK,
          Second!RewriteOK, First!Claims, Second!Claims, First!Planned, Second!Planned,
          First!OwnFile, Second!OwnFile, First!Read, Second!Read, PartOf
    <3>2. QED
      BY <3>1
  <2>2. QED
    BY <2>1, FirstShares, SecondShares DEF BothNext
<1>2. SharedInv => PoolIsListed
  <2> SUFFICES ASSUME SharedInv, Settled, Other!Settled, NEW f \in InPool
               PROVE  f \in ListedFirst \cup ListedSecond
    BY DEF PoolIsListed
  <2>1. First!Claims(f) \/ Second!Claims(f)
    BY DEF SharedInv, InPool
  <2>2. CASE First!Claims(f)
    <3>1. First!Settled
      BY DEF Settled, First!Settled
    <3>2. \E i \in First!Indexes : \E e \in First!Read(i) :
            f = [path |-> First!PathOf(i, e.pkg), build |-> e.build]
      BY <2>2, <3>1, First!ClaimsAtRest, WithinAssumption, RankAssumption, KeepAssumption,
         SignedAssumption, FaultAssumption, BoundAssumption
    <3>3. PICK i \in Indexes :
            f \in {[path |-> PathOf(i, e.pkg), build |-> e.build] : e \in Read(i)}
      BY <3>2 DEF First!Indexes, Indexes, First!Read, Read, First!PathOf, PathOf
    <3>4. QED
      BY <3>3 DEF ListedFirst
  <2>3. CASE Second!Claims(f)
    <3>1. Second!Settled
      BY DEF Other!Settled, Second!Settled
    <3>2. \E i \in Second!Indexes : \E e \in Second!Read(i) :
            f = [path |-> Second!PathOf(i, e.pkg), build |-> e.build]
      BY <2>3, <3>1, Second!ClaimsAtRest, WithinAssumption, OtherRankAssumption, KeepAssumption,
         SignedAssumption, FaultAssumption, BoundAssumption
    <3>3. PICK i \in Other!Indexes :
            f \in {[path |-> Other!PathOf(i, e.pkg), build |-> e.build]
                     : e \in Other!Read(i)}
      BY <3>2 DEF Second!Indexes, Other!Indexes, Second!Read, Other!Read, Second!PathOf,
         Other!PathOf
    <3>4. QED
      BY <3>3 DEF ListedSecond
  <2>4. QED
    BY <2>1, <2>2, <2>3
<1>3. QED
  BY SharedInit, <1>1, <1>2, PTL DEF BothSpec

=============================================================================
