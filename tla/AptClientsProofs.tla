--------------------------- MODULE AptClientsProofs ---------------------------
(***************************************************************************)
(* What an apt client sees beside a publisher, for every value of the      *)
(* constants.  The Releases there are list what has been published: that   *)
(* is an invariant of the publisher, and the client keeps the Release it   *)
(* has read.                                                               *)
(***************************************************************************)
EXTENDS AptClients, AptPublisherProofs

LEMMA PublisherStep ==
  ASSUME [ClientsNext]_allVars
  PROVE  [Next]_vars
BY DEF ClientsNext, allVars, ClientStep, Taken, Failed, TakePlain, TakeCompressed, Take,
   MismatchPlain, MismatchCompressed, Mismatch, BeginUpdate, EndUpdate

-----------------------------------------------------------------------------
(* Which Release a client reads.                                           *)

\* Only a signed repository has an InRelease.
KeyOK ==
  /\ pc = "putInRelease" => Signed
  /\ "InRelease" \in DOMAIN dist => Signed

KeyInv == PublishInv /\ KeyOK

LEMMA KeyInit == Init => KeyInv
BY PublishInit DEF Init, KeyInv, KeyOK, Empty

LEMMA KeyStep == KeyInv /\ [Next]_vars => KeyInv'
<1> SUFFICES ASSUME KeyInv, [Next]_vars
             PROVE  KeyInv'
  OBVIOUS
<1>1. PublishInv'
  BY PublishStep DEF KeyInv
<1>2. CASE PublishRelease
  BY <1>1, <1>2 DEF PublishRelease, AfterRelease, Put, KeyInv, KeyOK
<1>3. CASE PutInRelease
  BY <1>1, <1>3 DEF PutInRelease, KeyInv, KeyOK
<1>4. CASE PutReleaseGpg
  BY <1>1, <1>4 DEF PutReleaseGpg, Put, KeyInv, KeyOK
<1>5. CASE ~ (PublishRelease \/ PutInRelease \/ PutReleaseGpg)
  <2>1. UNCHANGED dist
    BY <1>5 DEF Next, Step, vars, bucket, BeginAdd, BeginRemove, Start, Upload, UpdateIndex,
       ScanIndex, EndScan, DeletePoolFile, PutPackages, PutPackagesGz, Return, Fail, Finish
  <2>2. pc' = "putInRelease" => pc' = pc
    BY <1>5 DEF Next, Step, vars, bucket, BeginAdd, BeginRemove, Start, Upload, UpdateIndex,
       ScanIndex, EndScan, DeletePoolFile, PutPackages, PutPackagesGz, Return, Fail, Finish,
       AfterScan
  <2>3. QED
    BY <1>1, <2>1, <2>2 DEF KeyInv, KeyOK
<1>6. QED
  BY <1>2, <1>3, <1>4, <1>5

LEMMA KeyInvariance == ClientsSpec => []KeyInv
<1>1. ClientsInit => KeyInv
  BY KeyInit DEF ClientsInit
<1>2. KeyInv /\ [ClientsNext]_allVars => KeyInv'
  BY KeyStep, PublisherStep
<1>3. QED
  BY <1>1, <1>2, PTL DEF ClientsSpec

\* An update that fails has met an operation under way, or one that was
\* interrupted, or has read a Release that has been replaced since: beside a
\* publisher that has published and rests, both the plain and the compressed
\* index are those that the Release lists, whatever was interrupted before and in
\* whichever component (publishRelease, signRelease).
THEOREM UpdatesFindWhatIsListed == ClientsSpec => UpdatesFailInTransit
<1> DEFINE InTransit ==
      Failed /\ pc = "idle" /\ outcome = "published" => release # dist[ReleaseKey]
<1>1. KeyInv => InTransit
  <2> SUFFICES ASSUME KeyInv, Failed, pc = "idle", outcome = "published",
                      release = dist[ReleaseKey]
               PROVE  FALSE
    OBVIOUS
  <2>1. ReleaseCurrent /\ (Signed => Holds(dist, "InRelease", dist["Release"]))
    BY DEF KeyInv, PublishInv, PublishedReleaseCurrent, ReleaseSigned
  <2>2. dist[ReleaseKey] = dist["Release"]
    BY <2>1 DEF ReleaseKey, KeyInv, KeyOK, Holds
  <2>3. release.packages = packages /\ release.packagesGz = packagesGz
    BY <2>1, <2>2 DEF ReleaseCurrent
  <2>4. QED
    BY <2>3 DEF Failed, MismatchPlain, MismatchCompressed, Mismatch, Holds
<1>2. QED
  BY <1>1, KeyInvariance, PTL DEF UpdatesFailInTransit

-----------------------------------------------------------------------------
(* What the Releases list.                                                 *)

In(store, i) == IF i \in DOMAIN store THEN store[i] ELSE {}

\* A published file is listed in both forms of its index ...
Indexed(plain, compressed, f) ==
  /\ Lists(In(plain, IndexAt(f.path)), f.path.pkg, f.build)
  /\ Lists(In(compressed, IndexAt(f.path)), f.path.pkg, f.build)

\* ... and by every Release that a client may read.
Shows(f) ==
  \A k \in {"Release", "InRelease"} \cap DOMAIN dist :
    Indexed(dist[k].packages, dist[k].packagesGz, f)

\* An Add under way has listed what it keeps in both forms of its index.
AddedGz ==
  op \in AddOps /\ pc \notin {"idle", "upload", "updateIndex", "rewrite", "putGz"} =>
    \A e \in kept : Lists(In(packagesGz, TargetOf(op)), e.pkg, e.build)

ShownOK ==
  /\ AddedGz
  /\ \A f \in acked :
       /\ Lists(In(packagesGz, IndexAt(f.path)), f.path.pkg, f.build)
       /\ pc = "putGz" /\ IndexAt(f.path) = index => Lists(kept, f.path.pkg, f.build)
       /\ Shows(f)

ShownInv == AckedInv /\ KeyInv /\ ShownOK

LEMMA ShownInit == Flat /\ Init => ShownInv
BY AckedInit, KeyInit DEF Init, ShownInv, ShownOK, AddedGz

LEMMA ReadIn == \A i : Read(i) = In(packages, i)
BY DEF Read, In

\* A published file is listed in its index, compressed and not.
LEMMA AckedIndexed ==
  ASSUME ShownInv, NEW f \in acked
  PROVE  Indexed(packages, packagesGz, f)
BY ReadIn DEF ShownInv, ShownOK, AckedInv, FileOK, Indexed

LEMMA ShownPutPackages == ASSUME ShownInv, PutPackages PROVE ShownOK'
<1>1. /\ pc = "rewrite" /\ pc' = "putGz"
      /\ UNCHANGED <<op, index, kept, acked, packagesGz, dist>>
  BY DEF PutPackages, locals
<1>2. ASSUME NEW f \in acked, IndexAt(f.path) = index PROVE Lists(kept, f.path.pkg, f.build)
  BY <1>1, <1>2 DEF ShownInv, AckedInv, FileOK
<1>3. QED
  BY <1>1, <1>2 DEF ShownInv, ShownOK, AddedGz, Shows

LEMMA ShownPutPackagesGz == ASSUME ShownInv, PutPackagesGz PROVE ShownOK'
<1>1. /\ packagesGz' = Put(packagesGz, index, BuildPackages(kept))
      /\ UNCHANGED <<op, index, kept, acked, dist>>
      /\ pc = "putGz" /\ pc' # "putGz" /\ index \in Indexes
      /\ kept \in Contents
      /\ op \in AddOps => index = TargetOf(op)
  BY DEF PutPackagesGz, locals, ShownInv, AckedInv, TypeInv, TypeOK, ControlOK
<1>2. /\ In(packagesGz', index) = BuildPackages(kept)
      /\ \A i : i # index => In(packagesGz', i) = In(packagesGz, i)
  BY <1>1 DEF In, Put
<1>3. ASSUME NEW e \in kept PROVE Lists(In(packagesGz', index), e.pkg, e.build)
  BY <1>1, <1>2, BuildPackagesType DEF Lists
<1>4. AddedGz'
  BY <1>1, <1>3 DEF AddedGz
<1>5. ASSUME NEW f \in acked
      PROVE  Lists(In(packagesGz', IndexAt(f.path)), f.path.pkg, f.build)
  <2>1. CASE IndexAt(f.path) = index
    <3>1. PICK e \in kept : e.pkg = f.path.pkg /\ e.build = f.build
      BY <1>1, <2>1 DEF ShownInv, ShownOK, Lists
    <3>2. QED
      BY <1>3, <2>1, <3>1
  <2>2. CASE IndexAt(f.path) # index
    BY <1>2, <2>2 DEF ShownInv, ShownOK
  <2>3. QED
    BY <2>1, <2>2
<1>6. QED
  BY <1>1, <1>4, <1>5 DEF ShownInv, ShownOK, Shows

\* What is signed is the Release, and that lists the indexes.
LEMMA ShownPublish ==
  ASSUME ShownInv, PublishRelease \/ PutInRelease \/ PutReleaseGpg
  PROVE  ShownOK'
<1>1. /\ pc \notin {"idle", "upload", "updateIndex", "rewrite", "putGz"} /\ pc' # "putGz"
      /\ UNCHANGED <<op, kept, acked, packagesGz>>
  BY DEF PublishRelease, PutInRelease, PutReleaseGpg, AfterRelease, locals
<1>2. AddedGz'
  BY <1>1 DEF AddedGz, ShownInv, ShownOK
<1>3. ASSUME NEW f \in acked PROVE Shows(f)'
  <2>1. Shows(f) /\ Indexed(packages, packagesGz, f)
    BY AckedIndexed DEF ShownInv, ShownOK
  <2>2. PICK k, r :
          /\ dist' = Put(dist, k, r)
          /\ k \in {"Release", "InRelease"} => Indexed(r.packages, r.packagesGz, f)
    <3>1. CASE PublishRelease
      BY <2>1, <3>1 DEF PublishRelease, BuildRelease
    <3>2. CASE PutInRelease
      <4>1. "Release" \in DOMAIN dist
        BY <3>2 DEF PutInRelease, ShownInv, KeyInv, PublishInv, ReleaseOK, ReleaseCurrent
      <4>2. QED
        BY <2>1, <3>2, <4>1 DEF PutInRelease, Shows
    <3>3. CASE PutReleaseGpg
      BY <3>3 DEF PutReleaseGpg
    <3>4. QED
      BY <3>1, <3>2, <3>3
  <2>3. ASSUME NEW j \in {"Release", "InRelease"} \cap DOMAIN dist'
        PROVE  Indexed(dist'[j].packages, dist'[j].packagesGz, f)
    BY <2>1, <2>2, DistEffect DEF Shows
  <2>4. QED
    BY <2>3 DEF Shows, Indexed, In, Lists
<1>4. QED
  BY <1>1, <1>2, <1>3 DEF ShownInv, ShownOK

\* An Add that reports success is shown by the Release that a client reads.
LEMMA ShownReturn == ASSUME ShownInv, Return PROVE ShownOK'
<1>1. /\ pc = "return" /\ pc' = "idle" /\ UNCHANGED <<packages, packagesGz, dist, op>>
      /\ op \in AddOps \cup RemoveOps
  BY DEF Return, Finish, bucket, ShownInv, AckedInv, TypeInv, ControlOK
<1>2. ASSUME NEW f \in acked'
      PROVE  Lists(In(packagesGz, IndexAt(f.path)), f.path.pkg, f.build) /\ Shows(f)
  <2>1. CASE f \in acked
    BY <2>1 DEF ShownInv, ShownOK
  <2>2. CASE f \notin acked
    <3>1. PICK e \in kept : /\ op.kind = "add" /\ e.pkg = op.pkg
                            /\ f = [path |-> PathOf(index, op.pkg), build |-> op.build]
      BY <2>2 DEF Return
    <3>2. op \in AddOps /\ index = TargetOf(op) /\ op.pkg \in Packages
      BY <1>1, <3>1, KindOf DEF ShownInv, AckedInv, TypeInv, ControlOK
    <3>3. /\ e.build = op.build
          /\ Lists(In(packages, index), op.pkg, op.build)
      BY <1>1, <3>1, <3>2, ReadIn DEF ShownInv, AckedInv, AddedOK
    <3>4. Lists(In(packagesGz, index), op.pkg, op.build)
      BY <1>1, <3>1, <3>2, <3>3 DEF ShownInv, ShownOK, AddedGz
    <3>5. IndexAt(f.path) = index /\ f.path.pkg = op.pkg /\ f.build = op.build
      BY <3>1, <3>2, TargetType, PathsDiffer
    <3>6. Indexed(packages, packagesGz, f)
      BY <3>3, <3>4, <3>5 DEF Indexed
    <3>7. ReleaseCurrent /\ (Signed => ReleaseSigned)
      BY <1>1, <3>2 DEF ShownInv, KeyInv, PublishInv, ReleaseOK, Publishes
    <3>8. \A k \in {"Release", "InRelease"} \cap DOMAIN dist : dist[k] = dist["Release"]
      BY <3>7 DEF ReleaseSigned, Holds, ShownInv, KeyInv, KeyOK
    <3>9. Shows(f)
      BY <3>6, <3>7, <3>8 DEF Shows, ReleaseCurrent
    <3>10. QED
      BY <3>4, <3>5, <3>9
  <2>3. QED
    BY <2>1, <2>2
<1>3. QED
  BY <1>1, <1>2 DEF ShownOK, AddedGz, Shows

\* The other steps write neither form of an index and no Release.
LEMMA ShownOtherStep ==
  ASSUME ShownInv,
         \/ \E o \in AddOps : BeginAdd(o)
         \/ \E o \in RemoveOps : BeginRemove(o)
         \/ Upload \/ UpdateIndex \/ ScanIndex \/ EndScan \/ DeletePoolFile \/ Fail
         \/ UNCHANGED vars
  PROVE  ShownOK'
<1>1. UNCHANGED <<packagesGz, dist>> /\ acked' \subseteq acked
  BY DEF BeginAdd, BeginRemove, Start, Upload, UpdateIndex, ScanIndex, EndScan,
     DeletePoolFile, Fail, Finish, vars, bucket, locals
<1>2. \A f : Shows(f) => Shows(f)'
  BY <1>1 DEF Shows
<1>3. CASE UNCHANGED vars
  BY <1>1, <1>2, <1>3 DEF vars, locals, ShownInv, ShownOK, AddedGz
<1>4. CASE ~ UNCHANGED vars
  <2>1. /\ pc' \in {"idle", "upload", "updateIndex", "scan", "rewrite", "publishRelease",
                    "return"}
        /\ pc' \in {"scan", "publishRelease", "return"} => op' \notin AddOps
    BY <1>4 DEF BeginAdd, BeginRemove, Start, Upload, UpdateIndex, ScanIndex, EndScan,
       DeletePoolFile, Fail, Finish, AfterScan, AddOps, RemoveOps, ShownInv, AckedInv,
       TypeInv, ControlOK
  <2>2. QED
    BY <1>1, <1>2, <2>1 DEF ShownInv, ShownOK, AddedGz
<1>5. QED
  BY <1>3, <1>4

LEMMA ShownStep == ShownInv /\ [Next]_vars => ShownInv'
<1> SUFFICES ASSUME ShownInv, [Next]_vars
             PROVE  ShownInv'
  OBVIOUS
<1>1. AckedInv' /\ KeyInv'
  BY AckedStep, KeyStep DEF ShownInv
<1>2. ShownOK'
  BY ShownPutPackages, ShownPutPackagesGz, ShownPublish, ShownReturn, ShownOtherStep
     DEF Next, Step
<1>3. QED
  BY <1>1, <1>2 DEF ShownInv

-----------------------------------------------------------------------------
(* An update under way.                                                    *)

\* It has read a Release that lists all that had been published.
UpdateOK ==
  updating => \A f \in promised : Indexed(release.packages, release.packagesGz, f)

ClientsInv == ShownInv /\ UpdateOK

LEMMA ClientsInit_Inv == Flat /\ ClientsInit => ClientsInv
BY ShownInit DEF ClientsInit, ClientsInv, UpdateOK

LEMMA ClientsStep == ClientsInv /\ [ClientsNext]_allVars => ClientsInv'
<1> SUFFICES ASSUME ClientsInv, [ClientsNext]_allVars
             PROVE  ClientsInv'
  OBVIOUS
<1>1. ShownInv'
  BY ShownStep, PublisherStep DEF ClientsInv
<1>2. CASE UNCHANGED client
  BY <1>1, <1>2 DEF client, ClientsInv, UpdateOK, Indexed, Lists, In
<1>3. CASE BeginUpdate
  <2>1. /\ release' = dist[ReleaseKey] /\ promised' = acked
        /\ ReleaseKey \in {"Release", "InRelease"} \cap DOMAIN dist
    BY <1>3 DEF BeginUpdate, ReleaseKey
  <2>2. \A f \in acked : Indexed(dist[ReleaseKey].packages, dist[ReleaseKey].packagesGz, f)
    BY <2>1 DEF ClientsInv, ShownInv, ShownOK, Shows
  <2>3. QED
    BY <1>1, <2>1, <2>2 DEF ClientsInv, UpdateOK, Indexed, Lists, In
<1>4. CASE Taken \/ Failed
  <2>1. ~ updating'
    BY <1>4 DEF Taken, Failed, TakePlain, TakeCompressed, Take, MismatchPlain,
       MismatchCompressed, Mismatch, EndUpdate
  <2>2. QED
    BY <1>1, <2>1 DEF ClientsInv, UpdateOK
<1>5. QED
  BY <1>2, <1>3, <1>4 DEF ClientsNext, ClientStep, allVars

\* An update that begins after an Add has reported success and that succeeds
\* knows the package, from the plain or from the compressed index, whatever the
\* publisher writes in between and whatever of it fails; provided that no
\* component lies in the directory of another (updateIndex, publishRelease).
THEOREM UpdatesKnowPublished ==
  ASSUME Flat
  PROVE  ClientsSpec => UpdatesSeePublished
<1> DEFINE Seen ==
      Taken => \A f \in promised :
                 f.path.component = Home.component /\ f.path.arch = Home.arch =>
                   \E e \in lists' : e.pkg = f.path.pkg /\ e.build = f.build
<1>1. ClientsInit => ClientsInv
  BY ClientsInit_Inv
<1>2. ClientsInv => Seen
  <2> SUFFICES ASSUME ClientsInv, Taken, NEW f \in promised,
                      f.path.component = Home.component, f.path.arch = Home.arch
               PROVE  Lists(lists', f.path.pkg, f.build)
    BY DEF Lists
  <2>1. IndexAt(f.path) = Home
    BY HomeAssumption DEF IndexAt, Indexes
  <2>2. Indexed(release.packages, release.packagesGz, f)
    BY DEF ClientsInv, UpdateOK, Taken, TakePlain, TakeCompressed
  <2>3. lists' \in {In(release.packages, Home), In(release.packagesGz, Home)}
    BY DEF Taken, TakePlain, TakeCompressed, Take, IndexIn, In
  <2>4. QED
    BY <2>1, <2>2, <2>3 DEF Indexed
<1>3. QED
  BY <1>1, <1>2, ClientsStep, PTL DEF ClientsSpec, UpdatesSeePublished

=============================================================================
