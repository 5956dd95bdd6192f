------------------------- MODULE YumPublisherProofs -------------------------
(***************************************************************************)
(* Theorems about YumPublisher, for every value of its constants.          *)
(***************************************************************************)
EXTENDS YumPublisher, FiniteSetTheorems, TLAPS

-----------------------------------------------------------------------------
(* The bucket.                                                             *)

LEMMA PutType ==
  ASSUME NEW Keys, NEW Values, NEW s, IsStore(s, Keys, Values),
         NEW k \in Keys, NEW v \in Values
  PROVE  IsStore(Put(s, k, v), Keys, Values)
BY DEF IsStore, Put

LEMMA DeleteType ==
  ASSUME NEW Keys, NEW Values, NEW s, IsStore(s, Keys, Values), NEW k
  PROVE  IsStore(Delete(s, k), Keys, Values)
BY DEF IsStore, Delete

\* What is at the other keys stays there.
LEMMA StoreEffect ==
  ASSUME NEW s, NEW k, NEW v
  PROVE  /\ Holds(Put(s, k, v), k, v)
         /\ \A j, w : j # k => (Holds(Put(s, k, v), j, w) <=> Holds(s, j, w))
         /\ \A j, w : j # k => (Holds(Delete(s, k), j, w) <=> Holds(s, j, w))
BY DEF Put, Delete, Holds

-----------------------------------------------------------------------------
(* What the operators on the contents of a manifest return.                *)

LEMMA NoContents == {} \in Contents
BY FS_EmptySet DEF Contents

\* Some of the entries of a manifest are the contents of a manifest.
LEMMA SubContents ==
  ASSUME NEW c \in Contents, NEW d, d \subseteq c
  PROVE  d \in Contents
BY FS_Subset DEF Contents

LEMMA ReplaceOrAppendType ==
  ASSUME NEW c \in Contents, NEW o \in AddOps
  PROVE  ReplaceOrAppend(c, o) \in Contents
<1> DEFINE rest == {e \in c : LocationOf(e.pkg) # LocationOf(o.pkg)}
           new  == [pkg |-> o.pkg, build |-> o.build, at |-> Cardinality(c) + 1]
<1>1. IsFiniteSet(c) /\ IsFiniteSet(rest) /\ Cardinality(c) \in Nat
  BY FS_Subset, FS_CardinalityType DEF Contents
<1>2. IsFiniteSet(rest \cup {new})
  BY <1>1, FS_AddElement
<1>3. new \in Entries
  BY <1>1 DEF AddOps, Entries
<1>4. rest \cup {new} \subseteq Entries
  BY <1>3 DEF Contents
<1>5. new.pkg = o.pkg
  OBVIOUS
<1>6. \A d, e \in rest \cup {new} : LocationOf(d.pkg) = LocationOf(e.pkg) => d = e
  <2> SUFFICES ASSUME NEW d \in rest \cup {new}, NEW e \in rest \cup {new},
                      LocationOf(d.pkg) = LocationOf(e.pkg)
               PROVE  d = e
    OBVIOUS
  <2>1. CASE d \in rest /\ e \in rest
    BY <2>1 DEF Contents
  <2>2. CASE d = new \/ e = new
    BY <1>5, <2>2
  <2>3. QED
    BY <2>1, <2>2
<1>7. QED
  BY <1>2, <1>4, <1>6 DEF ReplaceOrAppend, Contents

LEMMA PruneSubset == ASSUME NEW c PROVE Prune(c) \subseteq c
BY DEF Prune, Retain

\* Sorting changes no entry but its place.
LEMMA SortType ==
  ASSUME NEW c \in Contents, NEW f \in Places(c)
  PROVE  LET sorted == {[e EXCEPT !.at = f[e]] : e \in c}
         IN  sorted \in Contents /\ RpmsOf(sorted) = RpmsOf(c)
<1> DEFINE Moved(e) == [e EXCEPT !.at = f[e]]
           sorted   == {Moved(e) : e \in c}
<1>1. IsFiniteSet(c) /\ c \subseteq Entries
  BY DEF Contents
<1>2. ASSUME NEW e \in c
      PROVE  Moved(e) \in Entries /\ Moved(e).pkg = e.pkg /\ Moved(e).build = e.build
  <2>1. f[e] \in Nat
    BY <1>1, FS_CardinalityType DEF Places
  <2>2. QED
    BY <1>1, <2>1 DEF Entries
<1>3. IsFiniteSet(sorted)
  <2> DEFINE g == [e \in c |-> Moved(e)]
  <2>1. g \in Surjection(c, sorted)
    BY DEF Surjection
  <2>2. QED
    BY <1>1, <2>1, FS_Surjection
<1>4. ASSUME NEW d \in sorted, NEW e \in sorted, LocationOf(d.pkg) = LocationOf(e.pkg)
      PROVE  d = e
  <2>1. PICK x \in c : d = Moved(x)
    OBVIOUS
  <2>2. PICK y \in c : e = Moved(y)
    OBVIOUS
  <2>3. d.pkg = x.pkg /\ e.pkg = y.pkg
    BY <1>2, <2>1, <2>2
  <2>4. LocationOf(x.pkg) = LocationOf(y.pkg)
    BY <1>4, <2>3
  <2>5. x = y
    BY <2>4 DEF Contents
  <2>6. QED
    BY <2>1, <2>2, <2>5
<1>5. sorted \in Contents
  BY <1>2, <1>3, <1>4 DEF Contents
<1>6. \A e \in c : RpmOf(Moved(e)) = RpmOf(e)
  BY <1>2 DEF RpmOf
<1>7. RpmsOf(sorted) = RpmsOf(c)
  BY <1>6 DEF RpmsOf
<1>8. QED
  BY <1>5, <1>7

-----------------------------------------------------------------------------
(* Type correctness.                                                       *)

ControlOK ==
  /\ pc # "idle" => op \in AddOps \cup RemoveOps
  /\ pc \in {"upload", "updateState"} => op \in AddOps
  /\ pc = "dropVersion" => op \in RemoveOps

TypeInv == TypeOK /\ ControlOK

LEMMA TypeInit == Init => TypeInv
BY NoContents DEF Init, TypeInv, TypeOK, ControlOK, Steps, Types, Empty, IsStore

\* An operation is one of the two kinds, and its kind tells which.
LEMMA KindOf ==
  ASSUME NEW o \in AddOps \cup RemoveOps
  PROVE  /\ o.kind = "add" <=> o \in AddOps
         /\ o.kind = "remove" <=> o \in RemoveOps
         /\ o.kind \in {"add", "remove"}
BY DEF AddOps, RemoveOps

LEMMA TypeStep == TypeInv /\ [Next]_vars => TypeInv'
<1> SUFFICES ASSUME TypeInv, [Next]_vars
             PROVE  TypeInv'
  OBVIOUS
<1> USE DEF TypeInv, TypeOK, ControlOK, Steps, Types
<1>1. ASSUME NEW o \in AddOps, BeginAdd(o)
      PROVE  TypeInv'
  BY <1>1 DEF BeginAdd, Start, bucket
<1>2. ASSUME NEW o \in RemoveOps, BeginRemove(o)
      PROVE  TypeInv'
  BY <1>2 DEF BeginRemove, Start, bucket
<1>3. CASE Upload
  <2>1. LocationOf(op.pkg) \in Locations /\ RpmOf(op) \in Rpms
    BY <1>3 DEF Upload, AddOps, Locations, RpmOf, Rpms
  <2>2. IsStore(rpms', Locations, Rpms)
    BY <1>3, <2>1, PutType DEF Upload
  <2>3. QED
    BY <1>3, <2>2 DEF Upload
<1>4. CASE UpdateState
  <2>1. ReplaceOrAppend(manifest, op) \in Contents
    BY <1>4, ReplaceOrAppendType DEF UpdateState
  <2>2. entries' \in Contents /\ doomed' \in Contents
    BY <1>4, <2>1, PruneSubset, SubContents DEF UpdateState, Surplus
  <2>3. acked' \subseteq acked
    BY <1>4 DEF UpdateState
  <2>4. QED
    BY <1>4, <2>2, <2>3 DEF UpdateState, bucket
<1>5. CASE DropVersion
  <2>1. entries' \subseteq manifest /\ doomed' \subseteq manifest
    BY <1>5 DEF DropVersion, Matching
  <2>2. entries' \in Contents /\ doomed' \in Contents
    BY <2>1, SubContents
  <2>3. QED
    BY <1>5, <2>2 DEF DropVersion, bucket
<1>6. ASSUME NEW r, r \in {"published", "unchanged", "failed"}, Finish(r),
             acked' \subseteq Rpms, faults' \in Nat
      PROVE  TypeInv'
  BY <1>6, NoContents DEF Finish, bucket
<1>7. CASE NothingToDrop
  BY <1>6, <1>7 DEF NothingToDrop
<1>8. CASE DeleteRpm
  <2>1. doomed' \subseteq doomed
    BY <1>8 DEF DeleteRpm
  <2>2. doomed' \in Contents
    BY <2>1, SubContents
  <2>3. IsStore(rpms', Locations, Rpms)
    BY <1>8, DeleteType DEF DeleteRpm
  <2>4. QED
    BY <1>8, <2>2, <2>3 DEF DeleteRpm
<1>9. CASE SortEntries
  <2>1. entries' \in Contents
    BY <1>9, SortType DEF SortEntries
  <2>2. QED
    BY <1>9, <2>1 DEF SortEntries, bucket
<1>10. CASE WriteMeta
  <2>1. metas' \subseteq MetaFiles
    BY <1>10 DEF WriteMeta, MetaFiles
  <2>2. pc' \in {"filelists", "other", "repomd"}
    BY <1>10 DEF WriteMeta, AfterMeta
  <2>3. QED
    BY <1>10, <2>1, <2>2 DEF WriteMeta
<1>11. CASE PutRepomd
  <2>1. repomd' \in Repomds
    BY <1>11 DEF PutRepomd, Repomds
  <2>2. pc' \in {"sign", "saveState"}
    BY <1>11 DEF PutRepomd, AfterRepomd
  <2>3. QED
    BY <1>11, <2>1, <2>2 DEF PutRepomd
<1>12. CASE SignRepomd
  BY <1>12 DEF SignRepomd
<1>13. CASE SaveState
  BY <1>13 DEF SaveState
<1>14. CASE CleanupMetadata
  <2>1. metas' \subseteq metas
    BY <1>14 DEF CleanupMetadata
  <2>2. QED
    BY <1>14, <2>1 DEF CleanupMetadata
<1>15. CASE Return
  <2>1. op \in AddOps => RpmOf(op) \in Rpms
    BY DEF RpmOf, AddOps, Rpms
  <2>2. op.kind = "add" => op \in AddOps
    BY <1>15, KindOf DEF Return
  <2>3. acked' \subseteq Rpms
    BY <1>15, <2>1, <2>2 DEF Return
  <2>4. QED
    BY <1>6, <1>15, <2>3 DEF Return
<1>16. CASE Fail
  BY <1>6, <1>16 DEF Fail
<1>17. CASE UNCHANGED vars
  BY <1>17 DEF vars, bucket
<1>18. QED
  BY <1>1, <1>2, <1>3, <1>4, <1>5, <1>7, <1>8, <1>9, <1>10, <1>11, <1>12, <1>13,
     <1>14, <1>15, <1>16, <1>17 DEF Next, Step

LEMMA TypeInvariance == Spec => []TypeInv
<1>1. QED
  BY TypeInit, TypeStep, PTL DEF Spec

\* The objects and the variables of the publisher always have their types; above
\* all, no manifest and no metadata file names a location twice
\* (replaceOrAppend), whatever is added, removed, interrupted and run again.
THEOREM TypeCorrect == Spec => []TypeOK
<1>1. TypeInv => TypeOK
  BY DEF TypeInv
<1>2. QED
  BY TypeInvariance, <1>1, PTL

-----------------------------------------------------------------------------
(* What repomd.xml names.                                                  *)

\* The metadata file of a type in the publish under way.
MetaOf(type) == [type |-> type, entries |-> entries]

\* How far publish has come.
PublishOK ==
  /\ pc \in {"filelists", "other", "repomd"} => MetaOf("primary") \in metas
  /\ pc \in {"other", "repomd"} => MetaOf("filelists") \in metas
  /\ pc = "repomd" => MetaOf("other") \in metas
  /\ pc \in {"sign", "saveState", "cleanup"} => repomd # None /\ repomd.entries = entries
  /\ pc = "cleanup" => manifest = entries
  /\ pc \in {"saveState", "cleanup"} /\ Signed => repomdAsc = repomd

RepomdInv ==
  /\ TypeInv
  /\ PublishOK
  /\ RepomdRefsExist
  /\ PublishedStateComplete

LEMMA RepomdInit == Init => RepomdInv
BY TypeInit DEF Init, RepomdInv, PublishOK, RepomdRefsExist, PublishedStateComplete

\* An operation ends, and takes the files of no published repomd.xml with it.
LEMMA RepomdFinish ==
  ASSUME RepomdInv, NEW r, Finish(r),
         r = "published" => /\ repomd # None
                            /\ metas = Refs(repomd)
                            /\ manifest = repomd.entries
                            /\ Signed => repomdAsc = repomd
  PROVE  (PublishOK /\ RepomdRefsExist /\ PublishedStateComplete)'
BY DEF RepomdInv, PublishOK, RepomdRefsExist, PublishedStateComplete, Finish, bucket, Refs

LEMMA RepomdStep == RepomdInv /\ [Next]_vars => RepomdInv'
<1> SUFFICES ASSUME RepomdInv, [Next]_vars
             PROVE  RepomdInv'
  OBVIOUS
<1> DEFINE Goal == (PublishOK /\ RepomdRefsExist /\ PublishedStateComplete)'
<1> USE DEF RepomdInv, PublishOK, RepomdRefsExist, PublishedStateComplete
<1>1. TypeInv'
  BY TypeStep
<1>2. CASE \/ \E o \in AddOps : BeginAdd(o)
           \/ \E o \in RemoveOps : BeginRemove(o)
  <2>1. UNCHANGED bucket /\ pc' \in {"upload", "dropVersion"}
    BY <1>2 DEF BeginAdd, BeginRemove, Start
  <2>2. Goal
    BY <2>1 DEF bucket, Refs
  <2>3. QED
    BY <1>1, <2>2
<1>3. CASE Upload \/ UpdateState \/ DropVersion \/ DeleteRpm \/ SortEntries
  <2>1. /\ UNCHANGED <<metas, repomd, repomdAsc, manifest>>
        /\ pc' \in {"updateState", "rewrite", "primary"}
    BY <1>3 DEF Upload, UpdateState, DropVersion, DeleteRpm, SortEntries, bucket
  <2>2. Goal
    BY <2>1 DEF Refs
  <2>3. QED
    BY <1>1, <2>2
<1>4. CASE WriteMeta
  <2>1. /\ metas' = metas \cup {MetaOf(pc)}
       /\ UNCHANGED <<entries, repomd, manifest, repomdAsc>>
        /\ pc \in Types /\ pc' = AfterMeta(pc)
    BY <1>4 DEF WriteMeta, MetaOf
  <2>2. \A t : MetaOf(t)' = MetaOf(t)
    BY <2>1 DEF MetaOf
  <2>3. \/ pc = "primary" /\ pc' = "filelists"
        \/ pc = "filelists" /\ pc' = "other"
        \/ pc = "other" /\ pc' = "repomd"
    BY <2>1 DEF AfterMeta, Types
  <2>4. PublishOK'
    BY <2>1, <2>2, <2>3
  <2>5. RepomdRefsExist'
    BY <2>1 DEF Refs
  <2>6. QED
    BY <1>1, <2>3, <2>4, <2>5
<1>5. CASE PutRepomd
  <2>1. /\ pc = "repomd" /\ UNCHANGED <<metas, entries, manifest>>
        /\ repomd' = [revision |-> ops, entries |-> entries]
        /\ pc' \in {"sign", "saveState"} /\ (pc' = "saveState" => ~Signed)
    BY <1>5 DEF PutRepomd, AfterRepomd
  <2>2. Refs(repomd') \subseteq {MetaOf(t) : t \in Types}
    BY <2>1 DEF Refs, MetaOf
  <2>3. RepomdRefsExist'
    BY <2>1, <2>2 DEF Types
  <2>4. repomd' # None
    BY <2>1, NoneAssumption DEF TypeInv, TypeOK, Repomds
  <2>5. QED
    BY <1>1, <2>1, <2>3, <2>4
<1>6. CASE SignRepomd
  <2>1. QED
    BY <1>1, <1>6 DEF SignRepomd, Refs
<1>7. CASE SaveState
  <2>1. QED
    BY <1>1, <1>7 DEF SaveState, Refs
<1>8. CASE CleanupMetadata
  <2>1. PICK m \in Stale : metas' = metas \ {m}
    BY <1>8 DEF CleanupMetadata
  <2>2. \A n \in Refs(repomd) : n.entries = entries
    BY <1>8 DEF CleanupMetadata, Refs
  <2>3. m \notin Refs(repomd)
    BY <2>1, <2>2 DEF Stale
  <2>4. RepomdRefsExist'
    BY <1>8, <2>1, <2>3 DEF CleanupMetadata, Refs
  <2>5. QED
    BY <1>1, <1>8, <2>4 DEF CleanupMetadata
<1>9. CASE Return
  <2>1. /\ pc = "cleanup" /\ repomd # None /\ repomd.entries = entries /\ manifest = entries
        /\ Signed => repomdAsc = repomd
        /\ \A m \in metas : m.entries = entries
    BY <1>9 DEF Return, Stale
  <2>2. \A m \in metas : m \in Refs(repomd)
    BY <2>1 DEF TypeInv, TypeOK, MetaFiles, Refs
  <2>3. metas = Refs(repomd)
    BY <2>1, <2>2
  <2>4. Goal
    BY <1>9, <2>1, <2>3, RepomdFinish DEF Return
  <2>5. QED
    BY <1>1, <2>4
<1>10. CASE NothingToDrop \/ Fail
  <2>1. PICK r \in {"unchanged", "failed"} : Finish(r)
    BY <1>10 DEF NothingToDrop, Fail
  <2>2. Goal
    BY <2>1, RepomdFinish
  <2>3. QED
    BY <1>1, <2>2
<1>11. CASE UNCHANGED vars
  BY <1>1, <1>11 DEF vars, bucket, MetaOf, Refs
<1>12. QED
  BY <1>2, <1>3, <1>4, <1>5, <1>6, <1>7, <1>8, <1>9, <1>10, <1>11 DEF Next, Step

LEMMA RepomdInvariance == Spec => []RepomdInv
<1>1. QED
  BY RepomdInit, RepomdStep, PTL DEF Spec

\* A client that reads repomd.xml at any moment, between any two writes of any
\* operation and after any interruption, finds the files that it names (publish,
\* cleanupMetadata).
THEOREM NamedFilesExist == Spec => []RepomdRefsExist
<1>1. RepomdInv => RepomdRefsExist
  BY DEF RepomdInv
<1>2. QED
  BY RepomdInvariance, <1>1, PTL

\* An operation that has published leaves metadata, manifest and signature that
\* agree, whatever was interrupted before it (publish).
THEOREM PublishCompletes == Spec => []PublishedStateComplete
<1>1. RepomdInv => PublishedStateComplete
  BY DEF RepomdInv
<1>2. QED
  BY RepomdInvariance, <1>1, PTL

-----------------------------------------------------------------------------
(* What Add has published stays.                                           *)

\* The steps after the manifest has been read.
Rewriting == {"rewrite", "primary", "filelists", "other", "repomd", "sign",
              "saveState", "cleanup"}

\* The entries to keep and those still to be deleted have different files.
SplitOK ==
  pc = "rewrite" =>
    \A d \in doomed, e \in entries : LocationOf(d.pkg) # LocationOf(e.pkg)

\* The package of an Add under way has its file, unless retention has taken it out.
AddedOK ==
  op \in AddOps =>
    /\ pc = "updateState" => Holds(rpms, LocationOf(op.pkg), RpmOf(op))
    /\ pc \in Rewriting =>
         \A e \in entries : e.pkg = op.pkg =>
           e.build = op.build /\ Holds(rpms, LocationOf(op.pkg), RpmOf(op))

\* A published file is there, in repomd.xml and in the manifest; it is not what
\* the operation under way is about; and what that publishes keeps it.
FileOK(f) ==
  /\ Holds(rpms, LocationOf(f.pkg), f)
  /\ f \in RpmsOf(Listed)
  /\ f \in RpmsOf(manifest)
  /\ pc # "idle" /\ op \in AddOps => LocationOf(f.pkg) # LocationOf(op.pkg)
  /\ pc # "idle" /\ op \in RemoveOps => ~Named(f.pkg, op)
  /\ pc \in Rewriting => f \in RpmsOf(entries)
  /\ pc = "rewrite" => \A e \in doomed : LocationOf(e.pkg) # LocationOf(f.pkg)

AckedInv ==
  /\ RepomdInv
  /\ SplitOK
  /\ AddedOK
  /\ \A f \in acked : FileOK(f)

LEMMA AckedInit == Init => AckedInv
BY RepomdInit DEF Init, AckedInv, SplitOK, AddedOK, Rewriting

\* An operation begins.
LEMMA AckedBegin ==
  ASSUME AckedInv,
         \/ \E o \in AddOps : BeginAdd(o)
         \/ \E o \in RemoveOps : BeginRemove(o)
  PROVE  (SplitOK /\ AddedOK /\ \A f \in acked : FileOK(f))'
<1>1. UNCHANGED <<rpms, repomd, manifest>> /\ pc' \in {"upload", "dropVersion"}
  BY DEF BeginAdd, BeginRemove, Start, bucket
<1>2. ASSUME NEW f \in acked' PROVE FileOK(f)'
  <2>1. f \in acked /\ FileOK(f)
    BY DEF BeginAdd, BeginRemove, AckedInv
  <2>2. /\ op' \in AddOps => LocationOf(f.pkg) # LocationOf(op'.pkg)
        /\ op' \in RemoveOps => ~Named(f.pkg, op')
    BY DEF BeginAdd, BeginRemove, Start, AddOps, RemoveOps
  <2>3. QED
    BY <1>1, <2>1, <2>2 DEF FileOK, Listed, Rewriting
<1>3. QED
  BY <1>1, <1>2 DEF SplitOK, AddedOK, Rewriting

LEMMA AckedUpload ==
  ASSUME AckedInv, Upload
  PROVE  (SplitOK /\ AddedOK /\ \A f \in acked : FileOK(f))'
<1>1. /\ op \in AddOps /\ op \notin RemoveOps
      /\ rpms' = Put(rpms, LocationOf(op.pkg), RpmOf(op))
      /\ UNCHANGED <<repomd, manifest, op, acked>>
      /\ pc = "upload" /\ pc' = "updateState"
  BY DEF Upload, AckedInv, RepomdInv, TypeInv, ControlOK, AddOps, RemoveOps
<1>2. SplitOK' /\ AddedOK'
  BY <1>1, StoreEffect DEF SplitOK, AddedOK, Rewriting
<1>3. ASSUME NEW f \in acked PROVE FileOK(f)'
  <2>1. FileOK(f)
    BY DEF AckedInv
  <2>2. Holds(rpms', LocationOf(f.pkg), f)
    BY <1>1, <2>1, StoreEffect DEF FileOK
  <2>3. QED
    BY <1>1, <2>1, <2>2 DEF FileOK, Listed, Rewriting
<1>4. QED
  BY <1>1, <1>2, <1>3

LEMMA AckedUpdateState ==
  ASSUME AckedInv, UpdateState
  PROVE  (SplitOK /\ AddedOK /\ \A f \in acked : FileOK(f))'
<1> DEFINE items == ReplaceOrAppend(manifest, op)
<1>1. /\ op \in AddOps /\ op \notin RemoveOps
      /\ pc = "updateState" /\ pc' = "rewrite"
      /\ UNCHANGED <<rpms, repomd, manifest, op>>
  BY DEF UpdateState, bucket, AckedInv, RepomdInv, TypeInv, ControlOK, AddOps, RemoveOps
<1>2. entries' = Prune(items) /\ doomed' = items \ entries' /\ entries' \subseteq items
  BY PruneSubset DEF UpdateState, Surplus
<1>3. items \in Contents
  BY <1>1, ReplaceOrAppendType DEF AckedInv, RepomdInv, TypeInv, TypeOK
<1>4. \A d, e \in items : LocationOf(d.pkg) = LocationOf(e.pkg) => d = e
  BY <1>3 DEF Contents
<1>5. \A e \in items : e.pkg = op.pkg => e.build = op.build
  BY DEF ReplaceOrAppend
<1>6. SplitOK'
  BY <1>2, <1>4 DEF SplitOK
<1>7. AddedOK'
  BY <1>1, <1>2, <1>5 DEF AddedOK, AckedInv
<1>8. ASSUME NEW f \in acked' PROVE FileOK(f)'
  <2>1. f \in acked /\ FileOK(f) /\ \A e \in doomed' : LocationOf(f.pkg) # LocationOf(e.pkg)
    BY DEF UpdateState, AckedInv
  <2>2. PICK e \in manifest : f = RpmOf(e)
    BY <2>1 DEF FileOK, RpmsOf
  <2>3. f.pkg = e.pkg
    BY <2>2 DEF RpmOf
  <2>4. e \in items
    BY <1>1, <2>1, <2>3 DEF FileOK, ReplaceOrAppend
  <2>5. e \in entries'
    BY <1>2, <2>1, <2>3, <2>4
  <2>6. f \in RpmsOf(entries')
    BY <2>2, <2>5 DEF RpmsOf
  <2>7. QED
    BY <1>1, <2>1, <2>6 DEF FileOK, Listed
<1>9. QED
  BY <1>6, <1>7, <1>8

LEMMA AckedDropVersion ==
  ASSUME AckedInv, DropVersion
  PROVE  (SplitOK /\ AddedOK /\ \A f \in acked : FileOK(f))'
<1>1. /\ op \in RemoveOps /\ op \notin AddOps
      /\ pc = "dropVersion" /\ pc' = "rewrite"
      /\ UNCHANGED <<rpms, repomd, manifest, op, acked>>
      /\ doomed' = {e \in manifest : Named(e.pkg, op)}
      /\ entries' = manifest \ doomed'
  BY DEF DropVersion, Matching, bucket, AckedInv, RepomdInv, TypeInv, ControlOK, AddOps,
         RemoveOps
<1>2. \A d, e \in manifest : LocationOf(d.pkg) = LocationOf(e.pkg) => d = e
  BY DEF AckedInv, RepomdInv, TypeInv, TypeOK, Contents
<1>3. SplitOK' /\ AddedOK'
  BY <1>1, <1>2 DEF SplitOK, AddedOK
<1>4. ASSUME NEW f \in acked PROVE FileOK(f)'
  <2>1. FileOK(f)
    BY DEF AckedInv
  <2>2. PICK e \in manifest : f = RpmOf(e)
    BY <2>1 DEF FileOK, RpmsOf
  <2>3. f.pkg = e.pkg /\ ~Named(e.pkg, op)
    BY <1>1, <2>1, <2>2 DEF RpmOf, FileOK
  <2>4. f \in RpmsOf(entries') /\ \A d \in doomed' : LocationOf(d.pkg) # LocationOf(f.pkg)
    BY <1>1, <1>2, <2>2, <2>3 DEF RpmsOf
  <2>5. QED
    BY <1>1, <2>1, <2>4 DEF FileOK, Listed
<1>5. QED
  BY <1>1, <1>3, <1>4

LEMMA AckedDeleteRpm ==
  ASSUME AckedInv, DeleteRpm
  PROVE  (SplitOK /\ AddedOK /\ \A f \in acked : FileOK(f))'
<1>1. PICK e \in doomed :
        rpms' = Delete(rpms, LocationOf(e.pkg)) /\ doomed' = doomed \ {e}
  BY DEF DeleteRpm
<1>2. pc = "rewrite" /\ UNCHANGED <<repomd, manifest, pc, op, entries, acked>>
  BY DEF DeleteRpm
<1>3. SplitOK'
  BY <1>1, <1>2 DEF SplitOK, AckedInv
<1>4. AddedOK'
  <2> SUFFICES ASSUME op \in AddOps, NEW d \in entries, d.pkg = op.pkg
               PROVE  /\ d.build = op.build
                      /\ Holds(rpms', LocationOf(op.pkg), RpmOf(op))
    BY <1>2 DEF AddedOK
  <2>1. LocationOf(e.pkg) # LocationOf(op.pkg)
    BY <1>2 DEF SplitOK, AckedInv
  <2>2. d.build = op.build /\ Holds(rpms, LocationOf(op.pkg), RpmOf(op))
    BY <1>2 DEF AddedOK, AckedInv, Rewriting
  <2>3. QED
    BY <1>1, <2>1, <2>2, StoreEffect
<1>5. ASSUME NEW f \in acked PROVE FileOK(f)'
  <2>1. FileOK(f)
    BY DEF AckedInv
  <2>2. Holds(rpms', LocationOf(f.pkg), f)
    BY <1>1, <1>2, <2>1, StoreEffect DEF FileOK
  <2>3. QED
    BY <1>1, <1>2, <2>1, <2>2 DEF FileOK, Listed
<1>6. QED
  BY <1>2, <1>3, <1>4, <1>5

LEMMA AckedSortEntries ==
  ASSUME AckedInv, SortEntries
  PROVE  (SplitOK /\ AddedOK /\ \A f \in acked : FileOK(f))'
<1>1. /\ pc = "rewrite" /\ pc' = "primary"
      /\ UNCHANGED <<rpms, repomd, manifest, op, acked>>
  BY DEF SortEntries, bucket
<1>2. RpmsOf(entries') = RpmsOf(entries)
  BY SortType DEF SortEntries, AckedInv, RepomdInv, TypeInv, TypeOK
<1>3. \A e \in entries' : \E d \in entries : d.pkg = e.pkg /\ d.build = e.build
  <2> TAKE e \in entries'
  <2>1. RpmOf(e) \in RpmsOf(entries)
    BY <1>2 DEF RpmsOf
  <2>2. QED
    BY <2>1 DEF RpmsOf, RpmOf
<1>4. SplitOK' /\ AddedOK'
  BY <1>1, <1>3 DEF SplitOK, AddedOK, AckedInv, Rewriting
<1>5. ASSUME NEW f \in acked PROVE FileOK(f)'
  BY <1>1, <1>2 DEF FileOK, AckedInv, Listed, Rewriting
<1>6. QED
  BY <1>1, <1>4, <1>5

\* The steps of publish after the sort write metadata only.
LEMMA AckedPublish ==
  ASSUME AckedInv, WriteMeta \/ PutRepomd \/ SignRepomd \/ SaveState \/ CleanupMetadata
  PROVE  (SplitOK /\ AddedOK /\ \A f \in acked : FileOK(f))'
<1>1. /\ pc \in Rewriting \ {"rewrite"} /\ pc' \in Rewriting \ {"rewrite"}
      /\ UNCHANGED <<rpms, op, entries, acked>>
  BY DEF WriteMeta, PutRepomd, SignRepomd, SaveState, CleanupMetadata, AfterMeta,
         AfterRepomd, Rewriting, Types
<1>2. Listed' \in {Listed, entries} /\ manifest' \in {manifest, entries}
  <2>1. repomd' = repomd \/ Listed' = entries
    BY NoneAssumption DEF WriteMeta, PutRepomd, SignRepomd, SaveState, CleanupMetadata,
       Listed, Repomds, AckedInv, RepomdInv, TypeInv, TypeOK
  <2>2. manifest' \in {manifest, entries}
    BY DEF WriteMeta, PutRepomd, SignRepomd, SaveState, CleanupMetadata
  <2>3. QED
    BY <2>1, <2>2 DEF Listed
<1>3. SplitOK' /\ AddedOK'
  BY <1>1 DEF SplitOK, AddedOK, AckedInv, Rewriting
<1>4. ASSUME NEW f \in acked PROVE FileOK(f)'
  <2>1. FileOK(f) /\ f \in RpmsOf(entries)
    BY <1>1 DEF AckedInv, FileOK
  <2>2. QED
    BY <1>1, <1>2, <2>1 DEF FileOK, Rewriting
<1>5. QED
  BY <1>1, <1>3, <1>4

\* An operation ends; a successful Add has a file to vouch for.
LEMMA AckedEnd ==
  ASSUME AckedInv, NothingToDrop \/ Return \/ Fail
  PROVE  (SplitOK /\ AddedOK /\ \A f \in acked : FileOK(f))'
<1>1. pc' = "idle" /\ UNCHANGED <<rpms, repomd, manifest, op>>
  BY DEF NothingToDrop, Return, Fail, Finish, bucket
<1>2. SplitOK' /\ AddedOK'
  BY <1>1 DEF SplitOK, AddedOK, Rewriting
<1>3. ASSUME NEW f \in acked' PROVE FileOK(f)'
  <2>1. CASE f \in acked
    BY <1>1, <2>1 DEF AckedInv, FileOK, Listed, Rewriting
  <2>2. CASE f \notin acked
    <3>1. /\ Return /\ op.kind = "add" /\ f = RpmOf(op)
          /\ \E e \in entries : e.pkg = op.pkg
      BY <2>2 DEF NothingToDrop, Return, Fail
    <3>2. pc = "cleanup" /\ op \in AddOps
      BY <3>1, KindOf DEF Return, AckedInv, RepomdInv, TypeInv, ControlOK
    <3>3. PICK e \in entries : e.pkg = op.pkg
      BY <3>1
    <3>4. e.build = op.build /\ Holds(rpms, LocationOf(op.pkg), RpmOf(op))
      BY <3>2, <3>3 DEF AckedInv, AddedOK, Rewriting
    <3>5. f = RpmOf(e) /\ f.pkg = op.pkg
      BY <3>1, <3>3, <3>4 DEF RpmOf
    <3>6. manifest = entries /\ Listed = entries
      BY <3>2 DEF AckedInv, RepomdInv, PublishOK, Listed
    <3>7. f \in RpmsOf(entries)
      BY <3>5 DEF RpmsOf
    <3>8. QED
      BY <1>1, <3>1, <3>4, <3>5, <3>6, <3>7 DEF FileOK, Listed, Rewriting
  <2>3. QED
    BY <2>1, <2>2
<1>4. QED
  BY <1>2, <1>3

LEMMA AckedStep == AckedInv /\ [Next]_vars => AckedInv'
<1> SUFFICES ASSUME AckedInv, [Next]_vars
             PROVE  AckedInv'
  OBVIOUS
<1>1. RepomdInv'
  BY RepomdStep DEF AckedInv
<1>2. CASE UNCHANGED vars
  BY <1>1, <1>2 DEF vars, bucket, AckedInv, SplitOK, AddedOK, FileOK, Listed
<1>3. CASE Next
  BY <1>1, <1>3, AckedBegin, AckedUpload, AckedUpdateState, AckedDropVersion,
     AckedDeleteRpm, AckedSortEntries, AckedPublish, AckedEnd DEF Next, Step, AckedInv
<1>4. QED
  BY <1>2, <1>3

LEMMA AckedInvStays == AckedInv => AckedStays
BY DEF AckedInv, FileOK, AckedStays

\* A package whose Add has succeeded is in the repository, file and metadata, at
\* every step of every later operation and through every interruption, until an
\* operation sets out to remove it, to replace it or to prune it (Add, Remove,
\* publish).
THEOREM PublishedStays == Spec => []AckedStays
<1>1. Spec => []AckedInv
  BY AckedInit, AckedStep, PTL DEF Spec
<1>2. QED
  BY <1>1, AckedInvStays, PTL

-----------------------------------------------------------------------------
(***************************************************************************)
(* Agreement, for a caller that runs an interrupted operation again before *)
(* it does anything else: the manifest and the signature agree with        *)
(* repomd.xml, the package files with both, and nothing is left of what    *)
(* Remove was asked to remove.                                             *)
(*                                                                         *)
(* The manifest is written last, so that an operation that is run again    *)
(* finds the same work to do as the first time until it has been written,  *)
(* and from then on everything but old metadata files is in its place.     *)
(***************************************************************************)

(* What an operation makes of the manifest.                                *)

\* No operation is under way unless its outcome is open.
OutcomeOK ==
  /\ pc = "idle" <=> outcome # "running"
  /\ outcome # "none" => op \in AddOps \cup RemoveOps

\* What operation o is to leave of the contents of a manifest, and what goes.
Intended(c, o) == IF o \in AddOps THEN Prune(ReplaceOrAppend(c, o)) ELSE c \ Matching(c, o)
Dropped(c, o)  == IF o \in AddOps THEN Surplus(ReplaceOrAppend(c, o)) ELSE Matching(c, o)

\* The steps from the sort to the writing of the manifest.
Publishing == Types \cup {"repomd", "sign", "saveState"}

\* Until the manifest is written it tells what the operation is doing; and once
\* it is, nothing in it matches any more.
RewriteOK ==
  /\ pc = "rewrite"
      => entries = Intended(manifest, op) /\ doomed \subseteq Dropped(manifest, op)
  /\ pc \in Publishing => doomed = {} /\ RpmsOf(entries) = RpmsOf(Intended(manifest, op))
  /\ pc = "cleanup" => doomed = {}
  /\ op \in RemoveOps =>
       /\ pc \in {"rewrite"} \cup Publishing => Matching(manifest, op) # {}
       /\ pc = "cleanup" \/ Settled => Matching(manifest, op) = {}

WriteInv == RepomdInv /\ OutcomeOK /\ RewriteOK

LEMMA WriteInit == Init => WriteInv
BY RepomdInit DEF Init, WriteInv, OutcomeOK, RewriteOK, Publishing, Types, RemoveOps,
   Settled, Matching

\* The entries of two manifests with the same packages.
LEMMA SameRpms ==
  ASSUME NEW c, NEW d, RpmsOf(c) = RpmsOf(d)
  PROVE  \A e \in c : \E x \in d : x.pkg = e.pkg /\ x.build = e.build
<1> SUFFICES ASSUME NEW e \in c
             PROVE  \E x \in d : x.pkg = e.pkg /\ x.build = e.build
  OBVIOUS
<1>1. RpmOf(e) \in RpmsOf(d)
  BY DEF RpmsOf
<1>2. QED
  BY <1>1 DEF RpmsOf, RpmOf

LEMMA WriteStep == WriteInv /\ [Next]_vars => WriteInv'
<1> SUFFICES ASSUME WriteInv, [Next]_vars
             PROVE  WriteInv'
  OBVIOUS
<1> USE DEF WriteInv
<1>1. RepomdInv'
  BY RepomdStep
<1>2. op \in AddOps => op \notin RemoveOps
  BY DEF AddOps, RemoveOps
<1>3. CASE \/ \E o \in AddOps : BeginAdd(o)
           \/ \E o \in RemoveOps : BeginRemove(o)
  <2>1. /\ pc' \in {"upload", "dropVersion"} /\ outcome' = "running"
        /\ op' \in AddOps \cup RemoveOps
    BY <1>3 DEF BeginAdd, BeginRemove, Start
  <2>2. QED
    BY <1>1, <2>1 DEF OutcomeOK, RewriteOK, Publishing, Types, Settled
<1>4. CASE Upload
  <2>1. pc # "idle" /\ pc' = "updateState" /\ UNCHANGED <<op, outcome>>
    BY <1>4 DEF Upload
  <2>2. QED
    BY <1>1, <2>1 DEF OutcomeOK, RewriteOK, Publishing, Types, Settled
<1>5. CASE UpdateState \/ DropVersion
  <2>1. /\ pc # "idle" /\ pc' = "rewrite" /\ UNCHANGED <<op, outcome, manifest>>
    BY <1>5 DEF UpdateState, DropVersion, bucket
  <2>2. /\ entries' = Intended(manifest, op) /\ doomed' = Dropped(manifest, op)
        /\ op \in RemoveOps => Matching(manifest, op) # {}
    BY <1>2, <1>5
    DEF UpdateState, DropVersion, Intended, Dropped, RepomdInv, TypeInv, ControlOK
  <2>3. QED
    BY <1>1, <2>1, <2>2 DEF OutcomeOK, RewriteOK, Publishing, Types, Settled
<1>6. CASE DeleteRpm
  <2>1. /\ pc = "rewrite" /\ doomed' \subseteq doomed
       /\ UNCHANGED <<pc, op, outcome, manifest, entries>>
    BY <1>6 DEF DeleteRpm
  <2>2. QED
    BY <1>1, <2>1 DEF OutcomeOK, RewriteOK, Publishing, Types, Settled
<1>7. CASE SortEntries
  <2>1. /\ pc = "rewrite" /\ pc' = "primary" /\ doomed = {}
        /\ UNCHANGED <<op, outcome, manifest, doomed>>
    BY <1>7 DEF SortEntries, bucket
  <2>2. RpmsOf(entries') = RpmsOf(entries)
    BY <1>7, SortType DEF SortEntries, RepomdInv, TypeInv, TypeOK
  <2>3. QED
    BY <1>1, <2>1, <2>2 DEF OutcomeOK, RewriteOK, Publishing, Types, Settled
<1>8. CASE WriteMeta \/ PutRepomd \/ SignRepomd
  <2>1. /\ pc \in Publishing /\ pc' \in Publishing
        /\ UNCHANGED <<op, outcome, manifest, entries, doomed>>
    BY <1>8 DEF WriteMeta, PutRepomd, SignRepomd, AfterMeta, AfterRepomd, Publishing, Types
  <2>2. QED
    BY <1>1, <2>1 DEF OutcomeOK, RewriteOK, Publishing, Types, Settled
<1>9. CASE SaveState
  <2>1. /\ pc = "saveState" /\ pc' = "cleanup" /\ manifest' = entries
        /\ UNCHANGED <<op, outcome, doomed>>
    BY <1>9 DEF SaveState
  <2>2. doomed = {} /\ RpmsOf(entries) = RpmsOf(Intended(manifest, op))
    BY <2>1 DEF RewriteOK, Publishing
  <2>3. op \in RemoveOps => Matching(entries, op) = {}
    BY <1>2, <2>2, SameRpms DEF Intended, Matching
  <2>4. QED
    BY <1>1, <2>1, <2>2, <2>3 DEF OutcomeOK, RewriteOK, Publishing, Types, Settled
<1>10. CASE CleanupMetadata
  <2>1. pc = "cleanup" /\ UNCHANGED <<pc, op, outcome, manifest, entries, doomed>>
    BY <1>10 DEF CleanupMetadata
  <2>2. QED
    BY <1>1, <2>1 DEF OutcomeOK, RewriteOK, Publishing, Types, Settled
<1>11. CASE NothingToDrop \/ Return \/ Fail
  <2>1. /\ pc # "idle" /\ pc' = "idle" /\ outcome' \in {"unchanged", "published", "failed"}
        /\ UNCHANGED <<op, manifest>>
    BY <1>11 DEF NothingToDrop, Return, Fail, Finish, bucket
  <2>2. outcome' # "failed" /\ op \in RemoveOps => Matching(manifest, op) = {}
    BY <1>11 DEF NothingToDrop, Return, Fail, Finish, RewriteOK
  <2>3. QED
    BY <1>1, <2>1, <2>2 DEF OutcomeOK, RewriteOK, Publishing, Types, Settled
<1>12. CASE UNCHANGED vars
  BY <1>1, <1>12 DEF vars, bucket, OutcomeOK, RewriteOK, Settled
<1>13. QED
  BY <1>3, <1>4, <1>5, <1>6, <1>7, <1>8, <1>9, <1>10, <1>11, <1>12 DEF Next, Step

LEMMA WriteInvariance == Spec => []WriteInv
<1>1. QED
  BY WriteInit, WriteStep, PTL DEF Spec

-----------------------------------------------------------------------------
(* The manifest, repomd.xml and its signature.                             *)

Agrees == manifest = Listed /\ (Signed => repomdAsc = repomd)

\* A Remove that finds nothing to drop, the first time or when it is run again,
\* finds everything in its place.
AgreeOK ==
  /\ Settled => Agrees
  /\ op \in RemoveOps /\ pc \in {"idle", "dropVersion"} /\ Matching(manifest, op) = {} =>
       Agrees

AgreeInv == RetryFirst /\ WriteInv /\ AgreeOK

LEMMA AgreeInit == RetryFirst /\ Init => AgreeInv
BY WriteInit DEF Init, AgreeInv, AgreeOK, Agrees, Listed

\* What has been published agrees.
LEMMA CleanupAgrees ==
  ASSUME WriteInv, pc = "cleanup"
  PROVE  Agrees /\ manifest = entries
BY DEF WriteInv, RepomdInv, PublishOK, Agrees, Listed

LEMMA AgreeStep == AgreeInv /\ [Next]_vars => AgreeInv'
<1> SUFFICES ASSUME AgreeInv, [Next]_vars
             PROVE  AgreeInv'
  OBVIOUS
<1> USE DEF AgreeInv
<1>1. WriteInv' /\ WriteInv
  BY WriteStep
<1>2. CASE \E o \in AddOps : BeginAdd(o)
  <2>1. pc' = "upload"
    BY <1>2 DEF BeginAdd, Start
  <2>2. QED
    BY <1>1, <2>1 DEF AgreeOK, Settled
<1>3. CASE \E o \in RemoveOps : BeginRemove(o)
  <2>1. /\ pc = "idle" /\ pc' = "dropVersion"
        /\ outcome = "failed" => op' = op
        /\ UNCHANGED <<repomd, repomdAsc, manifest>>
        /\ op' \in RemoveOps
    BY <1>3 DEF BeginRemove, Start, Admissible, bucket
  <2>2. Agrees' = Agrees
    BY <2>1 DEF Agrees, Listed
  <2>3. Matching(manifest, op') = {} => Agrees
    BY <2>1 DEF AgreeOK, Settled
  <2>4. QED
    BY <1>1, <2>1, <2>2, <2>3 DEF AgreeOK, Settled
<1>4. CASE \/ Upload \/ UpdateState \/ DropVersion \/ DeleteRpm \/ SortEntries \/ WriteMeta
           \/ PutRepomd \/ SignRepomd \/ SaveState \/ CleanupMetadata
  <2>1. pc' \notin {"idle", "dropVersion"}
    BY <1>4 DEF Upload, UpdateState, DropVersion, DeleteRpm, SortEntries, WriteMeta,
       PutRepomd, SignRepomd, SaveState, CleanupMetadata, AfterMeta, AfterRepomd, Types
  <2>2. QED
    BY <1>1, <2>1 DEF AgreeOK, Settled
<1>5. CASE NothingToDrop \/ Return \/ Fail
  <2>1. /\ pc' = "idle" /\ UNCHANGED <<repomd, repomdAsc, manifest, op>>
    BY <1>5 DEF NothingToDrop, Return, Fail, Finish, bucket
  <2>2. Agrees' = Agrees
    BY <2>1 DEF Agrees, Listed
  <2>3. NothingToDrop \/ Return => Agrees
    BY <1>1, CleanupAgrees DEF NothingToDrop, Return, AgreeOK, RewriteOK, WriteInv,
       RepomdInv, TypeInv, ControlOK
  <2>4. ASSUME Fail, op \in RemoveOps, Matching(manifest, op) = {} PROVE Agrees
    <3>1. op \notin AddOps
      BY <2>4 DEF AddOps, RemoveOps
    <3>2. pc \in {"dropVersion", "cleanup"}
      BY <1>1, <2>4, <3>1 DEF Fail, WriteInv, RewriteOK, RepomdInv, TypeInv, TypeOK,
         ControlOK, Steps, Publishing, Types
    <3>3. QED
      BY <1>1, <2>4, <3>2, CleanupAgrees DEF AgreeOK
  <2>5. Fail => outcome' = "failed"
    BY DEF Fail, Finish
  <2>6. QED
    BY <1>1, <1>5, <2>1, <2>2, <2>3, <2>4, <2>5 DEF AgreeOK, Settled
<1>6. CASE UNCHANGED vars
  BY <1>1, <1>6 DEF vars, bucket, AgreeOK, Agrees, Listed, Settled
<1>7. QED
  BY <1>2, <1>3, <1>4, <1>5, <1>6 DEF Next, Step

LEMMA AgreeInvariance ==
  ASSUME RetryFirst
  PROVE  Spec => []AgreeInv
<1>1. Init => AgreeInv
  BY AgreeInit
<1>2. QED
  BY <1>1, AgreeStep, PTL DEF Spec

\* When Add or Remove reports success, with or without a change, the manifest
\* that the next operation starts from is what dnf sees, whatever was interrupted
\* before and run again (publish: repomd.xml is written first, the manifest last).
THEOREM ManifestAgrees ==
  ASSUME RetryFirst
  PROVE  Spec => []ManifestMatchesRepomd
<1>1. AgreeInv => ManifestMatchesRepomd
  BY DEF AgreeInv, AgreeOK, Agrees, ManifestMatchesRepomd
<1>2. QED
  BY <1>1, AgreeInvariance, PTL

\* And in a signed repository the signature is that of the repomd.xml that is
\* there, after a removal that found nothing to remove as after a push
\* (signRepomd).
THEOREM SignatureAgrees ==
  ASSUME RetryFirst
  PROVE  Spec => []SignatureMatchesRepomd
<1>1. AgreeInv => SignatureMatchesRepomd
  BY DEF AgreeInv, AgreeOK, Agrees, SignatureMatchesRepomd
<1>2. QED
  BY <1>1, AgreeInvariance, PTL

-----------------------------------------------------------------------------
(* The package files.                                                      *)

\* There is a file for every entry of c, and none besides those of d.
Match(files, c, d) ==
  /\ \A e \in c : Holds(files, LocationOf(e.pkg), RpmOf(e))
  /\ \A l \in DOMAIN files : \E e \in d : LocationOf(e.pkg) = l

\* The entries whose files an Add, interrupted before or not, is sure to find.
ToKeep(c, o) ==
  {e \in c : LocationOf(e.pkg) # LocationOf(o.pkg) /\ e \in Prune(ReplaceOrAppend(c, o))}

\* An Add or a Remove that begins, or a failed one that is to be run again.
AddPending ==
  /\ op \in AddOps
  /\ pc \in {"upload", "updateState"} \/ (pc = "idle" /\ outcome = "failed")
RemovePending ==
  /\ op \in RemoveOps
  /\ pc = "dropVersion" \/ (pc = "idle" /\ outcome = "failed")

FilesOK ==
  /\ Settled => Match(rpms, manifest, manifest)
  /\ AddPending => Match(rpms, ToKeep(manifest, op), ReplaceOrAppend(manifest, op))
  /\ pc = "updateState" => Holds(rpms, LocationOf(op.pkg), RpmOf(op))
  /\ RemovePending => Match(rpms, manifest \ Matching(manifest, op), manifest)
  /\ pc \in Rewriting => Match(rpms, entries, entries \cup doomed)

FilesInv == AgreeInv /\ FilesOK

LEMMA FilesInit == RetryFirst /\ Init => FilesInv
BY AgreeInit DEF Init, FilesInv, FilesOK, AddPending, RemovePending, Match, Rewriting, Empty,
   AddOps, RemoveOps

\* Fewer files to be found, and more that may be.
LEMMA MatchWeaker ==
  ASSUME NEW files, NEW c, NEW d, Match(files, c, d), NEW c2, NEW d2,
         \A e \in c2 : \E x \in c : x.pkg = e.pkg /\ x.build = e.build,
         \A e \in d : \E x \in d2 : LocationOf(x.pkg) = LocationOf(e.pkg)
  PROVE  Match(files, c2, d2)
<1>1. ASSUME NEW e \in c2 PROVE Holds(files, LocationOf(e.pkg), RpmOf(e))
  <2>1. PICK x \in c : x.pkg = e.pkg /\ x.build = e.build
    OBVIOUS
  <2>2. Holds(files, LocationOf(x.pkg), RpmOf(x))
    BY DEF Match
  <2>3. QED
    BY <2>1, <2>2 DEF RpmOf
<1>2. \A l \in DOMAIN files : \E e \in d2 : LocationOf(e.pkg) = l
  BY DEF Match
<1>3. QED
  BY <1>1, <1>2 DEF Match

\* Every location of a manifest is one of what an Add makes of it.
LEMMA LocationsStay ==
  ASSUME NEW c, NEW o
  PROVE  \A e \in c : \E x \in ReplaceOrAppend(c, o) : LocationOf(x.pkg) = LocationOf(e.pkg)
<1> DEFINE new == [pkg |-> o.pkg, build |-> o.build, at |-> Cardinality(c) + 1]
<1>1. new \in ReplaceOrAppend(c, o) /\ new.pkg = o.pkg
  BY DEF ReplaceOrAppend
<1>2. QED
  BY <1>1 DEF ReplaceOrAppend

\* Files that match the manifest are what an operation may start from.
LEMMA MatchIsPending ==
  ASSUME NEW files, NEW c, NEW o, Match(files, c, c)
  PROVE  /\ Match(files, ToKeep(c, o), ReplaceOrAppend(c, o))
         /\ Match(files, c \ Matching(c, o), c)
BY MatchWeaker, LocationsStay DEF ToKeep

LEMMA FilesBegin ==
  ASSUME FilesInv,
         \/ \E o \in AddOps : BeginAdd(o)
         \/ \E o \in RemoveOps : BeginRemove(o)
  PROVE  FilesOK'
<1>1. /\ UNCHANGED <<rpms, manifest>>
      /\ pc = "idle" /\ pc' \in {"upload", "dropVersion"}
      /\ outcome = "failed" => op' = op
  BY DEF BeginAdd, BeginRemove, Start, Admissible, bucket, FilesInv, AgreeInv
<1>2. op' \in AddOps => Match(rpms, ToKeep(manifest, op'), ReplaceOrAppend(manifest, op'))
  BY <1>1, MatchIsPending DEF FilesInv, FilesOK, AddPending, Settled
<1>3. op' \in RemoveOps => Match(rpms, manifest \ Matching(manifest, op'), manifest)
  BY <1>1, MatchIsPending DEF FilesInv, FilesOK, RemovePending, Settled
<1>4. QED
  BY <1>1, <1>2, <1>3 DEF FilesOK, AddPending, RemovePending, Settled, Rewriting

LEMMA FilesUpload == ASSUME FilesInv, Upload PROVE FilesOK'
<1> DEFINE here == LocationOf(op.pkg)
<1>1. /\ rpms' = Put(rpms, here, RpmOf(op)) /\ UNCHANGED <<manifest, op>>
      /\ pc = "upload" /\ pc' = "updateState"
      /\ op \in AddOps /\ op \notin RemoveOps
  BY DEF Upload, FilesInv, AgreeInv, WriteInv, RepomdInv, TypeInv, ControlOK, AddOps, RemoveOps
<1>2. Match(rpms, ToKeep(manifest, op), ReplaceOrAppend(manifest, op))
  BY <1>1 DEF FilesInv, FilesOK, AddPending
<1>3. \A e \in ToKeep(manifest, op) : Holds(rpms', LocationOf(e.pkg), RpmOf(e))
  <2> SUFFICES ASSUME NEW e \in ToKeep(manifest, op)
               PROVE  Holds(rpms', LocationOf(e.pkg), RpmOf(e))
    OBVIOUS
  <2>1. LocationOf(e.pkg) # here /\ Holds(rpms, LocationOf(e.pkg), RpmOf(e))
    BY <1>2 DEF Match, ToKeep
  <2>2. QED
    BY <1>1, <2>1, StoreEffect
<1>4. \A l \in DOMAIN rpms' : \E e \in ReplaceOrAppend(manifest, op) : LocationOf(e.pkg) = l
  <2>1. \E e \in ReplaceOrAppend(manifest, op) : LocationOf(e.pkg) = here
    <3> DEFINE new == [pkg |-> op.pkg, build |-> op.build, at |-> Cardinality(manifest) + 1]
    <3>1. new \in ReplaceOrAppend(manifest, op) /\ new.pkg = op.pkg
      BY DEF ReplaceOrAppend
    <3>2. QED
      BY <3>1
  <2>2. DOMAIN rpms' = DOMAIN rpms \cup {here}
    BY <1>1 DEF Put
  <2>3. QED
    BY <1>2, <2>1, <2>2 DEF Match
<1>5. Holds(rpms', here, RpmOf(op))
  BY <1>1, StoreEffect
<1>6. Match(rpms', ToKeep(manifest, op), ReplaceOrAppend(manifest, op))
  BY <1>3, <1>4 DEF Match
<1>7. QED
  BY <1>1, <1>5, <1>6 DEF FilesOK, AddPending, RemovePending, Settled, Rewriting

LEMMA FilesUpdateState == ASSUME FilesInv, UpdateState PROVE FilesOK'
<1> DEFINE items == ReplaceOrAppend(manifest, op)
<1>1. /\ UNCHANGED <<rpms, manifest, op>>
      /\ pc = "updateState" /\ pc' = "rewrite"
      /\ op \in AddOps
  BY DEF UpdateState, bucket, FilesInv, AgreeInv, WriteInv, RepomdInv, TypeInv, ControlOK
<1>2. entries' = Prune(items) /\ entries' \cup doomed' = items
  BY PruneSubset DEF UpdateState, Surplus
<1>3. /\ Match(rpms, ToKeep(manifest, op), items)
      /\ Holds(rpms, LocationOf(op.pkg), RpmOf(op))
  BY <1>1 DEF FilesInv, FilesOK, AddPending
<1>4. ASSUME NEW e \in entries' PROVE Holds(rpms, LocationOf(e.pkg), RpmOf(e))
  <2>1. CASE e \in manifest /\ LocationOf(e.pkg) # LocationOf(op.pkg)
    BY <1>2, <1>3, <2>1 DEF Match, ToKeep
  <2>2. CASE ~ (e \in manifest /\ LocationOf(e.pkg) # LocationOf(op.pkg))
    <3>1. e.pkg = op.pkg /\ e.build = op.build
      BY <1>2, <2>2, PruneSubset DEF ReplaceOrAppend
    <3>2. QED
      BY <1>3, <3>1 DEF RpmOf
  <2>3. QED
    BY <2>1, <2>2
<1>5. Match(rpms, entries', entries' \cup doomed')
  BY <1>2, <1>3, <1>4 DEF Match
<1>6. QED
  BY <1>1, <1>5 DEF FilesOK, AddPending, RemovePending, Settled, Rewriting

LEMMA FilesDropVersion == ASSUME FilesInv, DropVersion PROVE FilesOK'
<1>1. /\ UNCHANGED <<rpms, manifest, op>>
      /\ pc = "dropVersion" /\ pc' = "rewrite"
      /\ op \in RemoveOps
      /\ entries' = manifest \ Matching(manifest, op)
      /\ entries' \cup doomed' = manifest
  BY DEF DropVersion, Matching, bucket, FilesInv, AgreeInv, WriteInv, RepomdInv, TypeInv,
     ControlOK
<1>2. Match(rpms, entries', entries' \cup doomed')
  BY <1>1 DEF FilesInv, FilesOK, RemovePending
<1>3. QED
  BY <1>1, <1>2 DEF FilesOK, AddPending, RemovePending, Settled, Rewriting

LEMMA FilesDeleteRpm == ASSUME FilesInv, DeleteRpm PROVE FilesOK'
<1>1. PICK d \in doomed :
        rpms' = Delete(rpms, LocationOf(d.pkg)) /\ doomed' = doomed \ {d}
  BY DEF DeleteRpm
<1>2. pc = "rewrite" /\ UNCHANGED <<pc, op, manifest, entries>>
  BY DEF DeleteRpm
<1>3. Match(rpms, entries, entries \cup doomed)
  BY <1>2 DEF FilesInv, FilesOK, Rewriting
<1>4. \A e \in entries : LocationOf(e.pkg) # LocationOf(d.pkg)
  <2>1. \E c \in Contents : entries \subseteq c /\ d \in c \ entries
    <3>1. entries = Intended(manifest, op) /\ d \in Dropped(manifest, op)
      BY <1>2 DEF FilesInv, AgreeInv, WriteInv, RewriteOK
    <3>2. CASE op \in AddOps
      BY <3>1, <3>2, ReplaceOrAppendType, PruneSubset DEF Intended, Dropped, Surplus,
         FilesInv, AgreeInv, WriteInv, RepomdInv, TypeInv, TypeOK
    <3>3. CASE op \notin AddOps
      BY <3>1, <3>3 DEF Intended, Dropped, Matching, FilesInv, AgreeInv, WriteInv, RepomdInv,
         TypeInv, TypeOK
    <3>4. QED
      BY <3>2, <3>3
  <2>2. QED
    BY <2>1 DEF Contents
<1>5. \A e \in entries : Holds(rpms', LocationOf(e.pkg), RpmOf(e))
  BY <1>1, <1>3, <1>4, StoreEffect DEF Match
<1>6. \A l \in DOMAIN rpms' : \E e \in entries \cup doomed' : LocationOf(e.pkg) = l
  <2>1. DOMAIN rpms' = DOMAIN rpms \ {LocationOf(d.pkg)}
    BY <1>1 DEF Delete
  <2>2. QED
    BY <1>1, <1>3, <2>1 DEF Match
<1>7. QED
  BY <1>2, <1>5, <1>6 DEF FilesOK, AddPending, RemovePending, Settled, Rewriting, Match

LEMMA FilesSortEntries == ASSUME FilesInv, SortEntries PROVE FilesOK'
<1>1. /\ pc = "rewrite" /\ pc' = "primary" /\ doomed = {} /\ doomed' = {}
      /\ UNCHANGED <<rpms, op, manifest>>
  BY DEF SortEntries, bucket
<1>2. Match(rpms, entries, entries)
  BY <1>1 DEF FilesInv, FilesOK, Rewriting
<1>3. RpmsOf(entries') = RpmsOf(entries)
  BY SortType DEF SortEntries, FilesInv, AgreeInv, WriteInv, RepomdInv, TypeInv, TypeOK
<1>4. Match(rpms, entries', entries')
  BY <1>2, <1>3, SameRpms, MatchWeaker
<1>5. QED
  BY <1>1, <1>4 DEF FilesOK, AddPending, RemovePending, Settled, Rewriting

LEMMA FilesPublish ==
  ASSUME FilesInv, WriteMeta \/ PutRepomd \/ SignRepomd \/ SaveState \/ CleanupMetadata
  PROVE  FilesOK'
<1>1. /\ pc \in Rewriting /\ pc' \in Rewriting /\ UNCHANGED <<rpms, entries, doomed>>
  BY DEF WriteMeta, PutRepomd, SignRepomd, SaveState, CleanupMetadata, AfterMeta,
     AfterRepomd, Rewriting, Types
<1>2. QED
  BY <1>1 DEF FilesInv, FilesOK, AddPending, RemovePending, Settled, Rewriting

LEMMA FilesEnd == ASSUME FilesInv, NothingToDrop \/ Return PROVE FilesOK'
<1>1. /\ UNCHANGED <<rpms, manifest, op>> /\ pc' = "idle" /\ outcome' # "failed"
  BY DEF NothingToDrop, Return, Finish, bucket
<1>2. Match(rpms, manifest, manifest)
  <2>1. CASE NothingToDrop
    BY <2>1 DEF NothingToDrop, FilesInv, FilesOK, RemovePending, AgreeInv, WriteInv,
       RepomdInv, TypeInv, ControlOK
  <2>2. CASE Return
    BY <2>2, CleanupAgrees DEF Return, FilesInv, FilesOK, Rewriting, AgreeInv, WriteInv,
       RewriteOK
  <2>3. QED
    BY <2>1, <2>2
<1>3. QED
  BY <1>1, <1>2 DEF FilesOK, AddPending, RemovePending, Settled, Rewriting

\* What an interrupted operation leaves is what it finds when it is run again.
LEMMA FilesFail == ASSUME FilesInv, Fail PROVE FilesOK'
<1>1. /\ UNCHANGED <<rpms, manifest, op>> /\ pc' = "idle" /\ outcome' = "failed"
      /\ pc # "idle" /\ op \in AddOps \cup RemoveOps
  BY DEF Fail, Finish, bucket, FilesInv, AgreeInv, WriteInv, RepomdInv, TypeInv, ControlOK
<1>2. CASE pc \in {"upload", "updateState", "dropVersion"}
  BY <1>1, <1>2 DEF FilesInv, FilesOK, AddPending, RemovePending, Settled, Rewriting,
     AgreeInv, WriteInv, RepomdInv, TypeInv, ControlOK, AddOps, RemoveOps
<1>3. CASE pc = "cleanup"
  <2>1. Match(rpms, manifest, manifest)
    BY <1>3, CleanupAgrees DEF FilesInv, FilesOK, Rewriting, AgreeInv, WriteInv, RewriteOK
  <2>2. QED
    BY <1>1, <2>1, MatchIsPending DEF FilesOK, Settled, Rewriting
<1>4. CASE pc \in {"rewrite"} \cup Publishing
  <2> DEFINE left == Intended(manifest, op)
  <2>1. Match(rpms, entries, entries \cup doomed)
    BY <1>4 DEF FilesInv, FilesOK, Rewriting, Publishing, Types
  <2>2. RpmsOf(entries) = RpmsOf(left) /\ doomed \subseteq Dropped(manifest, op)
    BY <1>4 DEF FilesInv, AgreeInv, WriteInv, RewriteOK
  <2>3. /\ \A e \in left : \E x \in entries : x.pkg = e.pkg /\ x.build = e.build
        /\ \A e \in entries : \E x \in left : x.pkg = e.pkg /\ x.build = e.build
    BY <2>2, SameRpms
  <2>4. ASSUME op \in AddOps
        PROVE  Match(rpms, ToKeep(manifest, op), ReplaceOrAppend(manifest, op))
    <3>1. /\ ToKeep(manifest, op) \subseteq left
          /\ left \cup doomed \subseteq ReplaceOrAppend(manifest, op)
      BY <2>2, <2>4, PruneSubset DEF Intended, Dropped, Surplus, ToKeep
    <3>2. QED
      BY <2>1, <2>3, <3>1, MatchWeaker
  <2>5. ASSUME op \notin AddOps
        PROVE  Match(rpms, manifest \ Matching(manifest, op), manifest)
    <3>1. left = manifest \ Matching(manifest, op) /\ left \cup doomed \subseteq manifest
      BY <2>2, <2>5 DEF Intended, Dropped, Matching
    <3>2. QED
      BY <2>1, <2>3, <3>1, MatchWeaker
  <2>6. op \in RemoveOps => op \notin AddOps
    BY DEF AddOps, RemoveOps
  <2>7. QED
    BY <1>1, <2>4, <2>5, <2>6 DEF FilesOK, AddPending, RemovePending, Settled, Rewriting
<1>5. QED
  BY <1>1, <1>2, <1>3, <1>4 DEF FilesInv, AgreeInv, WriteInv, RepomdInv, TypeInv, TypeOK,
     Steps, Publishing, Types

LEMMA FilesStep == FilesInv /\ [Next]_vars => FilesInv'
<1> SUFFICES ASSUME FilesInv, [Next]_vars
             PROVE  FilesInv'
  OBVIOUS
<1>1. AgreeInv'
  BY AgreeStep DEF FilesInv
<1>2. CASE UNCHANGED vars
  BY <1>1, <1>2 DEF vars, bucket, FilesInv, FilesOK, AddPending, RemovePending, Settled
<1>3. CASE Next
  BY <1>1, <1>3, FilesBegin, FilesUpload, FilesUpdateState, FilesDropVersion,
     FilesDeleteRpm, FilesSortEntries, FilesPublish, FilesEnd, FilesFail
   DEF Next, Step, FilesInv
<1>4. QED
  BY <1>2, <1>3

LEMMA FilesInvariance ==
  ASSUME RetryFirst
  PROVE  Spec => []FilesInv
<1>1. Init => FilesInv
  BY FilesInit
<1>2. QED
  BY <1>1, FilesStep, PTL DEF Spec

\* When Add or Remove reports success, dnf finds the very files that the metadata
\* describe, and there are no others, whatever was interrupted before, at
\* whichever step, provided that it was run again before anything else (Add,
\* Remove: both delete files before they rewrite the metadata).
THEOREM FilesAgree ==
  ASSUME RetryFirst
  PROVE  Spec => []RpmsMatchRepomd
<1>1. FilesInv => RpmsMatchRepomd
  <2> SUFFICES ASSUME FilesInv, Settled
               PROVE  RpmsOf(manifest) = {rpms[l] : l \in DOMAIN rpms}
    BY DEF FilesInv, AgreeInv, AgreeOK, Agrees, RpmsMatchRepomd
  <2>1. Match(rpms, manifest, manifest)
    BY DEF FilesInv, FilesOK
  <2>2. ASSUME NEW e \in manifest PROVE \E l \in DOMAIN rpms : rpms[l] = RpmOf(e)
    BY <2>1 DEF Match, Holds
  <2>3. ASSUME NEW l \in DOMAIN rpms PROVE \E e \in manifest : rpms[l] = RpmOf(e)
    BY <2>1 DEF Match, Holds
  <2>4. QED
    BY <2>2, <2>3 DEF RpmsOf
<1>2. QED
  BY <1>1, FilesInvariance, PTL

\* A Remove that reports success, the first time or after interruptions, has left
\* nothing of the version that it names: no release and no architecture of it is
\* in the metadata or among the files (Remove).
THEOREM RemoveCompletes ==
  ASSUME RetryFirst
  PROVE  Spec => []RemovedIsGone
<1>1. FilesInv => RemovedIsGone
  <2> SUFFICES ASSUME FilesInv, Settled, outcome # "none", op.kind = "remove"
               PROVE  /\ \A e \in Listed : ~Named(e.pkg, op)
                      /\ \A l \in DOMAIN rpms : ~(l.name = op.name /\ l.version = op.version)
    BY DEF RemovedIsGone
  <2>1. op \in RemoveOps
    BY KindOf DEF FilesInv, AgreeInv, WriteInv, OutcomeOK
  <2>2. /\ Matching(manifest, op) = {} /\ manifest = Listed
        /\ Match(rpms, manifest, manifest)
    BY <2>1 DEF FilesInv, FilesOK, AgreeInv, AgreeOK, Agrees, WriteInv, RewriteOK
  <2>3. \A e \in Listed : ~Named(e.pkg, op)
    BY <2>2 DEF Matching
  <2>4. ASSUME NEW l \in DOMAIN rpms, l.name = op.name, l.version = op.version PROVE FALSE
    <3>1. PICK e \in manifest : LocationOf(e.pkg) = l
      BY <2>2 DEF Match
    <3>2. e.pkg.name = l.name /\ e.pkg.evr.version = l.version
      BY <3>1 DEF LocationOf
    <3>3. QED
      BY <2>2, <2>3, <2>4, <3>1, <3>2 DEF Named
  <2>5. QED
    BY <2>3, <2>4
<1>2. QED
  BY <1>1, FilesInvariance, PTL

=============================================================================
