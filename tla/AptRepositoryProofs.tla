-------------------------- MODULE AptRepositoryProofs --------------------------
(***************************************************************************)
(* The apt publisher implements Repository, whatever is interrupted: what  *)
(* it writes to an index is what retention may leave of one addition, or   *)
(* what one removal leaves.  And Add prunes a pool file only while Keep    *)
(* others, none of them older, stay in the pool.                           *)
(***************************************************************************)
EXTENDS AptRepository, AptPublisherProofs

-----------------------------------------------------------------------------
(* What is pruned.                                                         *)

SurplusInv == PoolInv /\ BoundInv /\ IsFiniteSet(DOMAIN pool)

LEMMA SurplusInit == Init => SurplusInv
<1>1. Init => DOMAIN pool = {}
  BY DEF Init, Empty
<1>2. QED
  BY <1>1, PoolInit, BoundInit, FS_EmptySet DEF SurplusInv

LEMMA SurplusStep == SurplusInv /\ RunsAgain /\ [Next]_vars => SurplusInv'
<1> SUFFICES ASSUME SurplusInv, RunsAgain, [Next]_vars
             PROVE  SurplusInv'
  OBVIOUS
<1>1. PoolInv' /\ BoundInv'
  BY PoolStep, BoundStep DEF SurplusInv
<1>2. \/ UNCHANGED pool
      \/ \E k : DOMAIN pool' = DOMAIN pool \cup {k}
      \/ \E k : DOMAIN pool' = DOMAIN pool \ {k}
  BY DEF Next, Step, vars, bucket, BeginAdd, BeginRemove, Start, Upload, UpdateIndex,
     ScanIndex, EndScan, DeletePoolFile, PutPackages, PutPackagesGz, PublishRelease,
     PutInRelease, PutReleaseGpg, Return, Fail, Finish, Put, Delete
<1>3. IsFiniteSet(DOMAIN pool')
  <2>1. IsFiniteSet(DOMAIN pool)
    BY DEF SurplusInv
  <2>2. ASSUME NEW k
        PROVE  IsFiniteSet(DOMAIN pool \cup {k}) /\ IsFiniteSet(DOMAIN pool \ {k})
    BY <2>1, FS_AddElement, FS_RemoveElement
  <2>3. QED
    BY <1>2, <2>1, <2>2
<1>4. QED
  BY <1>1, <1>3 DEF SurplusInv

\* What retention takes out makes room for Keep others, whose files are there.
LEMMA NewerFilesStay ==
  ASSUME SurplusInv, pc = "rewrite", op \in AddOps, NEW d \in doomed
  PROVE  LET p == PathOf(index, d.pkg)
         IN  Keep > 0 /\ Cardinality(NewerFiles(p) \ {p}) >= Keep
<1> DEFINE items  == Insert(Read(index), op)
           p      == PathOf(index, d.pkg)
           group  == GroupItems(kept, GroupOf, GroupOf[d.pkg])
           others == NewerFiles(p) \ {p}
           f      == [e \in group |-> PathOf(index, e.pkg)]
<1>1. /\ index \in Indexes /\ Read(index) \in Contents /\ Written(Read(index))
      /\ kept \in Contents /\ d \in Stanzas
      /\ kept = Prune(items) /\ d \in Surplus(items)
  BY ReadType
  DEF SurplusInv, BoundInv, WriteInv, TypeInv, TypeOK, ControlOK, RewriteOK, Contents
<1>2. items \in Contents /\ Orderly(items, GroupOf, AgeOf)
  BY <1>1, InsertType, InsertSpaced, ContentsOrderly
<1> HIDE DEF items
<1>3. Keep > 0 /\ kept = Retain(items, Keep, GroupOf, AgeOf) /\ d \in items \ kept
  BY <1>1 DEF Surplus, Prune
<1>4. Cardinality(group) = Keep /\ \A e \in group : Newer(e, d, AgeOf)
  BY <1>2, <1>3, RetainsNewest, KeepAssumption
<1>5. ASSUME NEW e \in group PROVE PathOf(index, e.pkg) \in others
  <2>1. /\ e \in kept /\ e \in Stanzas /\ e.pkg \in Packages /\ d.pkg \in Packages
        /\ e.pkg.name = d.pkg.name
    BY <1>1 DEF GroupItems, GroupOf, Contents, Stanzas
  <2>2. Rank[e.pkg.version] >= Rank[d.pkg.version]
    <3>1. AgeOf[e.pkg] >= AgeOf[d.pkg]
      BY <1>4, <2>1, RankAssumption DEF Newer, AgeOf, Packages
    <3>2. QED
      BY <2>1, <3>1 DEF AgeOf
  <2>3. e.pkg # d.pkg
    BY <2>1, Split DEF SurplusInv, PoolInv
  <2>4. PathOf(index, e.pkg) \in DOMAIN pool
    BY <2>1 DEF SurplusInv, PoolInv, PoolOK, PoolFollows, Holds
  <2>5. QED
    BY <2>1, <2>2, <2>3, <2>4 DEF NewerFiles, PathOf
<1>6. \A x, y \in group : f[x] = f[y] => x = y
  BY <1>1 DEF GroupItems, PathOf, Contents
<1>7. f \in Injection(group, others)
  BY <1>5, <1>6 DEF Injection, IsInjective
<1>8. IsFiniteSet(others)
  BY FS_Subset DEF NewerFiles, SurplusInv
<1> HIDE DEF f, others, group
<1>9. Cardinality(group) <= Cardinality(others)
  BY <1>7, <1>8, FS_Injection
<1>10. QED
  BY <1>3, <1>4, <1>9, <1>8, FS_CardinalityType, KeepAssumption DEF others

\* Only one step deletes a pool file.
LEMMA SurplusDeleted ==
  ASSUME Flat, SurplusInv, [Next]_vars, NEW p \in DOMAIN pool \ DOMAIN pool'
  PROVE  \/ op.kind = "remove" /\ p.component = op.component /\ p.pkg = op.pkg
         \/ op.kind = "add" /\ Keep > 0 /\ Cardinality(NewerFiles(p) \ {p}) >= Keep
<1>1. DeletePoolFile
  BY DEF Next, Step, vars, bucket, BeginAdd, BeginRemove, Start, Upload, UpdateIndex,
     ScanIndex, EndScan, PutPackages, PutPackagesGz, PublishRelease, PutInRelease,
     PutReleaseGpg, Return, Fail, Finish, Put
<1>2. PICK d \in doomed : pool' = Delete(pool, PathOf(index, d.pkg))
  BY <1>1 DEF DeletePoolFile
<1>3. p = PathOf(index, d.pkg)
  BY <1>2 DEF Delete
<1>4. pc = "rewrite" /\ op \in AddOps \cup RemoveOps
  BY <1>1 DEF DeletePoolFile, SurplusInv, BoundInv, WriteInv, TypeInv, ControlOK
<1>5. CASE op \in AddOps
  <2>1. op.kind = "add"
    BY <1>5, KindOf
  <2>2. QED
    BY <1>3, <1>4, <1>5, <2>1, NewerFilesStay
<1>6. CASE op \in RemoveOps
  <2>1. op.kind = "remove" /\ op.component \in Components
    BY <1>6 DEF RemoveOps
  <2>2. d.pkg = op.pkg
    BY <1>4, <1>6 DEF SurplusInv, BoundInv, WriteInv, RewriteOK, Matching
  <2>3. index.component = op.component
    BY <1>4, <1>6, <2>1 DEF SurplusInv, PoolInv, QueueOK, IndexesOf, Flat
  <2>4. QED
    BY <1>3, <2>1, <2>2, <2>3 DEF PathOf
<1>7. QED
  BY <1>4, <1>5, <1>6

\* Add never prunes a file unless Keep others of its package and architecture,
\* none of them older, stay in the pool, and Remove deletes the files of the
\* package and component it names and no others; whatever was interrupted, as
\* long as it is run again before anything else (updateIndex, Remove).
THEOREM PrunesSurplus ==
  ASSUME RetryFirst, Flat
  PROVE  Spec => DeletesOnlySurplus
<1> DEFINE Allowed ==
      \A p \in DOMAIN pool \ DOMAIN pool' :
        \/ op.kind = "remove" /\ p.component = op.component /\ p.pkg = op.pkg
        \/ op.kind = "add" /\ Keep > 0 /\ Cardinality(NewerFiles(p) \ {p}) >= Keep
<1>1. Init => SurplusInv
  BY SurplusInit
<1>2. SurplusInv /\ [Next]_vars => [Allowed]_vars
  BY SurplusDeleted
<1>3. SurplusInv /\ [Next]_vars => SurplusInv'
  BY SurplusStep, RetriesRunAgain
<1>4. QED
  BY <1>1, <1>2, <1>3, PTL DEF Spec, DeletesOnlySurplus

-----------------------------------------------------------------------------
(* The changes to an index.                                                *)

\* The files of an index are as many as its stanzas.
LEMMA FilesCount ==
  ASSUME NEW c \in Contents
  PROVE  FilesOf(c) \subseteq Files /\ Cardinality(FilesOf(c)) = Cardinality(c)
<1> DEFINE f == [e \in c |-> [pkg |-> e.pkg, build |-> e.build]]
<1>1. IsFiniteSet(c) /\ \A d, e \in c : d.pkg = e.pkg => d = e
  BY DEF Contents
<1>2. f \in [c -> FilesOf(c)] /\ \A t \in FilesOf(c) : \E x \in c : f[x] = t
  BY DEF FilesOf
<1>3. \A d, e \in c : f[d] = f[e] => d = e
  BY <1>1
<1>4. FilesOf(c) \subseteq Files
  BY DEF FilesOf, Files, Contents, Stanzas
<1> HIDE DEF f
<1>5. QED
  BY <1>1, <1>2, <1>3, <1>4, SameNumber

LEMMA GroupFiles ==
  ASSUME NEW c \in Contents, NEW f \in Files
  PROVE  LET group == GroupItems(c, GroupOf, GroupOf[f.pkg])
         IN  /\ Repo!GroupIn(FilesOf(c), f) = FilesOf(group)
             /\ Cardinality(Repo!GroupIn(FilesOf(c), f)) = Cardinality(group)
<1> DEFINE group == GroupItems(c, GroupOf, GroupOf[f.pkg])
<1>1. group \in Contents
  BY SubContents DEF GroupItems
<1>2. FilesOf(c) \subseteq Files
  BY FilesCount
<1>3. Repo!GroupIn(FilesOf(c), f) = {e \in FilesOf(c) : GroupOf[e.pkg] = GroupOf[f.pkg]}
  BY <1>2 DEF Repo!GroupIn
<1>4. Repo!GroupIn(FilesOf(c), f) = FilesOf(group)
  BY <1>3 DEF FilesOf, GroupItems
<1>5. QED
  BY <1>1, <1>4, FilesCount

\* Repository counts as we do.
LEMMA RepoCardinality == \A S : Repo!Cardinality(S) = Cardinality(S)
BY DEF Repo!Cardinality, Cardinality

\* What Prune leaves is what retention may leave.
LEMMA PruneLeaves ==
  ASSUME NEW c \in Contents, Spaced(c)
  PROVE  Repo!MayLeave(FilesOf(c), FilesOf(Prune(c)))
<1>1. CASE Keep = 0
  BY <1>1 DEF Prune, Repo!MayLeave
<1>2. CASE Keep # 0
  <2> DEFINE left == Prune(c)
  <2>1. left = Retain(c, Keep, GroupOf, AgeOf) /\ left \subseteq c /\ left \in Contents
    BY <1>2, PruneSubset, SubContents, KeepAssumption DEF Prune
  <2>2. Orderly(c, GroupOf, AgeOf)
    BY ContentsOrderly
  <2>3. FilesOf(left) \subseteq FilesOf(c) /\ FilesOf(c) \subseteq Files
    BY <2>1, FilesCount DEF FilesOf
  <2> HIDE DEF left
  <2>4. ASSUME NEW e \in FilesOf(left)
        PROVE  Cardinality(Repo!GroupIn(FilesOf(left), e)) <= Keep
    BY <2>1, <2>2, <2>3, GroupFiles, RetainsNewest, KeepAssumption
  <2>5. ASSUME NEW d \in FilesOf(c) \ FilesOf(left)
        PROVE  /\ Cardinality(Repo!GroupIn(FilesOf(left), d)) = Keep
               /\ \A e \in Repo!GroupIn(FilesOf(left), d) : AgeOf[e.pkg] >= AgeOf[d.pkg]
    <3> DEFINE group == GroupItems(left, GroupOf, GroupOf[d.pkg])
    <3>1. PICK x \in c : d.pkg = x.pkg /\ x \notin left
      BY DEF FilesOf
    <3>2. Cardinality(group) = Keep /\ \A y \in group : Newer(y, x, AgeOf)
      BY <2>1, <2>2, <3>1, RetainsNewest, KeepAssumption
    <3>3. /\ Repo!GroupIn(FilesOf(left), d) = FilesOf(group)
          /\ Cardinality(Repo!GroupIn(FilesOf(left), d)) = Cardinality(group)
      BY <2>1, <2>3, GroupFiles
    <3>4. ASSUME NEW y \in group PROVE AgeOf[y.pkg] >= AgeOf[x.pkg]
      <4>1. y \in c
        BY <2>1 DEF GroupItems
      <4>2. AgeOf[y.pkg] \in Nat /\ AgeOf[x.pkg] \in Nat
        BY <2>2, <4>1 DEF Orderly
      <4>3. QED
        BY <3>2, <4>2 DEF Newer
    <3> HIDE DEF group
    <3>5. QED
      BY <3>1, <3>2, <3>3, <3>4 DEF FilesOf
  <2>6. \A e \in FilesOf(c) : [f \in Files |-> AgeOf[f.pkg]][e] = AgeOf[e.pkg]
    BY <2>3
  <2>7. \A d : Repo!GroupIn(FilesOf(left), d) \subseteq FilesOf(c)
    BY <2>3 DEF Repo!GroupIn
  <2>8. QED
    BY <1>2, <2>3, <2>4, <2>5, <2>6, <2>7, RepoCardinality DEF Repo!MayLeave, left
<1>3. QED
  BY <1>1, <1>2

\* The files of the stanzas of other packages.
LEMMA FilesWhere ==
  ASSUME NEW c, NEW pkg
  PROVE  FilesOf({e \in c : e.pkg # pkg}) = {f \in FilesOf(c) : f.pkg # pkg}
<1>1. ASSUME NEW f \in FilesOf({e \in c : e.pkg # pkg})
      PROVE  f \in FilesOf(c) /\ f.pkg # pkg
  BY DEF FilesOf
<1>2. ASSUME NEW f \in FilesOf(c), f.pkg # pkg
      PROVE  f \in FilesOf({e \in c : e.pkg # pkg})
  <2>1. PICK e \in c : f = [pkg |-> e.pkg, build |-> e.build]
    BY DEF FilesOf
  <2>2. e.pkg # pkg
    BY <1>2, <2>1
  <2>3. QED
    BY <2>1, <2>2 DEF FilesOf
<1>3. QED
  BY <1>1, <1>2

\* Inserting a stanza adds its file.
LEMMA InsertAdds ==
  ASSUME NEW c \in Contents, NEW o \in AddOps
  PROVE  /\ [pkg |-> o.pkg, build |-> o.build] \in Files
         /\ FilesOf(Insert(c, o))
              = Repo!WithFile(FilesOf(c), [pkg |-> o.pkg, build |-> o.build])
<1> DEFINE new == [pkg |-> o.pkg, build |-> o.build]
<1>1. new \in Files
  BY DEF Files, AddOps
<1>2. FilesOf(c) \subseteq Files
  BY FilesCount
<1>3. Repo!WithFile(FilesOf(c), new) = {e \in FilesOf(c) : e.pkg # o.pkg} \cup {new}
  BY <1>1, <1>2 DEF Repo!WithFile
<1>4. FilesOf(Insert(c, o)) = {e \in FilesOf(c) : e.pkg # o.pkg} \cup {new}
  <2>1. FilesOf(Insert(c, o)) = FilesOf({e \in c : e.pkg # o.pkg}) \cup {new}
    <3> DEFINE rest == {e \in c : e.pkg # o.pkg}
               last == [pkg |-> o.pkg, build |-> o.build, at |-> Cardinality(c) + 1]
    <3>1. Insert(c, o) = rest \cup {last} /\ last.pkg = o.pkg /\ last.build = o.build
      BY DEF Insert
    <3> HIDE DEF rest, last
    <3>2. QED
      BY <3>1 DEF FilesOf, rest
  <2>2. FilesOf({e \in c : e.pkg # o.pkg}) = {e \in FilesOf(c) : e.pkg # o.pkg}
    BY FilesWhere
  <2>3. QED
    BY <2>1, <2>2
<1>5. QED
  BY <1>1, <1>3, <1>4

\* An index is rewritten by one addition or one removal.
LEMMA RewriteFollows ==
  ASSUME BoundInv, pc = "rewrite"
  PROVE  Repo!Follows(FilesOf(Read(index)), FilesOf(BuildPackages(kept)))
<1> DEFINE c     == Read(index)
           items == Insert(c, op)
<1>1. /\ c \in Contents /\ Written(c)
      /\ kept \in Contents
      /\ op \in AddOps \cup RemoveOps
  BY ReadType DEF BoundInv, WriteInv, TypeInv, TypeOK, ControlOK
<1>2. FilesOf(BuildPackages(kept)) = FilesOf(kept)
  <2>1. /\ \A e \in kept : \E d \in BuildPackages(kept) : d.pkg = e.pkg /\ d.build = e.build
        /\ \A d \in BuildPackages(kept) : \E e \in kept : d.pkg = e.pkg /\ d.build = e.build
    BY <1>1, BuildPackagesType
  <2>2. QED
    BY <2>1 DEF FilesOf
<1>3. CASE op \in AddOps
  <2>1. items \in Contents /\ Spaced(items) /\ kept = Prune(items)
    BY <1>1, <1>3, InsertType, InsertSpaced DEF BoundInv, WriteInv, RewriteOK
  <2> HIDE DEF items
  <2>2. Repo!MayLeave(FilesOf(items), FilesOf(kept))
    BY <2>1, PruneLeaves
  <2>3. QED
    BY <1>1, <1>2, <1>3, <2>2, InsertAdds DEF items, Repo!Follows
<1>4. CASE op \in RemoveOps
  <2> DEFINE gone == {f \in Files : f.pkg = op.pkg}
  <2>1. op.pkg \in Packages /\ kept = c \ Matching(c, op)
    BY <1>4 DEF RemoveOps, BoundInv, WriteInv, RewriteOK
  <2>2. FilesOf(kept) = FilesOf(c) \ gone
    <3>1. kept = {e \in c : e.pkg # op.pkg}
      BY <2>1 DEF Matching
    <3>2. FilesOf(kept) = {f \in FilesOf(c) : f.pkg # op.pkg}
      BY <3>1, FilesWhere
    <3>3. QED
      BY <1>1, <3>2, FilesCount
  <2>3. QED
    BY <1>2, <2>1, <2>2 DEF Repo!Follows
<1>5. QED
  BY <1>1, <1>3, <1>4

-----------------------------------------------------------------------------
(* The steps of the publisher are steps of the repository.                 *)

RepoInv == BoundInv /\ PublishInv

\* What is in the indexes, and what apt is shown of them.
Base  == [i \in Indexes |-> FilesOf(Read(i))]
Seen  == [i \in Indexes |-> Shown(i)]

\* The Release that lists the indexes as they are shows what is in them.
LEMMA CurrentShows ==
  ReleaseCurrent /\ (Signed => Holds(dist, "InRelease", dist["Release"])) => Seen = Base
<1> SUFFICES ASSUME ReleaseCurrent, Signed => Holds(dist, "InRelease", dist["Release"])
             PROVE  Seen = Base
  OBVIOUS
<1>1. \A i : Shown(i) = FilesOf(Read(i))
  <2>1. FilesOf({}) = {}
    BY DEF FilesOf
  <2>2. QED
    BY <2>1 DEF ReleaseCurrent, Shown, Read, Holds
<1>2. QED
  BY <1>1 DEF Seen, Base

\* Most steps change neither the indexes nor what apt is shown.
LEMMA RepoSame ==
  ASSUME UNCHANGED packages,
         LET key == IF Signed THEN "InRelease" ELSE "Release"
         IN  /\ key \in DOMAIN dist' <=> key \in DOMAIN dist
             /\ key \in DOMAIN dist => dist'[key] = dist[key]
  PROVE  UNCHANGED <<Base, Seen>>
<1>1. \A i : FilesOf(Read(i))' = FilesOf(Read(i)) /\ Shown(i)' = Shown(i)
  BY DEF Read, Shown, FilesOf
<1>2. QED
  BY <1>1 DEF Base, Seen

LEMMA RepoInit == Init => Repo!Init
<1> SUFFICES ASSUME Init
             PROVE  Repo!Init
  OBVIOUS
<1>1. \A i : Read(i) = {} /\ Shown(i) = {}
  BY DEF Init, Read, Shown, Empty
<1>2. FilesOf({}) = {}
  BY DEF FilesOf
<1>3. Base = [i \in Indexes |-> {}] /\ Seen = [i \in Indexes |-> {}]
  BY <1>1, <1>2 DEF Base, Seen
<1>4. QED
  BY <1>3 DEF Init, Repo!Init, Repo!Nothing, Base, Seen

LEMMA RepoPutPackages ==
  ASSUME RepoInv, PutPackages
  PROVE  \E i \in Indexes : Repo!Change(i)
<1>1. /\ packages' = Put(packages, index, BuildPackages(kept))
      /\ pc = "rewrite" /\ index \in Indexes
      /\ outcome = "running" /\ UNCHANGED <<outcome, dist>>
  BY DEF PutPackages, RepoInv, BoundInv, WriteInv, OutcomeOK, TypeInv, ControlOK
<1>2. \A i : Read(i)' = IF i = index THEN BuildPackages(kept) ELSE Read(i)
  BY <1>1 DEF Read, Put
<1>3. Repo!Follows(Base[index], Base'[index])
  <2>1. Base[index] = FilesOf(Read(index)) /\ Base'[index] = FilesOf(BuildPackages(kept))
    BY <1>1, <1>2 DEF Base
  <2>2. QED
    BY <1>1, <2>1, RewriteFollows DEF RepoInv
<1>4. Base' = [Base EXCEPT ![index] = Base'[index]]
  BY <1>1, <1>2 DEF Base
<1>5. Seen' = Seen
  BY <1>1 DEF Seen, Shown
<1>6. Repo!Change(index)
  BY <1>1, <1>3, <1>4, <1>5 DEF Repo!Change, Base, Seen
<1>7. QED
  BY <1>1, <1>6

\* The Release shows apt the indexes, all at once; in a signed repository its
\* signature does.
LEMMA RepoPublish ==
  ASSUME RepoInv, PublishInv', PublishRelease \/ PutInRelease \/ PutReleaseGpg
  PROVE  Repo!Align \/ UNCHANGED <<Base, Seen, outcome>>
<1>1. /\ outcome = "running" /\ UNCHANGED <<packages, outcome>>
  BY DEF PublishRelease, PutInRelease, PutReleaseGpg, RepoInv, BoundInv, WriteInv, OutcomeOK
<1>2. Base' = Base
  BY <1>1 DEF Base, Read
<1>3. ReleaseCurrent' /\ (Signed => Holds(dist, "InRelease", dist["Release"])') => Repo!Align
  <2>1. (ReleaseCurrent /\ (Signed => Holds(dist, "InRelease", dist["Release"]))
          => Seen = Base)'
    BY CurrentShows, PTL
  <2>2. Seen' = Base' => Repo!Align
    BY <1>1, <1>2 DEF Repo!Align, Base, Seen
  <2>3. QED
    BY <2>1, <2>2
<1>4. CASE PublishRelease /\ ~ Signed
  <2>1. ReleaseCurrent'
    BY <1>4, PublishRelease_Release DEF RepoInv
  <2>2. QED
    BY <1>3, <1>4, <2>1
<1>5. CASE PutInRelease /\ Signed
  <2>1. /\ pc' = "putReleaseGpg"
        /\ ReleaseCurrent' /\ Holds(dist, "InRelease", dist["Release"])'
    BY <1>5 DEF PutInRelease, PublishInv, ReleaseOK
  <2>2. QED
    BY <1>3, <2>1
<1>6. CASE \/ PublishRelease /\ Signed
           \/ PutInRelease /\ ~ Signed
           \/ PutReleaseGpg
  <2> DEFINE key == IF Signed THEN "InRelease" ELSE "Release"
  <2>1. \E k, v : dist' = Put(dist, k, v) /\ k # key
    BY <1>6 DEF PublishRelease, PutInRelease, PutReleaseGpg
  <2>2. /\ key \in DOMAIN dist' <=> key \in DOMAIN dist
        /\ key \in DOMAIN dist => dist'[key] = dist[key]
    BY <2>1, DistEffect
  <2>3. QED
    BY <1>1, <2>2, RepoSame
<1>7. QED
  BY <1>4, <1>5, <1>6

\* An operation that reports that it has published shows what it has written.
LEMMA RepoReturn ==
  ASSUME RepoInv, Return
  PROVE  Repo!Succeed
<1>1. /\ pc = "return" /\ op \in AddOps \cup RemoveOps
      /\ outcome = "running" /\ UNCHANGED <<packages, dist>>
      /\ outcome' = IF op.kind = "remove" /\ removed = {} THEN "unchanged" ELSE "published"
  BY DEF Return, Finish, bucket, RepoInv, BoundInv, WriteInv, OutcomeOK, TypeInv, ControlOK
<1>2. UNCHANGED <<Base, Seen>>
  BY <1>1, RepoSame
<1>3. outcome' = "published" => Base = Seen
  <2>1. outcome' = "published" => ReleaseCurrent /\ (Signed => ReleaseSigned)
    BY <1>1, KindOf DEF Publishes, RepoInv, PublishInv, ReleaseOK
  <2>2. QED
    BY <2>1, CurrentShows DEF ReleaseSigned
<1>4. QED
  BY <1>1, <1>2, <1>3 DEF Repo!Succeed, Base, Seen

LEMMA RepoStep == RepoInv /\ PublishInv' /\ [Next]_vars => [Repo!Next]_(Repo!vars)
<1> SUFFICES ASSUME RepoInv, PublishInv', [Next]_vars
             PROVE  Repo!Next \/ UNCHANGED Repo!vars
  OBVIOUS
<1>1. ASSUME UNCHANGED <<Base, Seen, outcome>> PROVE UNCHANGED Repo!vars
  BY <1>1 DEF Repo!vars, Base, Seen
<1>2. CASE \/ \E o \in AddOps : BeginAdd(o)
           \/ \E o \in RemoveOps : BeginRemove(o)
  <2>1. /\ outcome # "running" /\ outcome' = "running" /\ UNCHANGED <<packages, dist>>
    BY <1>2 DEF BeginAdd, BeginRemove, Start, Admissible, bucket, RepoInv, BoundInv,
       WriteInv, OutcomeOK
  <2>2. UNCHANGED <<Base, Seen>>
    BY <2>1, RepoSame
  <2>3. QED
    BY <2>1, <2>2 DEF Repo!Next, Repo!Begin, Base, Seen
<1>3. CASE \/ Upload \/ UpdateIndex \/ ScanIndex \/ EndScan \/ DeletePoolFile
           \/ PutPackagesGz \/ UNCHANGED vars
  <2>1. UNCHANGED <<packages, dist, outcome>>
    BY <1>3 DEF Upload, UpdateIndex, ScanIndex, EndScan, DeletePoolFile, PutPackagesGz,
       vars, bucket
  <2>2. QED
    BY <1>1, <2>1, RepoSame
<1>4. CASE PutPackages
  BY <1>4, RepoPutPackages DEF Repo!Next
<1>5. CASE PublishRelease \/ PutInRelease \/ PutReleaseGpg
  BY <1>1, <1>5, RepoPublish DEF Repo!Next
<1>6. CASE Return
  BY <1>6, RepoReturn DEF Repo!Next
<1>7. CASE Fail
  <2>1. /\ outcome = "running" /\ outcome' = "failed" /\ UNCHANGED <<packages, dist>>
    BY <1>7 DEF Fail, Finish, bucket, RepoInv, BoundInv, WriteInv, OutcomeOK
  <2>2. UNCHANGED <<Base, Seen>>
    BY <2>1, RepoSame
  <2>3. QED
    BY <2>1, <2>2 DEF Repo!Next, Repo!Fail, Base, Seen
<1>8. QED
  BY <1>2, <1>3, <1>4, <1>5, <1>6, <1>7 DEF Next, Step

\* The publisher implements the abstract repository, whatever is interrupted and
\* whether or not it is run again: a Packages file changes only by one whole
\* addition with retention or one whole removal, apt is shown a new list for all
\* indexes at once, and success is reported only when it is (Add, Remove,
\* updateIndex, publishRelease, signRelease).
THEOREM PublisherImplementsRepository == Spec => ImplementsRepository
<1>1. BoundInv /\ PublishInv => RepoInv
  BY DEF RepoInv
<1>2. QED
  BY <1>1, RepoInit, RepoStep, BoundInvariance, PublishInvariance, PTL
     DEF Spec, ImplementsRepository, Repo!Spec

=============================================================================
