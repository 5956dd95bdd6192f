---------------------------- MODULE AptPublisher ----------------------------
(***************************************************************************)
(* apt.Publisher (internal/apt/apt.go, internal/apt/release.go): one       *)
(* distribution of an apt repository kept as objects in a bucket that has  *)
(* no transactions, and the single writer that adds packages to it and     *)
(* removes them.                                                           *)
(*                                                                         *)
(* Every call that writes an object is a step of its own, so that clients  *)
(* and failures can come between any two of them.  The reads are taken     *)
(* together with the step that uses them, which is sound because the       *)
(* distribution has a single writer (the contract of Add and Remove).      *)
(*                                                                         *)
(* Contents are abstract.  A package file is the build it holds, one build *)
(* standing for the bytes and for their checksums.  A Packages file is the *)
(* set of its stanzas, each with its place in the file.  A Release is the  *)
(* contents whose checksums it lists, and a signature is the Release that  *)
(* it signs.                                                               *)
(***************************************************************************)
EXTENDS Naturals, FiniteSets, ObjectStore, Retention

CONSTANTS
  Components,   \* the components of the distribution
  Within,       \* for every component, those whose directory is its own or below
                \* it: a component may be a path, as main/debug is
  Archs,        \* the architectures of the packages
  Names,        \* the package names
  Versions,     \* the version strings
  Rank,         \* the order of deb.CompareVersions: equal ranks compare as 0
  Builds,       \* the different files that claim the same name and version
  Keep,         \* Config.KeepVersions; 0 keeps all versions
  Signed,       \* whether Config.Signer is set
  FaultyOps,    \* the kinds of operation that may be interrupted
  RetryFirst,   \* whether an interrupted operation is run again before another
  MaxOps,       \* bound: operations started
  MaxFaults,    \* bound: operations interrupted
  None          \* no operation, no index

ASSUME WithinAssumption ==
  /\ Within \in [Components -> SUBSET Components]
  /\ \A c \in Components : c \in Within[c]
ASSUME RankAssumption == Rank \in [Versions -> Nat]
ASSUME KeepAssumption == Keep \in Nat
ASSUME SignedAssumption == Signed \in BOOLEAN
ASSUME FaultAssumption ==
  FaultyOps \subseteq {"add", "remove"} /\ RetryFirst \in BOOLEAN
ASSUME BoundAssumption == MaxOps \in Nat /\ MaxFaults \in Nat

Packages == [name : Names, version : Versions]
Indexes  == [component : Components, arch : Archs]

\* Pool keys, as poolPath makes them: they do not depend on the build.
Paths == [component : Components, arch : Archs, pkg : Packages]

\* Where the file of a package is.
PathOf(i, pkg) == [component |-> i.component, arch |-> i.arch, pkg |-> pkg]

\* A stanza of a Packages file: the package's control fields and the checksums
\* of its file, at its place in the order of the stanzas.
Stanzas == [pkg : Packages, build : Builds, at : Nat]

\* The contents of a Packages file.  A name and version occur at most once.
Contents ==
  {c \in SUBSET Stanzas : /\ IsFiniteSet(c)
                          /\ \A d, e \in c : d.pkg = e.pkg => d = e}

\* A Release names indexes and states their checksums, which stand for contents.
IsRelease(r) ==
  /\ DOMAIN r = {"date", "packages", "packagesGz"}
  /\ r.date \in Nat
  /\ IsStore(r.packages, Indexes, Contents)
  /\ IsStore(r.packagesGz, Indexes, Contents)

DistFiles == {"Release", "InRelease", "Release.gpg"}

AddOps    == [kind : {"add"}, component : Components, arch : Archs,
              pkg : Packages, build : Builds]
RemoveOps == [kind : {"remove"}, component : Components, pkg : Packages]

VARIABLES
  \* the bucket
  pool,         \* the package files
  packages,     \* dists/<dist>/<component>/binary-<arch>/Packages
  packagesGz,   \* the same key with .gz
  dist,         \* dists/<dist>/Release, with the Releases that InRelease and
                \* Release.gpg sign
  \* the operation under way
  pc,           \* the next step, "idle" between operations
  op,           \* the operation and its arguments, the last one when idle
  index,        \* the Packages file being rewritten
  kept,         \* the stanzas to write to it
  doomed,       \* the stanzas whose pool file is still to be deleted
  queue,        \* Remove: the Packages files still to be scanned
  removed,      \* Remove: the Packages files that lost a stanza, none when
                \* the code's counter is 0
  \* what the caller sees, and the bounds
  outcome,      \* how the last operation ended
  acked,        \* the files whose Add succeeded, until an operation sets out to
                \* remove, to replace or to prune them
  ops,          \* operations started, which also tells the time
  faults        \* operations interrupted

bucket == <<pool, packages, packagesGz, dist>>
locals == <<index, kept, doomed, queue, removed>>
vars   == <<bucket, pc, op, locals, outcome, acked, ops, faults>>

-----------------------------------------------------------------------------
(* Add and Remove                                                          *)

\* readPackages: a missing index is empty.
Read(i) == IF i \in DOMAIN packages THEN packages[i] ELSE {}

\* What a caller may start.
Admissible(o) ==
  /\ pc = "idle"
  /\ ops < MaxOps
  /\ RetryFirst /\ outcome = "failed" => o = op

\* An operation begins with its local variables unset.
Start(o, step) ==
  /\ Admissible(o)
  /\ op' = o
  /\ ops' = ops + 1
  /\ outcome' = "running"
  /\ pc' = step
  /\ UNCHANGED <<bucket, index, kept, doomed, removed, faults>>

\* Add has read and parsed the .deb.  A file that does not parse ends Add before
\* it writes anything.
BeginAdd(o) ==
  /\ Start(o, "upload")
  /\ acked' = {f \in acked : f.path # [component |-> o.component, arch |-> o.arch,
                                       pkg |-> o.pkg]}
  /\ UNCHANGED queue

\* The new file replaces one with the same name, version and architecture.
Upload ==
  /\ pc = "upload"
  /\ pc' = "updateIndex"
  /\ index' = [component |-> op.component, arch |-> op.arch]
  /\ pool' = Put(pool, PathOf(index', op.pkg), op.build)
  /\ UNCHANGED <<packages, packagesGz, dist, op, kept, doomed, queue, removed,
                 outcome, acked, ops, faults>>

\* Mutant: the new stanza is appended without taking out the old one.
InsertTwice(c, o) ==
  c \cup {[pkg |-> o.pkg, build |-> o.build, at |-> Cardinality(c) + 1]}

\* Mutant: a stanza of the same name and version is left as it is.
InsertOnce(c, o) ==
  IF \E e \in c : e.pkg = o.pkg THEN c ELSE InsertTwice(c, o)

\* The stanzas of c with the one of o, which replaces a stanza of the same name
\* and version but goes to the end.
Insert(c, o) ==
  {e \in c : e.pkg # o.pkg}
    \cup {[pkg |-> o.pkg, build |-> o.build, at |-> Cardinality(c) + 1]}

\* What retention groups and compares packages by.
GroupOf == [p \in Packages |-> p.name]
AgeOf   == [p \in Packages |-> Rank[p.version]]

\* Mutant: the new version is not counted.
PruneOneMore(c) == IF Keep > 0 THEN Retain(c, Keep + 1, GroupOf, AgeOf) ELSE c

\* What retention leaves of the stanzas of one index.
Prune(c) == IF Keep > 0 THEN Retain(c, Keep, GroupOf, AgeOf) ELSE c

\* Mutant: the pool files of pruned stanzas are forgotten.
SurplusForgotten(c) == {}

\* Mutant: retention goes by the files in the pool and not by the stanzas.
SurplusOfPool(c) ==
  LET versions == {p \in DOMAIN pool : \E e \in c : e.pkg.name = p.pkg.name}
  IN  {[pkg |-> p.pkg, build |-> pool[p], at |-> 1]
         : p \in {q \in versions : \A e \in Prune(c) : e.pkg # q.pkg}}

\* The stanzas that retention takes out.
Surplus(c) == c \ Prune(c)

\* updateIndex up to its first write: read the index, insert, apply retention.
UpdateIndex ==
  /\ pc = "updateIndex"
  /\ pc' = "rewrite"
  /\ kept' = Prune(Insert(Read(index), op))
  /\ doomed' = Surplus(Insert(Read(index), op))
  /\ acked' = {f \in acked : \A e \in doomed' : f.path # PathOf(index, e.pkg)}
  /\ UNCHANGED <<bucket, op, index, queue, removed, outcome, ops, faults>>

\* Mutant: the first architecture with a Packages file is taken for the only one.
IndexesOfFirst(component) ==
  LET all == {i \in DOMAIN packages : i.component \in Within[component]}
  IN  IF all = {} THEN {} ELSE {CHOOSE i \in all : TRUE}

\* The Packages files below the directory of a component.
IndexesOf(component) == {i \in DOMAIN packages : i.component \in Within[component]}

\* Remove lists the Packages files it is going to scan.
BeginRemove(o) ==
  /\ Start(o, "scan")
  /\ queue' = IndexesOf(o.component)
  /\ acked' = {f \in acked : f.path.component # o.component \/ f.path.pkg # o.pkg}

\* Mutant: every version of the package matches.
MatchingName(c, o) == {e \in c : e.pkg.name = o.pkg.name}

\* The stanzas Remove drops from an index.
Matching(c, o) == {e \in c : e.pkg = o.pkg}

\* Remove goes on to the next Packages file, and past it when nothing matches.
ScanIndex ==
  /\ pc = "scan"
  /\ \E i \in queue :
       LET drop == Matching(Read(i), op) IN
       /\ queue' = queue \ {i}
       /\ IF drop = {}
          THEN UNCHANGED <<pc, index, kept, doomed, removed>>
          ELSE /\ pc' = "rewrite"
               /\ index' = i
               /\ kept' = Read(i) \ drop
               /\ doomed' = drop
               /\ removed' = removed \cup {i}
  /\ UNCHANGED <<bucket, op, outcome, acked, ops, faults>>

\* Add deletes the pool files of pruned stanzas, Remove those of the stanzas it
\* drops, both before they write the index.  The order does not matter here.
DeletePoolFile ==
  /\ pc = "rewrite"
  /\ \E e \in doomed :
       /\ pool' = Delete(pool, PathOf(index, e.pkg))
       /\ doomed' = doomed \ {e}
  /\ UNCHANGED <<packages, packagesGz, dist, pc, op, index, kept, queue,
                 removed, outcome, acked, ops, faults>>

\* The file that lists the stanzas of c, in their order and without gaps.
BuildPackages(c) ==
  {[e EXCEPT !.at = Cardinality({d \in c : d.at <= e.at})] : e \in c}

PutPackages ==
  /\ pc = "rewrite"
  /\ doomed = {}
  /\ packages' = Put(packages, index, BuildPackages(kept))
  /\ pc' = "putGz"
  /\ UNCHANGED <<pool, packagesGz, dist, op, locals, outcome, acked, ops, faults>>

\* The last write of an index.  Add rewrites only this one.
PutPackagesGz ==
  /\ pc = "putGz"
  /\ packagesGz' = Put(packagesGz, index, BuildPackages(kept))
  /\ pc' = IF op.kind = "add" THEN "publishRelease" ELSE "scan"
  /\ UNCHANGED <<pool, packages, dist, op, locals, outcome, acked, ops, faults>>

\* Republish if any Packages file changed.
AfterScan == IF removed = {} THEN "return" ELSE "publishRelease"

\* Every Packages file has been scanned.
EndScan ==
  /\ pc = "scan"
  /\ queue = {}
  /\ pc' = AfterScan
  /\ UNCHANGED <<bucket, op, locals, outcome, acked, ops, faults>>

-----------------------------------------------------------------------------
(* publishRelease, signRelease                                             *)

\* Mutant: only the component of the operation is listed.
BuildReleaseOfComponent ==
  LET Of(file) == [i \in {j \in DOMAIN file : j.component = op.component} |-> file[i]]
  IN  [date |-> ops, packages |-> Of(packages), packagesGz |-> Of(packagesGz)]

\* Mutant: only the index that was rewritten last is listed.
BuildReleaseOfIndex ==
  LET Of(file) == [i \in DOMAIN file \cap {index} |-> file[i]]
  IN  [date |-> ops, packages |-> Of(packages), packagesGz |-> Of(packagesGz)]

\* List the distribution and checksum every Packages and Packages.gz there is.
BuildRelease ==
  [date |-> ops, packages |-> packages, packagesGz |-> packagesGz]

\* Mutant: a removal republishes but does not sign again.
AfterReleaseOfAdd ==
  IF Signed /\ op.kind = "add" THEN "putInRelease" ELSE "return"

\* Without a signer the signatures of an earlier run are left alone.
AfterRelease == IF Signed THEN "putInRelease" ELSE "return"

PublishRelease ==
  /\ pc = "publishRelease"
  /\ dist' = Put(dist, "Release", BuildRelease)
  /\ pc' = AfterRelease
  /\ UNCHANGED <<pool, packages, packagesGz, op, locals, outcome, acked, ops,
                 faults>>

\* Both signatures are made from the bytes that were just stored.
PutInRelease ==
  /\ pc = "putInRelease"
  /\ dist' = Put(dist, "InRelease", dist["Release"])
  /\ pc' = "putReleaseGpg"
  /\ UNCHANGED <<pool, packages, packagesGz, op, locals, outcome, acked, ops,
                 faults>>

PutReleaseGpg ==
  /\ pc = "putReleaseGpg"
  /\ dist' = Put(dist, "Release.gpg", dist["Release"])
  /\ pc' = "return"
  /\ UNCHANGED <<pool, packages, packagesGz, op, locals, outcome, acked, ops,
                 faults>>

\* The locals go out of scope.
Finish(result) ==
  /\ pc' = "idle"
  /\ outcome' = result
  /\ index' = None
  /\ kept' = {}
  /\ doomed' = {}
  /\ queue' = {}
  /\ removed' = {}
  /\ UNCHANGED <<bucket, op, ops>>

\* The operation reports success.  Remove returns 0 when nothing matched.
Return ==
  /\ pc = "return"
  /\ Finish(IF op.kind = "remove" /\ removed = {} THEN "unchanged" ELSE "published")
  /\ acked' = IF op.kind = "add" /\ \E e \in kept : e.pkg = op.pkg
              THEN acked \cup {[path |-> PathOf(index, op.pkg), build |-> op.build]}
              ELSE acked
  /\ UNCHANGED faults

\* The operation stops between two steps: a store call or the signer returned an
\* error, which the code passes to its caller at once, or the process died.  A
\* call that took effect although it reported an error is that call's step
\* followed by this one.
Fail ==
  /\ pc # "idle"
  /\ op.kind \in FaultyOps
  /\ faults < MaxFaults
  /\ faults' = faults + 1
  /\ Finish("failed")
  /\ UNCHANGED acked

-----------------------------------------------------------------------------
\* An empty bucket.
Init ==
  /\ pool = Empty
  /\ packages = Empty
  /\ packagesGz = Empty
  /\ dist = Empty
  /\ pc = "idle"
  /\ op = None
  /\ index = None
  /\ kept = {}
  /\ doomed = {}
  /\ queue = {}
  /\ removed = {}
  /\ outcome = "none"
  /\ acked = {}
  /\ ops = 0
  /\ faults = 0

\* The steps of an operation that is not interrupted.
Step ==
  \/ Upload
  \/ UpdateIndex
  \/ ScanIndex
  \/ EndScan
  \/ DeletePoolFile
  \/ PutPackages
  \/ PutPackagesGz
  \/ PublishRelease
  \/ PutInRelease
  \/ PutReleaseGpg
  \/ Return

Next ==
  \/ \E o \in AddOps : BeginAdd(o)
  \/ \E o \in RemoveOps : BeginRemove(o)
  \/ Step
  \/ Fail

Spec == Init /\ [][Next]_vars

-----------------------------------------------------------------------------
(* Properties                                                              *)

Steps == {"idle", "upload", "updateIndex", "scan", "rewrite", "putGz",
          "publishRelease", "putInRelease", "putReleaseGpg", "return"}

\* Every object has the contents its format calls for; above all, whatever is
\* interrupted and retried, no Packages file lists a name and version twice.
TypeOK ==
  /\ IsStore(pool, Paths, Builds)
  /\ IsStore(packages, Indexes, Contents)
  /\ IsStore(packagesGz, Indexes, Contents)
  /\ DOMAIN dist \subseteq DistFiles
  /\ \A k \in DOMAIN dist : IsRelease(dist[k])
  /\ pc \in Steps
  /\ op \in AddOps \cup RemoveOps \cup {None}
  /\ index \in Indexes \cup {None}
  /\ kept \in Contents
  /\ doomed \in Contents
  /\ queue \subseteq Indexes
  /\ removed \subseteq Indexes
  /\ outcome \in {"none", "running", "published", "unchanged", "failed"}
  /\ acked \subseteq [path : Paths, build : Builds]
  /\ ops \in Nat
  /\ faults \in Nat

\* No operation is under way, and the last one reported success.
Settled == pc = "idle" /\ outcome # "failed"

\* Every stanza of an index has its file in the pool, the very build whose
\* checksums it states, and the pool holds no other file.
PoolMatches(i) ==
  /\ \A e \in Read(i) : Holds(pool, PathOf(i, e.pkg), e.build)
  /\ \A pkg \in Packages :
       PathOf(i, pkg) \in DOMAIN pool => \E e \in Read(i) : e.pkg = pkg

\* The Release lists the checksums of the indexes as they are.
ReleaseCurrent ==
  /\ "Release" \in DOMAIN dist
  /\ dist["Release"].packages = packages
  /\ dist["Release"].packagesGz = packagesGz

\* Both signatures are those of the Release.
ReleaseSigned ==
  /\ Holds(dist, "InRelease", dist["Release"])
  /\ Holds(dist, "Release.gpg", dist["Release"])

\* When an operation has reported success, its client finds in the pool exactly
\* what the indexes list: Add and Remove delete files before they rewrite the
\* index, replace files in place and prune, and leave neither a stanza without
\* its file nor a file without its stanza (apt.go, Add, Remove, updateIndex).
PoolMatchesPackages == Settled => \A i \in Indexes : PoolMatches(i)

\* When an operation has reported success, Packages.gz is the compressed
\* Packages, and the Release states the checksums of both, for every component
\* and architecture and not only for the one that was written (publishRelease).
ReleaseMatchesIndexes ==
  Settled /\ DOMAIN packages # {} => packagesGz = packages /\ ReleaseCurrent

\* In a signed repository both signatures are those of the Release that is there,
\* after a removal as after a push (signRelease; newRemoveCmd's comment).
SignaturesMatchRelease ==
  Settled /\ Signed /\ "Release" \in DOMAIN dist => ReleaseSigned

\* Whatever was interrupted before and never retried, an operation that has
\* published leaves a Release that lists the indexes as they are, and is signed.
PublishedReleaseCurrent ==
  pc = "idle" /\ outcome = "published" =>
    /\ ReleaseCurrent
    /\ Signed => ReleaseSigned

\* No Packages file ever lists more than KeepVersions versions of a package,
\* at any step and after any interruption (updateIndex applies retention before
\* it writes).
RetentionBound ==
  Keep > 0 => \A i \in Indexes, n \in Names :
                Cardinality({e \in Read(i) : e.pkg.name = n}) <= Keep

\* What Add has published stays: its file is in the pool and its stanza in the
\* index, at every step of every later operation and whatever of them fails, until
\* an operation sets out to remove it, to replace it or to prune it.
AckedStays ==
  \A f \in acked :
    /\ Holds(pool, f.path, f.build)
    /\ \E i \in Indexes : \E e \in Read(i) :
         PathOf(i, e.pkg) = f.path /\ e.build = f.build

\* The files of the same package and architecture as p, as new as p or newer.
NewerFiles(p) ==
  {q \in DOMAIN pool : /\ q.component = p.component
                       /\ q.arch = p.arch
                       /\ q.pkg.name = p.pkg.name
                       /\ Rank[q.pkg.version] >= Rank[p.pkg.version]}

\* A file is deleted only because Remove names it, or by Add while Keep other
\* versions of its package, none of them older, stay in the pool (updateIndex).
DeletesOnlySurplus ==
  [][\A p \in DOMAIN pool \ DOMAIN pool' :
       \/ op.kind = "remove" /\ p.component = op.component /\ p.pkg = op.pkg
       \/ op.kind = "add" /\ Keep > 0 /\ Cardinality(NewerFiles(p) \ {p}) >= Keep]_vars

\* Remove deletes the files of its component and of no other (Remove's comment,
\* internal/apt/apt.go:122).
RemoveStaysInComponent ==
  [][\A p \in DOMAIN pool \ DOMAIN pool' :
       op.kind = "remove" => p.component = op.component]_vars

\* Removal is idempotent (logRemoved's comment, internal/cli/remove.go:138): an
\* operator may run it again after an error, and once it succeeds the indexes,
\* compressed and not, are those the Release lists.
RemovalIdempotent ==
  Settled /\ outcome # "none" /\ op.kind = "remove" /\ DOMAIN packages # {} =>
    packagesGz = packages /\ ReleaseCurrent

=============================================================================
