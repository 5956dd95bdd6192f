---------------------------- MODULE YumPublisher ----------------------------
(***************************************************************************)
(* yum.Publisher (internal/yum/yum.go, internal/yum/metadata.go): a yum    *)
(* repository kept as objects in a bucket that has no transactions, and    *)
(* the single writer that adds packages to it and removes them.            *)
(*                                                                         *)
(* dnf reads repodata/repomd.xml, which names three metadata files by      *)
(* their checksums, and from those finds the packages.  The publisher      *)
(* itself reads only its own manifest, repodata/repohost-state.json.       *)
(*                                                                         *)
(* Every call that writes an object is a step of its own; the reads are    *)
(* taken together with the step that uses them (single writer).            *)
(*                                                                         *)
(* Contents are abstract.  An .rpm is its package and a build, which       *)
(* stands for its bytes and checksum.  A metadata file is its type and the *)
(* list of packages it renders, which is also what its content-addressed   *)
(* name tells apart; such a list is the set of its entries, each with its  *)
(* place among those of the same name and architecture.                    *)
(***************************************************************************)
EXTENDS Naturals, FiniteSets, ObjectStore, Retention

CONSTANTS
  Names,        \* the package names
  Archs,        \* the architectures
  Evrs,         \* records with epoch, version and release
  Rank,         \* the order of rpm.CompareVersions: equal ranks compare as 0
  Builds,       \* the different files of the same package
  Keep,         \* Config.KeepVersions; 0 keeps all versions
  Signed,       \* whether Config.Signer is set
  FaultyOps,    \* the kinds of operation that may be interrupted
  RetryFirst,   \* whether an interrupted operation is run again before another
  MaxOps,       \* bound: operations started
  MaxFaults,    \* bound: operations interrupted
  None          \* no repomd.xml, no signature, no operation

ASSUME RankAssumption == Rank \in [Evrs -> Nat]
ASSUME KeepAssumption == Keep \in Nat
ASSUME SignedAssumption == Signed \in BOOLEAN
ASSUME FaultAssumption ==
  FaultyOps \subseteq {"add", "remove"} /\ RetryFirst \in BOOLEAN
ASSUME BoundAssumption == MaxOps \in Nat /\ MaxFaults \in Nat

Packages == [name : Names, evr : Evrs, arch : Archs]

\* poolPath: the name of an .rpm leaves out the epoch.
LocationOf(pkg) == [name    |-> pkg.name,
                    version |-> pkg.evr.version,
                    release |-> pkg.evr.release,
                    arch    |-> pkg.arch]
Locations == {LocationOf(pkg) : pkg \in Packages}

\* The bytes of an .rpm, its epoch among them.
Rpms == [pkg : Packages, build : Builds]
RpmOf(e) == [pkg |-> e.pkg, build |-> e.build]

\* packageEntry, at its place in the manifest.
Entries == [pkg : Packages, build : Builds, at : Nat]

\* The contents of a manifest.  A location occurs at most once.
Contents ==
  {c \in SUBSET Entries :
     /\ IsFiniteSet(c)
     /\ \A d, e \in c : LocationOf(d.pkg) = LocationOf(e.pkg) => d = e}

Types     == {"primary", "filelists", "other"}
MetaFiles == [type : Types, entries : Contents]

\* repomd.xml names one file of every type, all written by the same publish.
Repomds == [revision : Nat, entries : Contents]
Refs(r) == [type : Types, entries : {r.entries}]

ASSUME NoneAssumption == None \notin Repomds

AddOps    == [kind : {"add"}, pkg : Packages, build : Builds]
RemoveOps == [kind : {"remove"}, name : Names, version : {v.version : v \in Evrs}]

VARIABLES
  \* the bucket
  rpms,         \* the package files
  metas,        \* the metadata files there are
  repomd,       \* repodata/repomd.xml
  repomdAsc,    \* repodata/repomd.xml.asc, the repomd.xml that it signs
  manifest,     \* repodata/repohost-state.json; a missing one counts as empty
  \* the operation under way
  pc,           \* the next step, "idle" between operations
  op,           \* the operation and its arguments, the last one when idle
  entries,      \* the packages to publish
  doomed,       \* the entries whose .rpm is still to be deleted
  \* what the caller sees, and the bounds
  outcome,      \* how the last operation ended
  acked,        \* the files whose Add succeeded, until an operation sets out to
                \* remove, to replace or to prune them
  ops,          \* operations started, which also tells the time
  faults        \* operations interrupted

bucket == <<rpms, metas, repomd, repomdAsc, manifest>>
vars   == <<bucket, pc, op, entries, doomed, outcome, acked, ops, faults>>

-----------------------------------------------------------------------------
(* Add and Remove                                                          *)

Admissible(o) ==
  /\ pc = "idle"
  /\ ops < MaxOps
  /\ RetryFirst /\ outcome = "failed" => o = op

Start(o, step) ==
  /\ Admissible(o)
  /\ op' = o
  /\ ops' = ops + 1
  /\ outcome' = "running"
  /\ pc' = step
  /\ UNCHANGED <<bucket, entries, doomed, faults>>

\* Add has read and parsed the .rpm.  A file that does not parse ends Add before
\* it writes anything.
BeginAdd(o) ==
  /\ Start(o, "upload")
  /\ acked' = {f \in acked : LocationOf(f.pkg) # LocationOf(o.pkg)}

Upload ==
  /\ pc = "upload"
  /\ pc' = "updateState"
  /\ rpms' = Put(rpms, LocationOf(op.pkg), RpmOf(op))
  /\ UNCHANGED <<metas, repomd, repomdAsc, manifest, op, entries, doomed, outcome,
                 acked, ops, faults>>

\* Mutant: the entry of a rebuilt package is appended beside the old one.
AppendOnly(c, o) ==
  c \cup {[pkg |-> o.pkg, build |-> o.build, at |-> Cardinality(c) + 1]}

\* The entries of c with the one of o at the end, in place of one with the same
\* location.
ReplaceOrAppend(c, o) ==
  {e \in c : LocationOf(e.pkg) # LocationOf(o.pkg)}
    \cup {[pkg |-> o.pkg, build |-> o.build, at |-> Cardinality(c) + 1]}

\* What retention groups and compares packages by.
GroupOf == [p \in Packages |-> <<p.name, p.arch>>]
AgeOf   == [p \in Packages |-> Rank[p.evr]]

\* Mutant: the new version is not counted.
PruneOneMore(c) == IF Keep > 0 THEN Retain(c, Keep + 1, GroupOf, AgeOf) ELSE c

\* What retention leaves.
Prune(c) == IF Keep > 0 THEN Retain(c, Keep, GroupOf, AgeOf) ELSE c

\* Mutant: the files of pruned packages are forgotten.
SurplusForgotten(c) == {}

\* The entries that retention takes out.
Surplus(c) == c \ Prune(c)

\* Add: load the manifest, insert the package, apply retention.
UpdateState ==
  /\ pc = "updateState"
  /\ pc' = "rewrite"
  /\ entries' = Prune(ReplaceOrAppend(manifest, op))
  /\ doomed' = Surplus(ReplaceOrAppend(manifest, op))
  /\ acked' = {f \in acked : \A e \in doomed' : LocationOf(f.pkg) # LocationOf(e.pkg)}
  /\ UNCHANGED <<bucket, op, outcome, ops, faults>>

\* Remove takes every release and architecture of a version.
Named(pkg, o) == pkg.name = o.name /\ pkg.evr.version = o.version

BeginRemove(o) ==
  /\ Start(o, "dropVersion")
  /\ acked' = {f \in acked : ~Named(f.pkg, o)}

\* Mutant: the first package that matches is taken for the only one.
MatchingFirst(c, o) ==
  LET all == {e \in c : Named(e.pkg, o)}
  IN  IF all = {} THEN {} ELSE {CHOOSE e \in all : TRUE}

\* Mutant: every version of the package matches.
MatchingName(c, o) == {e \in c : e.pkg.name = o.name}

\* The entries Remove drops.
Matching(c, o) == {e \in c : Named(e.pkg, o)}

\* The locals go out of scope.
Finish(result) ==
  /\ pc' = "idle"
  /\ outcome' = result
  /\ entries' = {}
  /\ doomed' = {}
  /\ UNCHANGED <<bucket, op, ops>>

\* Remove: load the manifest and split it; without a match it returns 0.
DropVersion ==
  /\ pc = "dropVersion"
  /\ Matching(manifest, op) # {}
  /\ pc' = "rewrite"
  /\ doomed' = Matching(manifest, op)
  /\ entries' = manifest \ doomed'
  /\ UNCHANGED <<bucket, op, outcome, acked, ops, faults>>

NothingToDrop ==
  /\ pc = "dropVersion"
  /\ Matching(manifest, op) = {}
  /\ Finish("unchanged")
  /\ UNCHANGED <<acked, faults>>

\* Add deletes the files of pruned packages, Remove those it drops, both before
\* any metadata is written.
DeleteRpm ==
  /\ pc = "rewrite"
  /\ \E e \in doomed :
       /\ rpms' = Delete(rpms, LocationOf(e.pkg))
       /\ doomed' = doomed \ {e}
  /\ UNCHANGED <<metas, repomd, repomdAsc, manifest, pc, op, entries, outcome,
                 acked, ops, faults>>

-----------------------------------------------------------------------------
(* publish                                                                 *)

SameGroup(d, e) == d.pkg.name = e.pkg.name /\ d.pkg.arch = e.pkg.arch

\* The places that sorting by name, architecture and version may give to the
\* entries of c.  slices.SortFunc is not stable, so packages that compare as
\* equal come out in any order.
Places(c) ==
  {f \in [c -> 1 .. Cardinality(c)] :
     \A d \in c :
       /\ f[d] <= Cardinality({e \in c : SameGroup(d, e)})
       /\ \A e \in c \ {d} : SameGroup(d, e) =>
            /\ f[d] # f[e]
            /\ Rank[d.pkg.evr] < Rank[e.pkg.evr] => f[d] < f[e]}

SortEntries ==
  /\ pc = "rewrite"
  /\ doomed = {}
  /\ pc' = "primary"
  /\ \E f \in Places(entries) : entries' = {[e EXCEPT !.at = f[e]] : e \in entries}
  /\ UNCHANGED <<bucket, op, doomed, outcome, acked, ops, faults>>

\* The order in which publish writes the metadata files.
AfterMeta(type) ==
  CASE type = "primary"   -> "filelists"
    [] type = "filelists" -> "other"
    [] type = "other"     -> "repomd"

\* writeMeta: content-addressed, so that it replaces only an equal file.
WriteMeta ==
  /\ pc \in Types
  /\ metas' = metas \cup {[type |-> pc, entries |-> entries]}
  /\ pc' = AfterMeta(pc)
  /\ UNCHANGED <<rpms, repomd, repomdAsc, manifest, op, entries, doomed, outcome,
                 acked, ops, faults>>

\* Mutant: a removal republishes but does not sign again.
AfterRepomdOfAdd == IF Signed /\ op.kind = "add" THEN "sign" ELSE "saveState"

\* Without a signer the signature of an earlier run is left alone.
AfterRepomd == IF Signed THEN "sign" ELSE "saveState"

PutRepomd ==
  /\ pc = "repomd"
  /\ repomd' = [revision |-> ops, entries |-> entries]
  /\ pc' = AfterRepomd
  /\ UNCHANGED <<rpms, metas, repomdAsc, manifest, op, entries, doomed, outcome,
                 acked, ops, faults>>

\* signRepomd signs the bytes that were just stored.
SignRepomd ==
  /\ pc = "sign"
  /\ repomdAsc' = repomd
  /\ pc' = "saveState"
  /\ UNCHANGED <<rpms, metas, repomd, manifest, op, entries, doomed, outcome,
                 acked, ops, faults>>

\* Mutant: a removal does not save the manifest.
SaveStateOfAdd ==
  /\ pc = "saveState"
  /\ manifest' = IF op.kind = "add" THEN entries ELSE manifest
  /\ pc' = "cleanup"
  /\ UNCHANGED <<rpms, metas, repomd, repomdAsc, op, entries, doomed, outcome,
                 acked, ops, faults>>

SaveState ==
  /\ pc = "saveState"
  /\ manifest' = entries
  /\ pc' = "cleanup"
  /\ UNCHANGED <<rpms, metas, repomd, repomdAsc, op, entries, doomed, outcome,
                 acked, ops, faults>>

\* Mutant: only the primary file of this publish is kept.
StaleTypes == {m \in metas : m.type # "primary" \/ m.entries # entries}

\* Mutant: only files of the type written last are looked at.
StaleOther == {m \in metas : m.type = "other" /\ m.entries # entries}

\* The metadata files that are not those of this publish.
Stale == {m \in metas : m.entries # entries}

CleanupMetadata ==
  /\ pc = "cleanup"
  /\ \E m \in Stale : metas' = metas \ {m}
  /\ UNCHANGED <<rpms, repomd, repomdAsc, manifest, pc, op, entries, doomed, outcome,
                 acked, ops, faults>>

\* The operation has published, and reports success.  Retention may have taken
\* out the very package that was added.
Return ==
  /\ pc = "cleanup"
  /\ Stale = {}
  /\ Finish("published")
  /\ acked' = IF op.kind = "add" /\ \E e \in entries : e.pkg = op.pkg
              THEN acked \cup {RpmOf(op)}
              ELSE acked
  /\ UNCHANGED faults

\* The operation stops between two steps: a store call or the signer returned an
\* error, which the code passes to its caller at once, or the process died.  A
\* call that took effect although it reported an error is that call's step
\* followed by this one.
Fail ==
  /\ pc # "idle"
  /\ op.kind \in FaultyOps
  /\ faults < MaxFaults
  /\ faults' = faults + 1
  /\ Finish("failed")
  /\ UNCHANGED acked

-----------------------------------------------------------------------------
\* An empty bucket.
Init ==
  /\ rpms = Empty
  /\ metas = {}
  /\ repomd = None
  /\ repomdAsc = None
  /\ manifest = {}
  /\ pc = "idle"
  /\ op = None
  /\ entries = {}
  /\ doomed = {}
  /\ outcome = "none"
  /\ acked = {}
  /\ ops = 0
  /\ faults = 0

\* The steps of an operation that is not interrupted.
Step ==
  \/ Upload
  \/ UpdateState
  \/ DropVersion
  \/ NothingToDrop
  \/ DeleteRpm
  \/ SortEntries
  \/ WriteMeta
  \/ PutRepomd
  \/ SignRepomd
  \/ SaveState
  \/ CleanupMetadata
  \/ Return

Next ==
  \/ \E o \in AddOps : BeginAdd(o)
  \/ \E o \in RemoveOps : BeginRemove(o)
  \/ Step
  \/ Fail

Spec == Init /\ [][Next]_vars

-----------------------------------------------------------------------------
(* Properties                                                              *)

Steps == {"idle", "upload", "updateState", "dropVersion", "rewrite", "repomd",
          "sign", "saveState", "cleanup"} \cup Types

\* Every object has the contents its format calls for; above all, no metadata
\* file and no manifest names a location twice.
TypeOK ==
  /\ IsStore(rpms, Locations, Rpms)
  /\ metas \subseteq MetaFiles
  /\ {repomd, repomdAsc} \subseteq Repomds \cup {None}
  /\ manifest \in Contents
  /\ pc \in Steps
  /\ op \in AddOps \cup RemoveOps \cup {None}
  /\ entries \in Contents
  /\ doomed \in Contents
  /\ outcome \in {"none", "running", "published", "unchanged", "failed"}
  /\ acked \subseteq Rpms
  /\ ops \in Nat
  /\ faults \in Nat

\* The packages of a manifest or of a metadata file.
RpmsOf(c) == {RpmOf(e) : e \in c}

\* The packages dnf finds.
Listed == IF repomd = None THEN {} ELSE repomd.entries

\* No operation is under way, and the last one reported success.
Settled == pc = "idle" /\ outcome # "failed"

\* At every step, and whatever was interrupted before, the metadata files that
\* repomd.xml names are there: publish writes them first and deletes old ones
\* last (publish, cleanupMetadata).
RepomdRefsExist == repomd # None => Refs(repomd) \subseteq metas

\* When an operation has reported success, dnf finds the very files that the
\* metadata describe, and there are no others, although files are deleted before
\* the metadata are rewritten and are replaced in place (Add, Remove).
RpmsMatchRepomd ==
  Settled => RpmsOf(Listed) = {rpms[l] : l \in DOMAIN rpms}

\* When an operation has reported success, the manifest that the next operation
\* starts from is what dnf sees, although an interruption can leave it behind
\* (publish writes repomd.xml first, the manifest later).
ManifestMatchesRepomd == Settled => manifest = Listed

\* In a signed repository the signature is that of the repomd.xml that is there,
\* after a removal as after a push (signRepomd; newRemoveCmd's comment).
SignatureMatchesRepomd == Settled /\ Signed => repomdAsc = repomd

\* Whatever was interrupted before and never retried, an operation that has
\* published leaves the metadata files of repomd.xml and no others, a manifest
\* that agrees with it, and a signature for it.
PublishedStateComplete ==
  pc = "idle" /\ outcome = "published" =>
    /\ repomd # None
    /\ metas = Refs(repomd)
    /\ manifest = repomd.entries
    /\ Signed => repomdAsc = repomd

\* dnf is never shown more than KeepVersions versions of a package and
\* architecture, at any step and after any interruption.
RetentionBound ==
  Keep > 0 => \A n \in Names, a \in Archs :
                Cardinality({e \in Listed : e.pkg.name = n /\ e.pkg.arch = a}) <= Keep

\* A successful Remove has taken every release and architecture of the version:
\* dnf does not see it and no file of it is left (Remove's comment).
RemovedIsGone ==
  Settled /\ outcome # "none" /\ op.kind = "remove" =>
    /\ \A e \in Listed : ~Named(e.pkg, op)
    /\ \A l \in DOMAIN rpms : ~(l.name = op.name /\ l.version = op.version)

\* What Add has published stays: its file is there and dnf sees it, at every
\* step of every later operation and whatever of them fails, until an operation
\* sets out to remove it, to replace it or to prune it.
AckedStays ==
  \A f \in acked : Holds(rpms, LocationOf(f.pkg), f) /\ f \in RpmsOf(Listed)

\* The packages of p's name and architecture that are there, as new or newer.
NewerRpms(p) ==
  {f \in {rpms[l] : l \in DOMAIN rpms} :
     /\ f.pkg.name = p.name
     /\ f.pkg.arch = p.arch
     /\ Rank[f.pkg.evr] >= Rank[p.evr]}

\* A file is deleted only because Remove names it, or by Add while Keep other
\* versions of its package, none of them older, stay there (Add).
DeletesOnlySurplus ==
  [][\A l \in DOMAIN rpms \ DOMAIN rpms' :
       \/ op.kind = "remove" /\ Named(rpms[l].pkg, op)
       \/ /\ op.kind = "add"
          /\ Keep > 0
          /\ Cardinality(NewerRpms(rpms[l].pkg) \ {rpms[l]}) >= Keep]_vars

=============================================================================
