# repohost, verified: TLA+ models of package repositories on object storage

repohost publishes Debian (apt) and RPM (yum) repositories as plain objects in
an S3 or GCS bucket. There is no server, no database and no transaction: an
operation is a sequence of object writes and deletes, which a network error, a
signing error or a killed CI job may cut short after any of them, and which
clients may see half done. The models say what holds between those writes and
after an interruption; the model checker checks it on small repositories, the
proof system proves most of it for all.

## The system

| part | source | state | operations |
|---|---|---|---|
| apt publisher | `internal/apt/apt.go` | pool files, `Packages`, `Packages.gz` | `Add`, `Remove`, both through reads and writes of the indexes |
| apt Release | `internal/apt/release.go` | `Release`, `InRelease`, `Release.gpg` | `publishRelease`, `signRelease` |
| yum publisher | `internal/yum/yum.go` | `.rpm` files, metadata files, `repomd.xml`, its signature, the private manifest | `Add`, `Remove`, `publish`, `cleanupMetadata` |
| yum documents | `internal/yum/metadata.go` | none | rendering of packages as XML |
| retention | `internal/retention` | none | `Prune` |
| version orders | `internal/deb/version.go`, `internal/rpm/version.go` | none | `CompareVersions` |
| package parsing | `internal/deb`, `internal/rpm` | none | `ParseDeb`, `ParseControlFile`, `FormatStanza`, `ParseRPM` |
| object store | `internal/storage` and its two adapters | the bucket | `Put`, `Get`, `Delete`, `List` |
| signing | `internal/sign`, `pgp` | a key | `ClearSign`, `DetachSign` |
| command line | `internal/cli` | none | `push deb`, `push rpm`, `rm deb`, `rm rpm` |

The command line makes a publisher from its flags and calls `Add` for every
file, or `Remove` once. A publisher calls the parser, the store, retention
(which calls a version order) and the signer; everything it knows between two
operations is in the bucket. The only concurrency is that of clients, which
read at any time, of the writers of other distributions in the same bucket, and
of a second writer, which the package comments of `apt` and `yum` rule out.

What is hard here:

* **partial failure**: files are deleted before the index that lists them is
  rewritten, and replaced before the index states their new checksum;
* **running again**: the remedy for an interruption is to run the command
  again, which starts from what the first run left behind and must find the
  work that is left;
* **order of writes**: `repomd.xml` before or after the files it names, the
  manifest before or after `repomd.xml`, signatures after what they sign,
  clean-up last;
* **what clients see meanwhile**: apt and dnf read one object after the other,
  and an operation rewrites or deletes some of them in between;
* **breadth**: a `Release` covers all components and architectures, a removal
  covers all architectures of one component;
* **commands**: `push` publishes several files one by one and may stop at any of
  them, a file may vanish, and a command need not be given the signing key that
  the last one had;
* **text**: every operation reads all stanzas of a `Packages` file and writes
  them back; versions are compared through strings;
* **limits and ties** in retention, among them versions that differ as strings
  and compare as equal, and packages that differ in their epoch and share a
  file name.

`PROJECT.json` lists each hazard at its line, with the properties that would
catch it.

## Modules

**`ObjectStore`** is `storage.Store`: a function from keys to contents, with
`Put`, `Delete` and, for `Get`, application. `List` is its domain.

**`Retention`** is `retention.Prune` as an operator. The slice becomes the set
of its items, each with its place `at`; the stable sort of a group, newest
first, becomes the relation `Newer`, and `Retain` keeps an item when fewer than
`keep` packages of its group come before it.

**`AptPublisher`** is one distribution. Its variables are the objects of the
bucket (`pool`, `packages`, `packagesGz`, `dist`), the locals of the operation
under way, with `pc` for where it is, and what the caller sees (`outcome`,
`acked`). Contents are abstract: a pool file is a build, a `Packages` file the
set of its stanzas with their places, a `Release` the contents whose checksums
it states, a signature the `Release` it signs.

| action | code |
|---|---|
| `BeginAdd`, `Upload` | `Add` up to its first `Put` |
| `UpdateIndex` | `updateIndex`: read, insert, `Prune` |
| `BeginRemove`, `ScanIndex`, `EndScan` | the loop of `Remove` over the indexes of a component |
| `DeletePoolFile` | the delete loops of `updateIndex` and of `Remove` |
| `PutPackages`, `PutPackagesGz` | the two writes of an index |
| `PublishRelease`, `PutInRelease`, `PutReleaseGpg` | `publishRelease`, `signRelease` |
| `Return` | success |
| `Fail` | any error return, or the death of the process, between two steps |

**`YumPublisher`** has the same shape, with `rpms`, `metas`, `repomd`,
`repomdAsc` and `manifest`. A metadata file is its type and the packages it
renders, which is also what its content-addressed name tells apart. `WriteMeta`
is one of the three `writeMeta` calls, told apart by `pc`; `SortEntries` is the
sort of `publish`, which is not stable, so that packages that compare as equal
come out in any order; `CleanupMetadata` deletes one stale file.

**`MCAptPublisher`**, **`MCYumPublisher`** give the instances for the model
checker: version orders with ties, and which components nest.

**`Repository`** is what a publisher promises, with no objects in it: a list of
files for every part of the repository, and a change is one whole addition, with
retention, or one whole removal. There are two records of a part, `base`, which
the next change starts from, and `shown`, which clients see; `Change` changes
one of them, `Align` brings the other into line, `Succeed` says "published"
only when they are equal, and `Fail` may come at any time.
**`AptRepository`** and **`YumRepository`** are the refinement mappings. For apt
a part is an index, `base` its `Packages` file and `shown` what the last
`InRelease` (or `Release`) states of it: the index is changed first and shown
later, all indexes at once. For yum there is one part, `shown` is what
`repomd.xml` lists and `base` the manifest: the change is shown first and
recorded later. So clients are shown no half of a change to a part: an operation
that is interrupted and never run again has changed each part as a whole or not
at all, though a removal may have got to some architectures only.

**`AptClients`** adds a client to the apt publisher: `BeginUpdate` reads
`InRelease` or `Release`, and `TakePlain`, `TakeCompressed` take an index if it
is the one whose checksum was listed; `MismatchPlain`, `MismatchCompressed` end
the update otherwise, and the client keeps the lists it had. **`YumClients`** adds one to
the yum publisher: `BeginRefresh` reads `repomd.xml`, `CheckSignature` its
signature, `ReadMetadata` one of the three files it names; `BadSignature` and
`MetadataGone` end a refresh. Any steps of the publisher come in between.
The clients are not code of the repository, and are modelled as the README's
client setup uses them.

**`CommandLine`** adds `push deb` and `rm deb` to the apt publisher: `Run` is
the operator's, `CheckFlags`, `CheckFiles`, `DryRun`, `Setup` are what a command
does before it calls the publisher, `CallAdd` and `AddReturned` the loop over the
files, `BadFile` a file that is gone or does not parse, `LoseFile` the disk, and
`Kill` the death of the process between two calls (`Fail` is its death within
one). `Run` lets the operator do anything, but a command that was interrupted
while it wrote is run again. `push rpm` and `rm rpm` have the same steps.

**`AptSigningKey`** has two kinds of commands on one repository, those that were
given the signing key and those that were not: two instances of `AptPublisher`
on the same variables, with different values of `Signed`.

**`Distributions`** has two instances of `AptPublisher` with one `pool` and
everything else apart, each with its own writer and its own packages
(`Packages` and `Other!Packages`), of which they may have some in common: such a
package is one key of the pool.

**`ControlText`** is `internal/deb/control.go` and `buildPackages`, on texts as
sequences of bytes: lines, paragraphs, fields. A space stands for all that
`ParseControl` takes for one, a tab at the start of a line included. **`ArArchive`** is `readAr`, with
two cells for a header. **`RetentionList`** is `Prune` on slices of indexes, as it
is written. **`S3Store`** is `List`, with the pages that S3 returns left open.

**`DebVersion`**, **`RpmVersion`** are the two version orders, on strings as
sequences of bytes (**`VersionText`** has what both read them with). A round of a
Go loop is a recursive call on what is left of both strings. `DebVersion` has
`CompareVersions` with `split` and an int that wraps around (`MaxInt`);
`RpmVersion` has `EVR`, `CompareVersions` with `splitEVR`, and `vercmp`.
`PolicyKey` and `TokenKey` are references: each turns one string into a list of
numbers, without looking at the other string, so that the order of the lists is a
total preorder by itself: agreement with it is what makes the comparison one
that versions can be sorted by.

**`MCFunctions`** checks the pure functions. It chooses one of them (`subject`) and grows
two sequences to all pairs up to the subject's bounds; each invariant compares a
function with a definition that is written in another way.

**`MCAptClients`**, **`MCYumClients`**, **`MCCommandLine`**, **`MCAptSigningKey`**,
**`MCDistributions`** are instances for the model checker, as `MCAptPublisher` is.

**`RetentionProofs`**, **`AptPublisherProofs`**, **`AptRepositoryProofs`**,
**`DistributionsProofs`**, **`AptClientsProofs`**, **`YumPublisherProofs`**,
**`YumRepositoryProofs`** and **`CommandLineProofs`** hold the theorems, each about the
module it is named after and those that one extends; `YumRepositoryProofs` also
those about `YumClients`.

Every call that writes an object is a step of its own. Reads are taken together
with the step that uses them: the single writer changes nothing in between. The
order in which one loop deletes several files is left open, which allows more
behaviours than the code has. A call that took effect and still reported an
error is its step followed by `Fail`. The time of a `Release` and the revision
of a `repomd.xml` are the number of the operation.

Definitions marked `Mutant` are not part of a model. Each is a plausible bug in
the definition that follows it, and `PROJECT.json` says which property finds it.

## Runs

| run | instance | shows |
|---|---|---|
| `AptRetryAdd` | 2 components, 2 packages, 3 versions (two of them equal in order), 2 builds, keep 2, 4 operations, 2 interruptions of `Add`, each followed by the same `Add` | every operation that succeeds leaves pool, indexes, Release and signatures in agreement (`PoolMatchesPackages`, `ReleaseMatchesIndexes`, `SignaturesMatchRelease`), so running `Add` again repairs everything, and deletes surplus versions only (`DeletesOnlySurplus`) |
| `AptFaults` | 2 architectures, keep 2, 4 operations, 2 interruptions of anything, nothing need be run again | `AckedStays`, `RetentionBound`, `PublishedReleaseCurrent`; the refinement `ImplementsRepository` |
| `AptClients` | 1 client, 2 architectures, 2 versions, keep 1, 3 operations, 2 interruptions, fairness | an update fails only while something is being written or was left unfinished, or with a `Release` that has been replaced (`UpdatesFailInTransit`); one that succeeds knows all that was published when it began (`UpdatesSeePublished`); in the end the client has the repository as it is (`ClientsCatchUp`) |
| `AptRemoveIdempotent` | 5 operations, 1 interruption of `Remove`, then the same `Remove` | a violation, see Findings |
| `AptNested` | a component in the directory of another, 3 operations | a violation, see Findings |
| `RmWithoutKey` | pushes with the key, removals without, 4 operations | a violation, see Findings |
| `Distributions` | 2 distributions with 2 versions of one package each, one of them common to both, keep 1, 2 builds, 3 operations and 1 interruption of anything in each, all interleavings | of a package that only one has, the pool holds what that one lists (`BothPoolsMatch`), and at every step what it has published (`BothAckedStay`); no file stays in the pool that neither lists (`PoolIsListed`) |
| `Push` | 3 commands, pushes of up to 2 files, 3 versions, 2 architectures, keep 1, 1 death anywhere, files that vanish or are no packages | however a push ends, the files before the one it stopped at are published (`PrefixPublished`); a command that fails without an interruption leaves nothing half done (`FailsCleanly`); a push that is run again until it succeeds leaves the indexes of one that did not fail (`RerunCompletes`) and a repository that agrees (`RerunAgrees`); such an `rm` has taken the version and no more (`RmRemoves`) |
| `YumRetry` | 2 architectures, 4 versions (two equal in order, two that share a file name), interruptions of anything, followed by the same operation | files, metadata, manifest and signature agree after every success (`RpmsMatchRepomd`, `ManifestMatchesRepomd`, `SignatureMatchesRepomd`, `RemovedIsGone`, `DeletesOnlySurplus`) |
| `YumFaults` | interruptions of anything, nothing need be run again | `RepomdRefsExist`, `AckedStays`, `RetentionBound`, `PublishedStateComplete`; the refinement `ImplementsRepository` |
| `YumClients` | 1 client, 2 versions, keep 1, 3 operations, 1 interruption, fairness | a metadata file is missing only for a client with an old `repomd.xml` (`RefreshesFailInTransit`); `RefreshesSeePublished` and `ClientsCatchUp` as for apt |
| `Functions` | see below | `AgreesWithPolicy`, `AgreesWithTokens`, `IndexRoundTrips`, `NoMemberIsCut`, `PruneFollowsPolicy`, `ListMissesNothing` |

What the invariants of `Functions` compare, and up to which bounds:

* `AgreesWithPolicy`: `deb.CompareVersions` with the order of Debian Policy, on
  all pairs of strings of up to 3 and together up to 5 of 8 characters, as long as the difference of
  the epochs is an int. With a `MaxInt` of 15 the strings have epochs that are no
  int (`88:`), and epochs that lie too far apart, which the invariant leaves
  out: the difference of `8:` and `-8:` wraps around to the smallest int, so
  that each of the two sorts before the other. With 64 bits such epochs differ by
  2^63 or more, and no sensible package has one. `rpm.CompareVersions` has the same line
  and is safe, since `EVR` prints a 32-bit epoch.
* `AgreesWithTokens`: `rpm.CompareVersions` of two strings made by `EVR` with the
  order of epochs, then versions, then releases as lists of tokens; on the
  same pairs of strings as versions and as releases.
* `IndexRoundTrips`: every control file of up to 7 characters that `Add` accepts,
  with a field added, written as a `Packages` file of one and of two stanzas and
  read again. A line that ends in two CRs loses one of them each time it is
  written and read, and is left out: `splitLines` takes one off.
* `NoMemberIsCut`: an archive of two members of up to 3 bytes each, some of them
  bytes of a header, cut off anywhere. A cut between two members goes
  unnoticed, so a `.deb` that lacks its `data.tar` is accepted. The magic string
  before the first member is not modelled, and bytes that `ReadAr` ignores after
  the last one do not occur in these archives.
* `PruneFollowsPolicy`: slices of up to 5 items in 2 groups with 3 ages, and 0 to
  3 to keep, against `Retain`, which the publishers' models use.
* `ListMissesNothing`: up to 6 keys, pages of 0 to 2 keys, and up to 4 writes of
  others between the pages.

The `.cfg` files have the exact values.

**Why the bounds are enough.** A hazard here takes one operation that sets the
scene or two (something published, something to prune), one that is
interrupted, and one that runs into what it left: four operations and two
interruptions hold all of these, with an interruption of the second run too.
Two architectures and two components are needed for what an operation does not
touch; three versions with a tie exceed both values of `Keep`; two builds make
a replaced file differ. Operations are independent of the names of packages
except for their equality, so a second name (in `AptRetryAdd`) stands for all
others. Architectures and builds are interchangeable and are declared as
symmetric where no liveness is checked. A client needs an operation before it
begins and one after, and a third to prune what the first one added; its
updates are not limited. A push of two files has one that is published and one
that fails, and `Push` has room for two runs of it and an `rm`. For the version orders, two characters
before or after the one where the strings differ decide every branch of the
loops, and the alphabet has a character for each branch. In 7 characters a
control file has two fields, or a field and a line that continues it, with empty
and blank parts and either line ending; stanzas meet at a blank line only, so two
of them stand for any number. The texts stop growing, hence no deadlock check there either.

**Deadlock** is not checked: the publisher really stops when nobody starts an
operation, in the models when `MaxOps` operations have been started.

**Retries.** `RetryFirst` is how an operator is expected to work: an operation
that reported an error is run again before any other. Without it the pool may
hold a file that no index lists (an `Add` that stopped after its upload), and an
index may list a file that is gone (any operation that stopped after a delete);
the properties of `AptFaults` and `YumFaults` are those that do not depend on
it. `FaultyOps` limits interruptions to `Add` in `AptRetryAdd`, because for
`Remove` the claim is false. In `CommandLine` it is the command that is run
again (`torn`), and `Remove` may be interrupted as well: `RmRemoves` claims only
the part that holds, that the version is gone from every `Packages` and the pool.
For the same reason `RerunAgrees` claims of `Packages.gz` only that it agrees in
the indexes that the push wrote: it may be stale in others, where an `rm` was
interrupted before and run again (see Findings), and the push lists it in its
`Release` as it is. That takes four commands, one more than `Push` has room for;
that the rest holds all the same is the theorem `RerunsAgree`.

**Fairness.** `FairClientsSpec` asks for weak fairness of the steps of an
operation that is under way: `Add` and `Remove` run on the goroutine of their
caller, with nothing to wait for but the store and the signer, and a call that
never returns is outside the model. Beginning an operation and failing are not
fair. Of the client it asks that an update that was begun goes on, and that
another one follows some day, as timers and users see to; none of it need
succeed. `ClientsCatchUp` is about publishers that come to rest after a
success; one that rests after a failure may leave clients with mismatches for ever.

## Findings

* **Removal is not idempotent** (`AptRemoveIdempotent`). A comment in
  `internal/cli/remove.go` (138) says that removal is idempotent. If
  `apt.Publisher.Remove` is interrupted after it has written `Packages`, the
  second run finds nothing that matches, returns 0 and no error, and never gets
  to `publishRelease`. `Packages.gz` still lists the package, whose file is gone, and
  the `Release` states the checksum of the old `Packages`, a mismatch for clients
  that fetch `Packages`, until an operation rewrites that index. The yum publisher
  does not have this problem: it removes by its manifest, which it writes last
  (`YumRetry` checks that).
* **A removal reaches nested components** (`AptNested`). The comment on `Remove`
  says that it deletes packages "from the component". The code lists everything
  below the directory of the component, so a removal from `main` also removes
  from `main/debug`, a form of component that `splitBinaryPath` provides for.
  All other runs have components that do not nest.
* **The example removes without re-signing** (`RmWithoutKey`). The README says of its
  example commands (62) that "metadata is regenerated and re-signed", but its
  `rm` commands, unlike its `push` commands, give no `--sign-key`. They write a new
  `Release` next to the old `InRelease` and `Release.gpg`, which state the
  checksums of the indexes before the removal, and apt reads `InRelease`. The
  comment in `internal/cli/remove.go` (36) knows that metadata "must be re-signed
  for a signed repo to stay valid". The same commands with the key are
  `SignaturesMatchRelease`. `signRepomd` does the same to a yum repository.

A limit that no doc speaks of: two distributions of one bucket that both have a
package share its pool file. A `Remove` or the retention of one deletes the file
that the other lists, and a rebuild in one replaces it. `Distributions` has such a
package; `BothPoolsMatch` and `BothAckedStay` are about those that only one
distribution has, and fail when that restriction is dropped. What holds of
shared packages too is `PoolIsListed`: every file in the pool is listed by one of
the two, as it is.

## Proofs

The theorems are for every value of the constants: any number of packages,
versions and architectures, any version order, any value of `Keep`, signed or
not, any number of operations and of interruptions. The assumptions are the
named `ASSUME`s of the modules, which fix what kind of value each constant is,
and the hypotheses that a theorem names:

* `RetryFirst`: an operation that was interrupted is run again before any other
  (see Retries). A theorem without it holds whether or not anything is run again.
* `RetriesAdds`: `RetryFirst`, and only `Add` is interrupted. The finding on
  `Remove` shows that less will not do.
* `Flat`: no component lies in the directory of another. `AptNested` shows that
  it is needed.
* `ShareNoPackage`: two distributions have no version of a package in common; they
  may have different versions of one.
* `Signed`: the repository has a signer. `FailsCleanly` says so of the signatures
  as of everything else.

The runs have instances that satisfy them: `AptRetryAdd` all of the first three,
`YumRetry` its own, `Distributions` `RetryFirst` and `Flat`, `Push` both `Flat` and `Signed`, the
other runs without retries only `Flat`.
`PoolAgrees` goes further than `AptRetryAdd`: it lets a `Remove` be interrupted too.
No run has an instance with `ShareNoPackage`: `Distributions` has a package in
common and checks what is then left of `BothPoolsMatch` and `BothAckedStay`, while
under `ShareNoPackage` they speak of every package. Proved for shared packages
as well is `NothingIsLeftBehind`.

| module | theorem | states | hypotheses |
|---|---|---|---|
| `RetentionProofs` | `RetainsNewest` | what `Retain` leaves and takes | |
| `AptPublisherProofs` | `TypeCorrect` | `TypeOK` | |
| | `PublishedStays` | `AckedStays` | `Flat` |
| | `PublishedReleaseIsCurrent` | `PublishedReleaseCurrent` | |
| | `PoolAgrees` | `PoolMatchesPackages` | `RetryFirst` |
| | `ReleaseAgrees` | `ReleaseMatchesIndexes` | `RetriesAdds` |
| | `SignaturesAgree` | `SignaturesMatchRelease` | `RetriesAdds` |
| | `RetentionHolds` | `RetentionBound` | |
| `AptRepositoryProofs` | `PrunesSurplus` | `DeletesOnlySurplus` | `RetryFirst`, `Flat` |
| | `PublisherImplementsRepository` | `ImplementsRepository` | |
| `DistributionsProofs` | `EachIsAlone` | each distribution is a publisher alone in its bucket | `ShareNoPackage` |
| | `PoolsAgree` | `BothPoolsMatch` | `ShareNoPackage`, `RetryFirst` |
| | `BothPublishedStay` | `BothAckedStay` | `ShareNoPackage`, `Flat` |
| | `NothingIsLeftBehind` | `PoolIsListed` | `RetryFirst` |
| `AptClientsProofs` | `UpdatesFindWhatIsListed` | `UpdatesFailInTransit` | |
| | `UpdatesKnowPublished` | `UpdatesSeePublished` | `Flat` |
| `YumPublisherProofs` | `TypeCorrect` | `TypeOK` | |
| | `NamedFilesExist` | `RepomdRefsExist` | |
| | `PublishCompletes` | `PublishedStateComplete` | |
| | `PublishedStays` | `AckedStays` | |
| | `ManifestAgrees` | `ManifestMatchesRepomd` | `RetryFirst` |
| | `SignatureAgrees` | `SignatureMatchesRepomd` | `RetryFirst` |
| | `FilesAgree` | `RpmsMatchRepomd` | `RetryFirst` |
| | `RemoveCompletes` | `RemovedIsGone` | `RetryFirst` |
| `YumRepositoryProofs` | `RetentionHolds` | `RetentionBound` | |
| | `PrunesSurplus` | `DeletesOnlySurplus` | `RetryFirst` |
| | `PublisherImplementsRepository` | `ImplementsRepository` | |
| | `RefreshesFindWhatTheyRead` | `RefreshesFailInTransit` | |
| | `RefreshesKnowPublished` | `RefreshesSeePublished` | |
| `CommandLineProofs` | `PushPublishesPrefix` | `PrefixPublished` | `Flat` |
| | `CommandsFailCleanly` | `FailsCleanly` | `Signed` |
| | `RerunsAgree` | `RerunAgrees` | |
| | `RmRemovesVersion` | `RmRemoves` | `Flat` |

None of the properties is inductive as it stands. What each needs:

**Types.** For apt the invariant `TypeInv` also has `ControlOK`, what `pc` says
of the operation and of the index it writes: without it an index that is being
written need not be one. The content of `TypeOK` is in `Contents`: a name and
version (apt) or a file name (yum) occurs at most once, which the lemmas
`InsertType`, `ReplaceOrAppendType`, `BuildPackagesType` and `SortType` carry
through the operators.

**What is published stays.** An invariant about a file in the bucket alone is
not inductive. What it takes (`AckedInv`): the file is none of those the
operation under way is about, and the contents to be written have it
(`FileOK`), the entries to keep and those to delete are disjoint (`SplitOK`),
and, so that a new file can join the set, an `Add` under way has its own file
unless retention took it (`AddedOK`). For apt `Remove` must stay in its
component (`RemoveOK`), which needs `Flat`. For yum the file must also be in the
manifest, which an interruption may leave behind `repomd.xml`.

**How far publishing has come.** `RepomdInv` (yum, with `PublishOK`) counts the
metadata files that are there at each step, and says that from `repomd.xml` on
the entries are those it names, so that clean-up deletes none of its files.
`PublishInv` (apt, with `ReleaseOK`) says which of the `Release` and its
signatures are up to date at each step. Neither looks at what was interrupted
before, so the theorems that follow from them need no retries.

**Agreement after retries.** An operation that was interrupted has deleted some
files and written some objects, and the one that is run again must end in
agreement without knowing which. `RewriteOK` says that what is to be kept and
deleted is a function of the index (or the manifest) and the operation, as long
as that has not been written, so that a second run computes the same split. For
apt `Unwritten` names the indexes about which the operation, or the failed one
that is to be run again, leaves anything open; every other index matches the
pool (`PoolOK`). `AddPending` and `RemovePending` are what a run may find of the
others: all the files it is going to keep, and none that no index lists except
its own. `FilesInv` is the same for yum, whose uploaded file may even take the
place of one of another epoch. `GzOK`, `CurrentOK` and `SignedOK` follow
`Packages.gz`, the `Release` and the signatures. They show where the finding on
`Remove` comes from: the first index a removal writes no longer matches, so that
a second run does not see that something is left to publish (`Unchanging`).

**Retention.** `RetainsNewest` is about `Retain` alone: two items of one group
never have the same number of items before them, so the ranks of a group of n
items are the numbers from 0 to n - 1, and `Retain` keeps those below `keep`.
That needs different places (`Orderly`), and the publishers' invariants have to
provide them: `Written` says that no place is beyond the length of the list, so
that a new entry comes last (`BoundInv`). For `PrunesSurplus` the entries that
push one out must have their files in place: `PoolInv`, and for yum
`SurplusInv`, where a file under a listed location may be that of another epoch.

**Refinement.** Both are for any interruption and without retries. A write of
an index (apt) or of `repomd.xml` (yum) is the `Change`; the write of the file
that clients read first (apt: `InRelease`, or `Release` without a signer), or
of the manifest (yum), is the `Align`, and the other writes are stutters. That
success is reported only when the two records are equal is `PublishInv` for
apt; for yum the manifest is the last thing an operation writes. The
contents written are what one addition with retention or one removal makes of
the whole list; this is `RetainsNewest` again, since `Repository` speaks of
newer files and not of places.

**Clients.** A client's steps change nothing of the publisher, so all of the
above holds beside it. It keeps the `Release` or `repomd.xml` it has read, and
what that listed when it was read (`UpdateOK`, `RefreshOK`). For apt this needs
that *every* `Release` and `InRelease` there lists what has been published, in
both forms of the index (`ShownOK`), though the `Release` may be newer than
the `InRelease` and `Packages` newer than `Packages.gz`.

**Distributions.** `First` and `Second` are the module of the apt proofs,
instantiated with one part of the pool each. A step of either distribution is
the same step of the publisher with its own part, and leaves the other part as
it is: `EachIsAlone`, from which every theorem on one publisher carries over.

With packages in common neither is alone, since the other replaces and deletes
its files. But of every file in the pool one of the two knows (`SharedInv`): it
claims the file (`Claims`) when its indexes list it as it is, or the operation
under way, or to be run again, has uploaded it or is about to delete it. No step of
a distribution gives up a claim while the file stays (`ClaimStep`), the other takes
one over when it replaces a file, and at rest the only claim is the index
(`ClaimsAtRest`).

**Commands.** `CommandLine` drives the publisher, so the invariants above hold
through its commands too: a step of a command is one of `Next` or leaves the
publisher alone (`PublisherSteps`), but for `Kill`, which only counts an
interruption. `RetryFirst` enters their proofs at one place, where an operation
begins after one that failed; the lemmas therefore ask only for that
(`RunsAgain`), and as long as nothing is interrupted it holds of any sequence of
commands: `CommandsFailCleanly` has `PoolInv` and `IndexInv` until the first
interruption (`CleanInv`), without `RetryFirst`. For `PrefixPublished` each file
that a push has passed is among the published, or there is no room for it
(`Keeps`), until a later file of its name and architecture (`Safe`). That an
`Add` under way disturbs none of the others (`KeepsStep`) is about retention: in
an index that is within its bound (`BoundInv`) a new package pushes out none of
another name (`PruneSparesOthers`), and is left out itself only when `Keep`
others are as new (`PruneAdmits`).

**Commands that are run again.** A torn `rm` repeats the operation that failed,
so that `PoolInv` goes through all its runs (`RmPoolStep`), whatever was pushed
before and without `RetryFirst`. What `rm` has done to the indexes is compared
with `before`: each is as it was then or without the version (`RmIndexOK`),
and an index that an uninterrupted run has come past is without it (`RmGoneOK`).

A torn push does not repeat the operation that failed. It starts again with its
first file, so that the repository goes through states that `PoolInv` excludes,
and anything that the interruption left open stays open until the push comes to
that file again. `Todo` are the files the push has still to add: all of them
from an interruption to the next run, and from then on one less with each index
that it writes. `PushPoolOK` says that a stanza has its file or is `Owed`, that is
one of the files in `Todo` will replace it or prune it, or is `Going` in the `Add`
under way; and that a pool file has its stanza or is one of those in `Todo`.

The hard part is "will prune it". An `Add` that is interrupted has deleted files of
stanzas that are still listed, and the files that are added again before the push
comes back to that `Add` must not turn retention to other stanzas. `Displaced` says
so without looking ahead: the packages that are certain to be before the stanza
when the file is added (`Certain`), whichever of the files before that one are
added again, fill the places there are. Ties are what makes it delicate, since a
package that is added again goes to the end, behind those of equal rank. What an
`Add` was about to prune when it was interrupted is displaced (`GoneIsDisplaced`),
because what this run of the push has added lies behind all others (`OrderOK`); it
stays displaced while files before that one are added (`StaysDisplaced`), unless
they prune it, and goes with that one at the latest (`DisplacedGoes`).
When the push has come to its end `Todo` is empty and nothing is owed (`AtRest`),
whatever came before: `RerunsAgree` has no hypothesis, since that a torn command
is run again before any other is in `Run`. For the `Release` it
takes `PublishInv`, and for `Packages.gz` that it follows the index of each file
that the push has passed since it was last interrupted (`PushGzOK`, `WrittenOK`).

What stays with the model checker, and why:

* `ClientsCatchUp` is liveness under fairness.
* `BothPoolsMatch` and `BothAckedStay` of distributions that have a package in
  common.
* The invariants of `Functions` are about recursive functions on data of any
  length, which calls for an induction over data; so does `RerunCompletes`, which
  compares the indexes with a fold over the files of a push. What a rerun leaves
  of the rest of the repository is `RerunsAgree`.
* The three findings are counterexamples.

## Not modelled

Rendering and parsing of XML, rpm headers, tar and compression: no property of
the publishers depends on more than that different contents differ. Of a
`Release` the fields other than its checksums; `rm` writes it without the
`Origin`, `Label` and `Description` that `push` was given. A control file that
brings a `Filename` field of its own. Names of fields that differ only in case
are one name. Key handling and signature formats are in libraries. `Put`, `Get`
and `Delete` of the two store adapters, and `List` of the GCS one, add nothing
but the calls of their clients. The public package forwards each call. The
parsing of flags, and `push rpm` and `rm rpm`, which have the steps of the
commands for apt. A second writer of one distribution, which the package
comments exclude.
