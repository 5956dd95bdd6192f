--------------------------- MODULE Distributions ---------------------------
(***************************************************************************)
(* Two distributions of one bucket, as stable and testing are, each with a *)
(* writer of its own (apt.Config.Distribution).  Every distribution has    *)
(* its own indexes and Release under dists/<distribution>/.  The pool is   *)
(* one: poolPath has no distribution in it, so a package that both have is *)
(* one file, which either may replace or delete.                           *)
(*                                                                         *)
(* AptPublisher's variables are those of the first distribution, the       *)
(* variables below those of the second.                                    *)
(***************************************************************************)
EXTENDS AptPublisher

CONSTANTS
  OtherNames,      \* the package names of the second distribution
  OtherVersions,   \* its version strings
  OtherRank        \* and their order

VARIABLES
  packages2, packagesGz2, dist2,                        \* in the bucket
  pc2, op2, index2, kept2, doomed2, queue2, removed2,   \* the operation under way
  outcome2, acked2, ops2, faults2                       \* what its caller sees

mine   == <<packages, packagesGz, dist, pc, op, locals, outcome, acked, ops, faults>>
others == <<packages2, packagesGz2, dist2, pc2, op2, index2, kept2, doomed2,
            queue2, removed2, outcome2, acked2, ops2, faults2>>
allVars == <<pool, mine, others>>

Other == INSTANCE AptPublisher WITH
  Names      <- OtherNames,
  Versions   <- OtherVersions,
  Rank       <- OtherRank,
  packages   <- packages2,
  packagesGz <- packagesGz2,
  dist       <- dist2,
  pc         <- pc2,
  op         <- op2,
  index      <- index2,
  kept       <- kept2,
  doomed     <- doomed2,
  queue      <- queue2,
  removed    <- removed2,
  outcome    <- outcome2,
  acked      <- acked2,
  ops        <- ops2,
  faults     <- faults2

ASSUME OtherRankAssumption == OtherRank \in [OtherVersions -> Nat]

-----------------------------------------------------------------------------
BothInit == Init /\ Other!Init

BothNext ==
  \/ Next /\ UNCHANGED others
  \/ Other!Next /\ UNCHANGED mine

BothSpec == BothInit /\ [][BothNext]_allVars

-----------------------------------------------------------------------------
(* Properties                                                              *)

\* The files in the pool, and those that the indexes of either list.
InPool == {[path |-> p, build |-> pool[p]] : p \in DOMAIN pool}

ListedFirst ==
  UNION {{[path |-> PathOf(i, e.pkg), build |-> e.build] : e \in Read(i)} : i \in Indexes}

ListedSecond ==
  UNION {{[path |-> Other!PathOf(i, e.pkg), build |-> e.build] : e \in Other!Read(i)}
           : i \in Other!Indexes}

\* The packages that only one of them has.
OnlyFirst  == Packages \ Other!Packages
OnlySecond == Other!Packages \ Packages

FilesOf(files, pkgs) == {f \in files : f.path.pkg \in pkgs}

\* Of the packages that only one distribution has, the pool holds what that one
\* lists, the very builds, and nothing else, whenever it has reported success and
\* wherever the other is, which may be replacing, pruning and removing other
\* versions of them or packages that both have (poolPath).
BothPoolsMatch ==
  /\ Settled => FilesOf(InPool, OnlyFirst) = FilesOf(ListedFirst, OnlyFirst)
  /\ Other!Settled => FilesOf(InPool, OnlySecond) = FilesOf(ListedSecond, OnlySecond)

\* Nor does either lose such a file that its Add has published, at any step of an
\* operation of the other.
BothAckedStay ==
  /\ FilesOf(acked, OnlyFirst) \subseteq InPool \cap ListedFirst
  /\ FilesOf(acked2, OnlySecond) \subseteq InPool \cap ListedSecond

\* A package that both have may be listed without its file, when the other has
\* removed or pruned it.  But nothing stays behind: when both have reported
\* success, every file of the pool is listed by one of them, as it is, whatever
\* the order of their uploads, deletions and writes of indexes.
PoolIsListed ==
  Settled /\ Other!Settled => InPool \subseteq ListedFirst \cup ListedSecond

=============================================================================
