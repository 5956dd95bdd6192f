--------------------------- MODULE AptRepository ---------------------------
(***************************************************************************)
(* The apt publisher implements Repository: every Packages file is a part. *)
(* A change is made to a Packages file, and apt is shown it by the Release *)
(* that it reads, which is InRelease in a signed repository.               *)
(***************************************************************************)
EXTENDS AptPublisher

Files == [pkg : Packages, build : Builds]
FilesOf(c) == {[pkg |-> e.pkg, build |-> e.build] : e \in c}

\* What apt is shown of an index.
Shown(i) ==
  LET key == IF Signed THEN "InRelease" ELSE "Release"
  IN  IF key \in DOMAIN dist /\ i \in DOMAIN dist[key].packages
      THEN FilesOf(dist[key].packages[i])
      ELSE {}

Repo == INSTANCE Repository WITH
  Parts      <- Indexes,
  Place      <- [f \in Files |-> f.pkg],
  Group      <- [f \in Files |-> GroupOf[f.pkg]],
  Age        <- [f \in Files |-> AgeOf[f.pkg]],
  Removals   <- {{f \in Files : f.pkg = pkg} : pkg \in Packages},
  ShownFirst <- FALSE,
  base       <- [i \in Indexes |-> FilesOf(Read(i))],
  shown      <- [i \in Indexes |-> Shown(i)]

\* At every step, and whatever was interrupted before, the list of files of an
\* index changes only by one whole addition with retention or one whole removal,
\* apt is shown a new list for all indexes at once, and Add and Remove report
\* that they have published only when it is (apt.go, Add, Remove, updateIndex;
\* release.go, publishRelease).
ImplementsRepository == Repo!Spec

=============================================================================
