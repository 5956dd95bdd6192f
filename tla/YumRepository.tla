--------------------------- MODULE YumRepository ---------------------------
(***************************************************************************)
(* The yum publisher implements Repository, with one part.  dnf is shown a *)
(* change by repomd.xml before the publisher records it in its manifest.   *)
(***************************************************************************)
EXTENDS YumPublisher

Repo == INSTANCE Repository WITH
  Parts      <- {"repodata"},
  Files      <- Rpms,
  Place      <- [f \in Rpms |-> LocationOf(f.pkg)],
  Group      <- [f \in Rpms |-> GroupOf[f.pkg]],
  Age        <- [f \in Rpms |-> AgeOf[f.pkg]],
  Removals   <- {{f \in Rpms : Named(f.pkg, o)} : o \in RemoveOps},
  ShownFirst <- TRUE,
  base       <- [p \in {"repodata"} |-> RpmsOf(manifest)],
  shown      <- [p \in {"repodata"} |-> RpmsOf(Listed)]

\* At every step, and whatever was interrupted before, what dnf is shown changes
\* only by one whole addition with retention or one whole removal made to the
\* manifest; the manifest only ever follows it, and does so before Add or Remove
\* reports that it has published (yum.go, Add, Remove, publish).
ImplementsRepository == Repo!Spec

=============================================================================
