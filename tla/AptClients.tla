----------------------------- MODULE AptClients -----------------------------
(***************************************************************************)
(* An apt client beside the publisher.  `apt-get update` reads the Release,*)
(* signed inline when there is a signature, then an index that the Release *)
(* lists, plain or compressed, and takes the index if its checksum is the  *)
(* one listed.  The publisher may write any number of objects between two  *)
(* reads.  The client is not part of the code: it is modelled as the       *)
(* README's client setup uses it, for one index.                           *)
(***************************************************************************)
EXTENDS AptPublisher

CONSTANT Home   \* the index of the client's component and architecture

ASSUME HomeAssumption == Home \in Indexes

VARIABLES
  updating,     \* whether an update is under way
  release,      \* the Release that the update has read
  lists,        \* the stanzas of the last index that was taken
  promised      \* the files whose Add had succeeded when the update began

client  == <<updating, release, lists, promised>>
allVars == <<vars, client>>

-----------------------------------------------------------------------------
\* InRelease is asked for first.
ReleaseKey == IF "InRelease" \in DOMAIN dist THEN "InRelease" ELSE "Release"

BeginUpdate ==
  /\ ~updating
  /\ ReleaseKey \in DOMAIN dist
  /\ updating' = TRUE
  /\ release' = dist[ReleaseKey]
  /\ promised' = acked
  /\ UNCHANGED <<vars, lists>>

EndUpdate ==
  /\ updating
  /\ updating' = FALSE
  /\ release' = None
  /\ promised' = {}
  /\ UNCHANGED vars

\* An index that is missing has no packages.
IndexIn(files) == IF Home \in DOMAIN files THEN files[Home] ELSE {}

\* The index is the one the Release lists.
Take(listed, stored) ==
  /\ EndUpdate
  /\ Home \in DOMAIN listed => Holds(stored, Home, listed[Home])
  /\ lists' = IndexIn(listed)

\* The index is gone, or its checksum is another: the update fails, and the lists
\* of the one before are kept.
Mismatch(listed, stored) ==
  /\ EndUpdate
  /\ Home \in DOMAIN listed
  /\ ~Holds(stored, Home, listed[Home])
  /\ UNCHANGED lists

TakePlain      == updating /\ Take(release.packages, packages)
TakeCompressed == updating /\ Take(release.packagesGz, packagesGz)
MismatchPlain      == updating /\ Mismatch(release.packages, packages)
MismatchCompressed == updating /\ Mismatch(release.packagesGz, packagesGz)

Taken == TakePlain \/ TakeCompressed
Failed == MismatchPlain \/ MismatchCompressed

ClientStep == BeginUpdate \/ Taken \/ Failed

-----------------------------------------------------------------------------
ClientsInit ==
  /\ Init
  /\ updating = FALSE
  /\ release = None
  /\ lists = {}
  /\ promised = {}

ClientsNext == (Next /\ UNCHANGED client) \/ ClientStep

ClientsSpec == ClientsInit /\ [][ClientsNext]_allVars

\* Add and Remove run on the caller's goroutine until they return; nobody has to
\* start one, and nothing has to fail.  The client updates now and then, for
\* ever, and an update comes to its end.
FairClientsSpec ==
  /\ ClientsSpec
  /\ WF_allVars(Step /\ UNCHANGED client)
  /\ WF_allVars(ClientStep)

-----------------------------------------------------------------------------
(* Properties                                                              *)

\* An update that fails has met an operation under way, or one that was
\* interrupted, or has read a Release that has been replaced since: beside a
\* publisher that has published and rests, apt never sees a checksum that does
\* not match (publishRelease is the last step, and covers every index).
UpdatesFailInTransit ==
  [][Failed /\ pc = "idle" /\ outcome = "published" => release # dist[ReleaseKey]]_allVars

\* A client sees what was published: an update that begins after an Add has
\* reported success and that succeeds knows the package, whatever is written in
\* between and whatever of it fails, unless an operation had set out to remove,
\* to replace or to prune it when the update began.
UpdatesSeePublished ==
  [][Taken => \A f \in promised :
                f.path.component = Home.component /\ f.path.arch = Home.arch =>
                  \E e \in lists' : e.pkg = f.path.pkg /\ e.build = f.build]_allVars

\* When the publisher has published for the last time, clients that keep updating
\* end up with the index as it is, whatever was interrupted before.
ClientsCatchUp ==
  <>[](pc = "idle" /\ outcome = "published") =>
    <>[](lists \in {IndexIn(packages), IndexIn(packagesGz)})

=============================================================================
