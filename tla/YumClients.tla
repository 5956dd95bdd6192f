----------------------------- MODULE YumClients -----------------------------
(***************************************************************************)
(* A dnf client beside the publisher.  It reads repomd.xml, then, with     *)
(* repo_gpgcheck, the signature, then the metadata files that repomd.xml   *)
(* names, in any order; the publisher may write and delete any number of   *)
(* objects between two reads.  The client is not part of the code: it is   *)
(* modelled as the README's client setup configures it.                    *)
(***************************************************************************)
EXTENDS YumPublisher

VARIABLES
  step,         \* what the refresh reads next, "idle" when there is none
  reading,      \* the repomd.xml that the refresh has read
  missing,      \* the types of metadata files that it has yet to read
  cache,        \* the packages of the last refresh that succeeded
  promised      \* the files whose Add had succeeded when the refresh began

client  == <<step, reading, missing, cache, promised>>
allVars == <<vars, client>>

-----------------------------------------------------------------------------
BeginRefresh ==
  /\ step = "idle"
  /\ repomd # None
  /\ step' = IF Signed THEN "signature" ELSE "files"
  /\ reading' = repomd
  /\ missing' = Types
  /\ promised' = acked
  /\ UNCHANGED <<vars, cache>>

EndRefresh ==
  /\ step' = "idle"
  /\ reading' = None
  /\ missing' = {}
  /\ promised' = {}
  /\ UNCHANGED vars

CheckSignature ==
  /\ step = "signature"
  /\ repomdAsc = reading
  /\ step' = "files"
  /\ UNCHANGED <<vars, reading, missing, cache, promised>>

\* The refresh fails, and the cache of the one before is kept.
BadSignature ==
  /\ step = "signature"
  /\ repomdAsc # reading
  /\ EndRefresh
  /\ UNCHANGED cache

Metadata(type) == [type |-> type, entries |-> reading.entries]

ReadMetadata ==
  /\ step = "files"
  /\ \E t \in missing : Metadata(t) \in metas /\ missing' = missing \ {t}
  /\ UNCHANGED <<vars, step, reading, cache, promised>>

\* The refresh fails here too.
MetadataGone ==
  /\ step = "files"
  /\ \E t \in missing : Metadata(t) \notin metas
  /\ EndRefresh
  /\ UNCHANGED cache

Refreshed ==
  /\ step = "files"
  /\ missing = {}
  /\ EndRefresh
  /\ cache' = RpmsOf(reading.entries)

ClientStep ==
  \/ BeginRefresh
  \/ CheckSignature
  \/ BadSignature
  \/ ReadMetadata
  \/ MetadataGone
  \/ Refreshed

-----------------------------------------------------------------------------
ClientsInit ==
  /\ Init
  /\ step = "idle"
  /\ reading = None
  /\ missing = {}
  /\ cache = {}
  /\ promised = {}

ClientsNext == (Next /\ UNCHANGED client) \/ ClientStep

ClientsSpec == ClientsInit /\ [][ClientsNext]_allVars

\* Add and Remove run on the caller's goroutine until they return; nobody has to
\* start one, and nothing has to fail.  The client refreshes now and then, for
\* ever, and a refresh comes to its end.
FairClientsSpec ==
  /\ ClientsSpec
  /\ WF_allVars(Step /\ UNCHANGED client)
  /\ WF_allVars(ClientStep)

-----------------------------------------------------------------------------
(* Properties                                                              *)

\* A metadata file is gone only for a client that has read an old repomd.xml, and
\* a signature is wrong only while an operation is under way, after one was
\* interrupted, or for such a client: a refresh that begins again finds what it
\* reads (publish, signRepomd, cleanupMetadata).
RefreshesFailInTransit ==
  [][/\ MetadataGone => reading # repomd
     /\ BadSignature /\ pc = "idle" /\ outcome = "published" => reading # repomd]_allVars

\* A client sees what was published: a refresh that begins after an Add has
\* reported success and that succeeds knows the package, whatever is written in
\* between and whatever of it fails, unless an operation had set out to remove,
\* to replace or to prune it when the refresh began.
RefreshesSeePublished == [][Refreshed => promised \subseteq cache']_allVars

\* When the publisher has published for the last time, clients that keep
\* refreshing end up with the packages as they are, whatever was interrupted
\* before.
ClientsCatchUp ==
  <>[](pc = "idle" /\ outcome = "published") => <>[](cache = RpmsOf(manifest))

=============================================================================
