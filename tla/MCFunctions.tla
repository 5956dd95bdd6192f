---------------------------- MODULE MCFunctions ----------------------------
(***************************************************************************)
(* The pure functions for TLC, each compared with a definition that is     *)
(* written in another way: the version orders, the text of control files   *)
(* and of Packages files, ar archives, the retention policy and the pages  *)
(* of a listing.  For one of these subjects, chosen at the start, two      *)
(* sequences grow to all pairs up to the subject's bounds.                 *)
(***************************************************************************)
EXTENDS DebVersion

CONSTANT Keeps   \* the retention limits to try

Rpm     == INSTANCE RpmVersion
Control == INSTANCE ControlText WITH Required <- {<<120>>}
Ar      == INSTANCE ArArchive
Slice   == INSTANCE RetentionList
Policy  == INSTANCE Retention
S3      == INSTANCE S3Store

\* What the two sequences of a subject consist of, and how long each may get and
\* both together.
Subjects ==
  LET bytes == {48, 56, 97, 98, 58, 45, 94, 126}
  IN  [versions  |-> [xs |-> bytes, maxX |-> 3, ys |-> bytes, maxY |-> 3, max |-> 5],
       control   |-> [xs |-> {120, 58, 32, 10, 13}, maxX |-> 7, ys |-> {}, maxY |-> 0,
                      max |-> 7],
       archive   |-> [xs |-> {1, 10, 96}, maxX |-> 3, ys |-> {1, 10, 96}, maxY |-> 3,
                      max |-> 6],
       retention |-> [xs |-> {0, 1, 2} \X {0, 1}, maxX |-> 5, ys |-> {}, maxY |-> 0,
                      max |-> 5],
       listing   |-> [xs |-> {0, 1, 2}, maxX |-> 4, ys |-> {2, 4, 6}, maxY |-> 4,
                      max |-> 8]]

VARIABLES subject, x, y

Init == subject \in DOMAIN Subjects /\ x = <<>> /\ y = <<>>

GrowX ==
  /\ Len(x) + Len(y) < Subjects[subject].max
  /\ Len(x) < Subjects[subject].maxX
  /\ \E c \in Subjects[subject].xs : x' = Append(x, c)
  /\ UNCHANGED <<subject, y>>

GrowY ==
  /\ Len(x) + Len(y) < Subjects[subject].max
  /\ Len(y) < Subjects[subject].maxY
  /\ \E c \in Subjects[subject].ys : y' = Append(y, c)
  /\ UNCHANGED <<subject, x>>

Next == GrowX \/ GrowY

Spec == Init /\ [][Next]_<<subject, x, y>>

-----------------------------------------------------------------------------

\* The comparison of Debian versions, which goes through two strings character by
\* character, is the order that Debian Policy describes, as long as the difference
\* of the epochs is an int; so retention can sort by it, also when versions do not
\* conform (deb.CompareVersions).
AgreesWithPolicy ==
  subject = "versions" /\ Split(x).epoch - Split(y).epoch \in Ints =>
    CompareVersions(x, y) = PolicyCompare(x, y)

\* The comparison of two packages through the strings that EVR makes of them is
\* their order by epoch, version and release, the latter two as lists of tokens;
\* so retention and publish can sort by it, whatever the release looks like
\* (rpm.CompareVersions, Package.EVR).
AgreesWithTokens ==
  LET Agree(p, q) == Rpm!CompareVersions(Rpm!EVR(p), Rpm!EVR(q)) = Rpm!EVRCompare(p, q)
      EVR(e, v, r) == [epoch |-> e, version |-> v, release |-> r]
      One == <<49>>
  IN  subject = "versions" =>
        \A e \in {<<0, 0>>, <<8, 10>>} :
          /\ Agree(EVR(e[1], One, x), EVR(e[2], One, y))
          /\ Dash \notin Range(x) \cup Range(y) =>
               Agree(EVR(e[1], x, One), EVR(e[2], y, One))

\* A control file that Add accepts, with the fields that Add adds, is read back
\* from the Packages file as it was written, field by field, and so is the stanza
\* after it: an operation can rewrite the stanzas of the packages it is not about.
\* A line that ends in a CR after its line ending was taken off is the exception
\* (ParseControl, buildPackages, ParseControlFile).
IndexRoundTrips ==
  LET parsed == Control!ParseControl(x)
      stanza == Append(parsed.fields, [name |-> <<102>>, value |-> <<120>>])
      keepsCR == \E n \in DOMAIN parsed.fields :
                   LET v == parsed.fields[n].value
                   IN  \E k \in DOMAIN v : v[k] = 13 /\ (k = Len(v) \/ v[k + 1] = 10)
  IN  subject = "control" /\ parsed.ok /\ ~keepsCR =>
        \A pkgs \in {<<stanza>>, <<stanza, stanza>>} :
          Control!ParseControlFile(Control!BuildPackages(pkgs)) = [ok |-> TRUE, pkgs |-> pkgs]

\* An archive that was cut off somewhere is refused, or the cut was between two
\* members; no member is read shorter than it is (readAr).
NoMemberIsCut ==
  subject = "archive" =>
    LET data == Ar!Encode(x) \o Ar!Encode(y)
    IN  /\ Ar!ReadAr(data) = [ok |-> TRUE, members |-> <<x, y>>]
        /\ \A n \in 0 .. Len(data) :
             LET cut == Ar!ReadAr(SubSeq(data, 1, n))
             IN  cut.ok => cut.members \in {<<>>, <<x>>, <<x, y>>}

\* Prune, which works on indexes of a slice, retains what the policy says and
\* returns the rest for removal, both in the order of the slice; the publishers'
\* models rely on it (retention.Prune).
PruneFollowsPolicy ==
  subject = "retention" =>
    LET group == [i \in DOMAIN x |-> x[i][2]]
        age   == [i \in DOMAIN x |-> x[i][1]]
        items == {[pkg |-> i, at |-> i] : i \in DOMAIN x}
    IN  \A keep \in Keeps :
          LET retained == {d.pkg : d \in Policy!Retain(items, keep, group, age)}
              all      == [i \in DOMAIN x |-> i]
          IN  Slice!Prune(Len(x), keep, group, age) =
                [retain |-> SelectSeq(all, LAMBDA i : i \in retained),
                 remove |-> SelectSeq(all, LAMBDA i : i \notin retained)]

\* However S3 divides a listing into pages, and whatever else is written to the
\* bucket meanwhile, List returns every key that is there all the time, once, and
\* none that never was: publishRelease and Remove see every index (Store.List).
ListMissesNothing ==
  subject = "listing" =>
    LET own       == {1, 3, 5}
        Held(n)   == {k \in {2, 4, 6} :
                        Cardinality({m \in 1 .. n : y[m] = k}) % 2 = 1}
        bucket    == [n \in 1 .. Len(y) + 1 |-> own \cup Held(n - 1)]
        listed    == S3!List(bucket, Append(x, 2))
    IN  /\ own \subseteq Range(listed)
        /\ Range(listed) \subseteq UNION Range(bucket)
        /\ \A n \in 1 .. Len(listed) - 1 : listed[n] < listed[n + 1]

=============================================================================
