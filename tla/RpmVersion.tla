----------------------------- MODULE RpmVersion -----------------------------
(***************************************************************************)
(* rpm.CompareVersions (internal/rpm/version.go): rpmvercmp, the order of  *)
(* RPM packages by epoch, version and release, which decides what          *)
(* retention removes from a yum repository and in which order packages are *)
(* listed; and Package.EVR (internal/rpm/metadata.go), which makes one     *)
(* string of the three.                                                    *)
(***************************************************************************)
EXTENDS VersionText

\* The bytes that skipSeparators does not skip.
Meaningful == Digits \cup Letters \cup {Tilde, Caret}

SkipSeparators(s) == Past(s, (0 .. 255) \ Meaningful)

StartsWith(s, c) == s # <<>> /\ s[1] = c

\* Mutant: a caret is less than the end, as a tilde is.
CompareCaretAsTilde(a, b) ==
  CASE StartsWith(a, Caret) /\ StartsWith(b, Caret) -> 0
    [] StartsWith(a, Caret) /\ ~StartsWith(b, Caret) -> -1
    [] ~StartsWith(a, Caret) /\ StartsWith(b, Caret) -> 1

\* One side starts with a caret: it is greater than one that ends, less than one
\* that goes on otherwise.
CompareCaret(a, b) ==
  CASE StartsWith(a, Caret) /\ StartsWith(b, Caret) -> 0
    [] StartsWith(a, Caret) /\ ~StartsWith(b, Caret) -> IF b = <<>> THEN 1 ELSE -1
    [] ~StartsWith(a, Caret) /\ StartsWith(b, Caret) -> IF a = <<>> THEN -1 ELSE 1

\* One side starts with a tilde: it is less than any other and than the end.
CompareTilde(a, b) ==
  CASE StartsWith(a, Tilde) /\ StartsWith(b, Tilde) -> 0
    [] StartsWith(a, Tilde) /\ ~StartsWith(b, Tilde) -> -1
    [] ~StartsWith(a, Tilde) /\ StartsWith(b, Tilde) -> 1

\* The first side tells which kind of run is compared.
KindOf(a) == IF a[1] \in Digits THEN Digits ELSE Letters

\* Two runs of one kind.  An empty y means that the second side has a run of the
\* other kind, and a number is greater than letters.
CompareRuns(x, y, numeric) ==
  LET p == Past(x, {Zero})
      q == Past(y, {Zero})
  IN  IF y = <<>> THEN (IF numeric THEN 1 ELSE -1)
      ELSE IF ~numeric THEN CompareText(x, y)
      ELSE IF Len(p) # Len(q) THEN Sign(Len(p) - Len(q)) ELSE CompareText(p, q)

\* The side with characters left is the greater one.
EndResult(a, b) ==
  IF a = <<>> /\ b = <<>> THEN 0 ELSE IF a = <<>> THEN -1 ELSE 1

\* One round of vercmp's loop for each tilde, caret and run.  That vercmp first asks
\* whether the strings are equal saves time only: the loop returns 0 for them.
RECURSIVE VerCmp(_, _)
VerCmp(s, t) ==
  LET a == SkipSeparators(s)
      b == SkipSeparators(t)
      MarkThenRest(c) == IF c # 0 THEN c ELSE VerCmp(Tail(a), Tail(b))
  IN  IF StartsWith(a, Tilde) \/ StartsWith(b, Tilde) THEN MarkThenRest(CompareTilde(a, b))
      ELSE IF StartsWith(a, Caret) \/ StartsWith(b, Caret) THEN MarkThenRest(CompareCaret(a, b))
      ELSE IF a = <<>> \/ b = <<>> THEN EndResult(a, b)
      ELSE LET kind == KindOf(a)
               c    == CompareRuns(Run(a, kind), Run(b, kind), kind = Digits)
           IN  IF c # 0 THEN c ELSE VerCmp(Past(a, kind), Past(b, kind))

-----------------------------------------------------------------------------
(* EVR, splitEVR, CompareVersions                                          *)

\* The string of a package's epoch, version and release; the epoch is in decimal.
EVR(p) == DecimalOf(p.epoch) \o <<Colon>> \o p.version \o <<Dash>> \o p.release

\* Mutant: the release follows the last dash, as a Debian revision does.
SplitEVRAtLast(s) ==
  LET e    == SplitEpoch(s)
      dash == SelectLastInSeq(e.rest, LAMBDA c : c = Dash)
  IN  [epoch   |-> e.epoch,
       version |-> IF dash > 0 THEN SubSeq(e.rest, 1, dash - 1) ELSE e.rest,
       release |-> IF dash > 0 THEN SubSeq(e.rest, dash + 1, Len(e.rest)) ELSE <<>>]

\* The release follows the first dash.
SplitEVR(s) ==
  LET e    == SplitEpoch(s)
      dash == SelectInSeq(e.rest, LAMBDA c : c = Dash)
  IN  [epoch   |-> e.epoch,
       version |-> IF dash > 0 THEN SubSeq(e.rest, 1, dash - 1) ELSE e.rest,
       release |-> IF dash > 0 THEN SubSeq(e.rest, dash + 1, Len(e.rest)) ELSE <<>>]

CompareVersions(a, b) ==
  LET x == SplitEVR(a)
      y == SplitEVR(b)
      v == VerCmp(x.version, y.version)
  IN  IF x.epoch # y.epoch THEN Sign(Wrap(x.epoch - y.epoch))
      ELSE IF v # 0 THEN v ELSE VerCmp(x.release, y.release)

-----------------------------------------------------------------------------
(* Reference: a version is a list of tokens, and the lists are compared    *)
(* from left to right.  A tilde is less than the end of the list, the end  *)
(* less than a caret, that less than any letters, letters less than any    *)
(* number.  Written as numbers, a token is its kind followed by what it    *)
(* holds: letters end with a zero, which no letter is.                     *)

RECURSIVE TokenKey(_)
TokenKey(s) ==
  LET r == SelectSeq(s, LAMBDA c : c \in Meaningful)
      i == Min({n \in 0 .. Len(s) : n = Len(s) \/ s[n + 1] \in Meaningful})
      t == SubSeq(s, i + 1, Len(s))
  IN  IF r = <<>> THEN <<>>
      ELSE IF t[1] = Tilde THEN <<-1>> \o TokenKey(Tail(t))
      ELSE IF t[1] = Caret THEN <<1>> \o TokenKey(Tail(t))
      ELSE IF t[1] \in Letters
           THEN <<2>> \o Run(t, Letters) \o <<0>> \o TokenKey(Past(t, Letters))
      ELSE <<3, NumberOf(Run(t, Digits))>> \o TokenKey(Past(t, Digits))

TokenCompare(a, b) == ComparePadded(TokenKey(a), TokenKey(b), 0)

\* Two packages are compared by epoch, then version, then release.
EVRCompare(p, q) ==
  LET v == TokenCompare(p.version, q.version)
  IN  IF p.epoch # q.epoch THEN Sign(p.epoch - q.epoch)
      ELSE IF v # 0 THEN v ELSE TokenCompare(p.release, q.release)

=============================================================================
