----------------------------- MODULE DebVersion -----------------------------
(***************************************************************************)
(* deb.CompareVersions (internal/deb/version.go): the order of Debian      *)
(* versions [epoch:]upstream[-revision], which decides what retention      *)
(* removes from an apt repository.                                         *)
(***************************************************************************)
EXTENDS VersionText

-----------------------------------------------------------------------------
(* verrevcmp                                                               *)

\* Mutant: a tilde is a character like others.
OrderOfTilde(c) ==
  CASE c \in Digits  -> 0
    [] c \in Letters -> c
    [] OTHER         -> c + 256

\* Letters sort before other characters, a tilde even before the end.
Order(c) ==
  CASE c \in Digits  -> 0
    [] c \in Letters -> c
    [] c = Tilde     -> -1
    [] OTHER         -> c + 256

\* The end of a string weighs what a digit weighs.
OrderAt(s, n) == IF n <= Len(s) THEN Order(s[n]) ELSE 0

\* Where the character-wise comparison of the non-digit runs ends: at a
\* difference, or with a digit or an end on both sides.
Stop(a, b) ==
  Min({n \in 1 .. Len(a) + 1 : OrderAt(a, n) # OrderAt(b, n) \/ OrderAt(a, n) = 0})

\* Two runs of digits without leading zeros: the longer one is the larger number.
CompareDigits(x, y) ==
  IF Len(x) # Len(y) THEN Sign(Len(x) - Len(y)) ELSE CompareText(x, y)

\* One round of the loop for each non-digit run and the digit run after it.
RECURSIVE VerRevCmp(_, _)
VerRevCmp(a, b) ==
  IF a = <<>> /\ b = <<>> THEN 0 ELSE
  LET n == Stop(a, b)
      x == Past(SubSeq(a, n, Len(a)), {Zero})
      y == Past(SubSeq(b, n, Len(b)), {Zero})
      d == CompareDigits(Run(x, Digits), Run(y, Digits))
  IN  IF OrderAt(a, n) # OrderAt(b, n) THEN Sign(OrderAt(a, n) - OrderAt(b, n))
      ELSE IF d # 0 THEN d ELSE VerRevCmp(Past(x, Digits), Past(y, Digits))

-----------------------------------------------------------------------------
(* split, CompareVersions                                                  *)

Split(v) ==
  LET e    == SplitEpoch(v)
      dash == SelectLastInSeq(e.rest, LAMBDA c : c = Dash)
  IN  [epoch    |-> e.epoch,
       upstream |-> IF dash > 0 THEN SubSeq(e.rest, 1, dash - 1) ELSE e.rest,
       revision |-> IF dash > 0 THEN SubSeq(e.rest, dash + 1, Len(e.rest)) ELSE <<>>]

CompareVersions(a, b) ==
  LET x == Split(a)
      y == Split(b)
      u == VerRevCmp(x.upstream, y.upstream)
  IN  IF x.epoch # y.epoch THEN Sign(Wrap(x.epoch - y.epoch))
      ELSE IF u # 0 THEN u ELSE VerRevCmp(x.revision, y.revision)

-----------------------------------------------------------------------------
(* Reference: Debian Policy 5.6.12.  A version is a list of parts, each a  *)
(* run of non-digits and a number; the lists are compared from left to     *)
(* right.  Written as numbers, a run is the weights of its characters and  *)
(* the weight of its end, which lies between a tilde and all others.       *)

RECURSIVE PolicyKey(_)
PolicyKey(s) ==
  IF s = <<>> THEN <<>> ELSE
  LET chars == {s[n] : n \in DOMAIN s} \ Digits
      rest  == Past(s, chars)
      Weight(c) == IF c = Tilde THEN -1 ELSE IF c \in Letters THEN c ELSE 1000 + c
  IN  [n \in DOMAIN Run(s, chars) |-> Weight(s[n])]
        \o <<0, NumberOf(Run(rest, Digits))>>
        \o PolicyKey(Past(rest, Digits))

PolicyCompare(a, b) ==
  LET x == Split(a)
      y == Split(b)
      u == ComparePadded(PolicyKey(x.upstream), PolicyKey(y.upstream), 0)
  IN  IF x.epoch # y.epoch THEN Sign(x.epoch - y.epoch)
      ELSE IF u # 0 THEN u
      ELSE ComparePadded(PolicyKey(x.revision), PolicyKey(y.revision), 0)

=============================================================================
