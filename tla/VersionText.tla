---------------------------- MODULE VersionText ----------------------------
(***************************************************************************)
(* Strings as the version comparisons read them (internal/deb/version.go,  *)
(* internal/rpm/version.go): sequences of bytes, with the runs of digits   *)
(* and letters that they fall into.                                        *)
(***************************************************************************)
EXTENDS Integers, SequencesExt

CONSTANT MaxInt   \* the largest int; math.MaxInt64 in the builds that are shipped

ASSUME MaxIntAssumption == MaxInt \in Nat \ {0}

Ints == (0 - MaxInt - 1) .. MaxInt

\* Arithmetic on ints wraps around.
Wrap(x) == ((x + MaxInt + 1) % (2 * (MaxInt + 1))) - (MaxInt + 1)

Digits  == 48 .. 57
Letters == (65 .. 90) \cup (97 .. 122)
Zero    == 48
Plus    == 43
Dash    == 45
Colon   == 58
Caret   == 94
Tilde   == 126

Sign(x) == IF x < 0 THEN -1 ELSE IF x > 0 THEN 1 ELSE 0

\* The length of the longest prefix of s that consists of chars.
RunLength(s, chars) ==
  Min({n \in 0 .. Len(s) : n = Len(s) \/ s[n + 1] \notin chars})

Run(s, chars)  == SubSeq(s, 1, RunLength(s, chars))
Past(s, chars) == SubSeq(s, RunLength(s, chars) + 1, Len(s))

\* The byte-wise order of strings.
CompareText(x, y) ==
  LET n == Min({m \in 1 .. Len(x) + 1 : m > Len(x) \/ m > Len(y) \/ x[m] # y[m]})
  IN  IF n > Len(x) \/ n > Len(y) THEN Sign(Len(x) - Len(y)) ELSE Sign(x[n] - y[n])

\* The number that a run of digits denotes.
NumberOf(digits) == FoldLeft(LAMBDA n, c : 10 * n + (c - Zero), 0, digits)

\* A number below a hundred in decimal.
DecimalOf(n) == IF n < 10 THEN <<Zero + n>> ELSE <<Zero + (n \div 10), Zero + (n % 10)>>

\* What strconv.Atoi accepts, and what it returns.
Signed(s)   == s # <<>> /\ s[1] \in {Plus, Dash}
Unsigned(s) == IF Signed(s) THEN Tail(s) ELSE s
IntOf(s)    == IF Signed(s) /\ s[1] = Dash THEN -NumberOf(Unsigned(s))
                                           ELSE NumberOf(Unsigned(s))
IsInt(s)    == /\ Unsigned(s) # <<>>
               /\ Run(Unsigned(s), Digits) = Unsigned(s)
               /\ IntOf(s) \in Ints

\* The epoch of a version and what comes after it.  Text before the first colon
\* that is no int stays part of the version.
SplitEpoch(v) ==
  LET colon == SelectInSeq(v, LAMBDA c : c = Colon)
      first == SubSeq(v, 1, colon - 1)
  IN  IF colon > 0 /\ IsInt(first)
      THEN [epoch |-> IntOf(first), rest |-> SubSeq(v, colon + 1, Len(v))]
      ELSE [epoch |-> 0, rest |-> v]

\* The order of sequences of numbers, entry by entry; a sequence that ends goes
\* on with blanks.
ComparePadded(x, y, blank) ==
  LET At(s, n) == IF n <= Len(s) THEN s[n] ELSE blank
      differ   == {n \in 1 .. Len(x) + Len(y) : At(x, n) # At(y, n)}
  IN  IF differ = {} THEN 0 ELSE Sign(At(x, Min(differ)) - At(y, Min(differ)))

=============================================================================
