----------------------------- MODULE ArArchive -----------------------------
(***************************************************************************)
(* readAr (internal/deb/ar.go), which takes a .deb apart.  An archive is a *)
(* sequence of cells after the global magic: two cells stand for the 60    *)
(* bytes of a header, its size and its magic, one for a byte of data or of *)
(* padding.  Names are left out.                                           *)
(***************************************************************************)
EXTENDS Integers, SequencesExt

HeaderLen == 2
Newline   == 10
Magic     == 96

\* The cells that Atoi reads as a size.
Sizes == 0 .. 9

Refused == [ok |-> FALSE, members |-> <<>>]

\* Mutant: a size that goes beyond the end is not noticed.
CutSizeAccepted(data, pos, size) == size \in Sizes

\* The member lies within the archive.
SizeAccepted(data, pos, size) == size \in Sizes /\ pos + size <= Len(data)

\* The members from the cell after pos on.
RECURSIVE ReadFrom(_, _)
ReadFrom(data, pos) ==
  LET header == SubSeq(data, pos + 1, pos + HeaderLen)
      start  == pos + HeaderLen
      size   == header[1]
      rest   == ReadFrom(data, start + size + (size % 2))
      member == SubSeq(data, start + 1, IF start + size > Len(data) THEN Len(data)
                                                                   ELSE start + size)
  IN  IF pos >= Len(data) THEN [ok |-> TRUE, members |-> <<>>]
      ELSE IF pos + HeaderLen > Len(data)
           THEN [ok      |-> \A n \in pos + 1 .. Len(data) : data[n] = Newline,
                 members |-> <<>>]
      ELSE IF header[2] # Magic \/ ~SizeAccepted(data, start, size) THEN Refused
      ELSE IF ~rest.ok THEN Refused
      ELSE [ok |-> TRUE, members |-> <<member>> \o rest.members]

ReadAr(data) == ReadFrom(data, 0)

-----------------------------------------------------------------------------
(* Reference: an archive as ar writes it.                                  *)

Encode(member) ==
  <<Len(member), Magic>> \o member \o (IF Len(member) % 2 = 1 THEN <<Newline>> ELSE <<>>)

=============================================================================
