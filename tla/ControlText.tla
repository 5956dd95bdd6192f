---------------------------- MODULE ControlText ----------------------------
(***************************************************************************)
(* The control paragraphs of Debian packages (internal/deb/control.go):    *)
(* what Add reads from a .deb, and what it writes to a Packages file and   *)
(* reads back with the next operation.  A text is a sequence of bytes, a   *)
(* package the sequence of its fields.                                     *)
(***************************************************************************)
EXTENDS Naturals, SequencesExt

CONSTANT Required   \* the names of the fields that a package must have

LF    == 10
CR    == 13
Space == 32
Colon == 58

\* TrimSpace leaves nothing of the line, TrimSuffix takes one CR off it.
Blank(line)      == Range(line) \subseteq {Space, CR}
TrimSuffix(line) == IF line # <<>> /\ Last(line) = CR THEN Front(line) ELSE line

\* The pieces between the LFs, one more than there are LFs.
Split(text) ==
  LET ends == <<0>> \o SelectSeq([n \in DOMAIN text |-> n], LAMBDA n : text[n] = LF)
                    \o <<Len(text) + 1>>
  IN  [n \in 1 .. Len(ends) - 1 |-> SubSeq(text, ends[n] + 1, ends[n + 1] - 1)]

SplitLines(text) == [n \in DOMAIN Split(text) |-> TrimSuffix(Split(text)[n])]

Continues(line) == line[1] = Space

\* The name goes up to the first colon; one space after it is not of the value.
FieldOf(line) ==
  LET colon == SelectInSeq(line, LAMBDA c : c = Colon)
      value == SubSeq(line, colon + 1, Len(line))
  IN  [name  |-> SubSeq(line, 1, colon - 1),
       value |-> IF value # <<>> /\ Head(value) = Space THEN Tail(value) ELSE value]

\* A line that continues a field is added to its value with the space it begins with.
AddLine(fields, line) ==
  IF Continues(line)
  THEN [fields EXCEPT ![Len(fields)].value = @ \o <<LF>> \o line]
  ELSE Append(fields, FieldOf(line))

\* The lines up to the next blank line are one paragraph.
ParseParagraph(lines, start) ==
  LET next == CHOOSE n \in start .. Len(lines) + 1 :
                /\ n = Len(lines) + 1 \/ Blank(lines[n])
                /\ \A k \in start .. n - 1 : ~Blank(lines[k])
      para == SubSeq(lines, start, next - 1)
      ok   == /\ para # <<>> => ~Continues(para[1])
              /\ \A k \in DOMAIN para : Continues(para[k]) \/ Colon \in Range(para[k])
  IN  [ok     |-> ok,
       fields |-> IF ok THEN FoldLeft(AddLine, <<>>, para) ELSE <<>>,
       next   |-> next]

\* The value of the first field of this name; a field that is not there is empty.
Get(fields, name) ==
  LET n == SelectInSeq(fields, LAMBDA f : f.name = name)
  IN  IF n > 0 THEN fields[n].value ELSE <<>>

\* newPackage accepts the fields.
IsPackage(fields) == \A name \in Required : Get(fields, name) # <<>>

\* A .deb's control file: the first paragraph, which begins with the first line.
ParseControl(text) ==
  LET p == ParseParagraph(SplitLines(text), 1)
  IN  [ok |-> p.ok /\ IsPackage(p.fields), fields |-> p.fields]

RECURSIVE ParseFrom(_, _)
ParseFrom(lines, pos) ==
  IF pos > Len(lines) THEN [ok |-> TRUE, pkgs |-> <<>>]
  ELSE IF Blank(lines[pos]) THEN ParseFrom(lines, pos + 1)
  ELSE LET p    == ParseParagraph(lines, pos)
           rest == ParseFrom(lines, p.next)
       IN  IF p.ok /\ IsPackage(p.fields)
           THEN [ok |-> rest.ok, pkgs |-> <<p.fields>> \o rest.pkgs]
           ELSE [ok |-> FALSE, pkgs |-> <<>>]

\* All paragraphs of a Packages file.
ParseControlFile(text) == ParseFrom(SplitLines(text), 1)

-----------------------------------------------------------------------------

\* A value that begins with an LF, or with nothing, has no space before it.
FormatField(f) ==
  f.name \o <<Colon>>
    \o (IF f.value = <<>> \/ Head(f.value) = LF THEN <<>> ELSE <<Space>>)
    \o f.value \o <<LF>>

FormatStanza(fields) ==
  FoldLeft(LAMBDA text, f : text \o FormatField(f), <<>>, fields)

\* Mutant: no blank line between the stanzas.
BuildPackagesClose(pkgs) ==
  FoldLeft(LAMBDA text, fields : text \o FormatStanza(fields), <<>>, pkgs)

\* A blank line between stanzas (buildPackages in internal/apt/apt.go).
BuildPackages(pkgs) ==
  FoldLeft(LAMBDA text, fields :
             text \o (IF text = <<>> THEN <<>> ELSE <<LF>>) \o FormatStanza(fields),
           <<>>, pkgs)

=============================================================================
