------------------------------ MODULE Multipart ------------------------------
(***************************************************************************)
(* The body of an upload: as a browser writes it (external), and as        *)
(* upload.ts takes it apart.                                               *)
(*                                                                         *)
(* A body is a sequence of tokens.  The bytes the parser looks for are     *)
(* tokens of their own; the boundary, a header line and a piece of a       *)
(* photo's content are one token each.  The browser picks a boundary that  *)
(* is in no photo; dashes and line ends may be anywhere.                   *)
(***************************************************************************)
EXTENDS Integers, SequencesExt

None == "none"

Dash == <<"-">>
CR == <<"cr">>
LF == <<"lf">>
Boundary == <<"boundary">>
Disposition(field, filename) == <<"disposition", field, filename>>
ContentType(type) == <<"type", type>>

CRLF == <<CR, LF>>
Delim == <<Dash, Dash, Boundary>>

-----------------------------------------------------------------------------
(* The browser: a part is a field (no filename) or a file.                 *)

Written(part) ==
    Delim \o CRLF \o <<Disposition(part.field, part.filename)>>
    \o (IF part.filename = None THEN <<>> ELSE CRLF \o <<ContentType(part.type)>>)
    \o CRLF \o CRLF \o part.data \o CRLF

WriteMultipart(parts) ==
    FlattenSeq([i \in DOMAIN parts |-> Written(parts[i])]) \o Delim \o <<Dash, Dash>> \o CRLF

-----------------------------------------------------------------------------
(* parseMultipart.                                                         *)

Places(s, t) == {i \in 1..(Len(s) - Len(t) + 1) : SubSeq(s, i, i + Len(t) - 1) = t}
ReadsAt(s, i, t) == i >= 1 /\ i + Len(t) - 1 <= Len(s) /\ SubSeq(s, i, i + Len(t) - 1) = t

\* What is between two delimiters, without the line ends that belong to them.
Between(s, from, to) ==
    LET start == IF ReadsAt(s, from, CRLF) THEN from + 2 ELSE from
        end == IF ReadsAt(s, to - 1, CRLF) THEN to - 2 ELSE to
    IN  SubSeq(s, start, end)

\* A part's header ends at its first blank line; one without a blank line is no part.
Segment(raw) ==
    LET blank == CHOOSE i \in Places(raw, CRLF \o CRLF) : \A j \in Places(raw, CRLF \o CRLF) : i <= j
        header == SubSeq(raw, 1, blank - 1)
        line(k) == SelectSeq(header, LAMBDA t : t[1] = k)
    IN  IF Places(raw, CRLF \o CRLF) = {} \/ line("disposition") = <<>> THEN <<>>
        ELSE <<[field |-> line("disposition")[1][2], filename |-> line("disposition")[1][3],
                type |-> IF line("type") = <<>> THEN "application/octet-stream" ELSE line("type")[1][2],
                data |-> SubSeq(raw, blank + 4, Len(raw))]>>

\* The delimiters are walked in order up to the closing one.
ParseMultipart(s) ==
    LET cuts == SetToSortSeq(Places(s, Delim), <)
        closing == {i \in DOMAIN cuts : ReadsAt(s, cuts[i] + Len(Delim), <<Dash, Dash>>)} \cup {Len(cuts)}
        last == CHOOSE i \in closing : \A j \in closing : i <= j
    IN  FlattenSeq([i \in 1..(last - 1) |->
            Segment(Between(s, cuts[i] + Len(Delim), cuts[i + 1] - 1))])

\* Parts that say a filename are files, unless it is empty; the last field of a name counts.
FilesIn(parts) == SelectSeq(parts, LAMBDA p : p.filename \notin {None, ""})
FieldIn(parts, name) ==
    LET said == SelectSeq(parts, LAMBDA p : p.filename = None /\ p.field = name)
    IN  IF said = <<>> THEN <<>> ELSE Last(said).data

=============================================================================
