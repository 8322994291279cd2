-------------------------------- MODULE Sheets --------------------------------
(***************************************************************************)
(* The CSV files of the program: what its exports write (app/exporters.ts, *)
(* app/listing.ts), the two readers (app/orders.ts, app/soldimport.ts),    *)
(* and a TCGplayer pull sheet on its way into orders (app/orders.ts).      *)
(*                                                                         *)
(* A text is a sequence of tokens: the characters the format gives a       *)
(* meaning to, and any other piece of text as one token.                   *)
(***************************************************************************)
EXTENDS Integers, SequencesExt, FiniteSetsExt

CONSTANTS
    Files,        \* the files that may be sent: sequences of rows, the first the headings
    NumberOf,     \* NumberOf[token]: the number a token starts with, for those that do
    SkuNamed,     \* SkuNamed[name]: SKU of the first unsold inventory row of that card
    Imports       \* bound: files sent

Comma == ","
Quote == "quote"
CR == "cr"
LF == "lf"
Space == " "

VARIABLES
    text,     \* the file that was sent
    file,     \* its rows, as they were written: history
    pending,  \* the groups of lines importPullSheet has still to make orders of
    booked,   \* the orders made of this file
    sent,     \* how many files were sent
    broken    \* did the import of this file stop half way?

sheets == <<text, file, pending, booked, sent, broken>>

-----------------------------------------------------------------------------
(* Writing: cell and csv, the same in both modules.                        *)

Doubled(cell) == FlattenSeq([i \in DOMAIN cell |-> IF cell[i] = Quote THEN <<Quote, Quote>> ELSE <<cell[i]>>])

Cell(cell) ==
    IF ToSet(cell) \cap {Comma, Quote, CR, LF} # {} THEN <<Quote>> \o Doubled(cell) \o <<Quote>> ELSE cell

\* cells joined with commas, rows ended with CR LF
Write(rows) ==
    FlattenSeq([r \in DOMAIN rows |->
        FlattenSeq([c \in DOMAIN rows[r] |->
            IF c = 1 THEN Cell(rows[r][c]) ELSE <<Comma>> \o Cell(rows[r][c])]) \o <<CR, LF>>])

-----------------------------------------------------------------------------
(* Reading: parseCsv, the same automaton in both modules.                  *)

IsBlank(cell) == ToSet(cell) \subseteq {Space, CR, LF}

Reading == [rows |-> <<>>, row |-> <<>>, cell |-> <<>>, quoted |-> FALSE, skip |-> FALSE]

EndCell(st) == [st EXCEPT !.row = Append(st.row, st.cell), !.cell = <<>>]

\* A row of blank cells is dropped.
EndRow(st) ==
    LET row == Append(st.row, st.cell)
    IN  [st EXCEPT !.rows = IF \E c \in DOMAIN row : ~IsBlank(row[c]) THEN Append(st.rows, row) ELSE st.rows,
                   !.row = <<>>, !.cell = <<>>]

Take(st, ch) == [st EXCEPT !.cell = Append(st.cell, ch)]

\* Inside quotes: a doubled quote stands for one, a single one ends them.
InQuotes(st, ch, next) ==
    IF ch # Quote THEN Take(st, ch)
    ELSE IF next = Quote THEN [Take(st, Quote) EXCEPT !.skip = TRUE]
    ELSE [st EXCEPT !.quoted = FALSE]

Read(s) ==
    LET next(i) == IF i < Len(s) THEN s[i + 1] ELSE Space
        step(st, i) ==
            IF st.skip THEN [st EXCEPT !.skip = FALSE]
            ELSE IF st.quoted THEN InQuotes(st, s[i], next(i))
            ELSE CASE s[i] = Quote -> [st EXCEPT !.quoted = TRUE]
                   [] s[i] = Comma -> EndCell(st)
                   [] s[i] = CR -> [EndRow(st) EXCEPT !.skip = (next(i) = LF)]
                   [] s[i] = LF -> EndRow(st)
                   [] OTHER -> Take(st, s[i])
    IN  EndRow(FoldLeftDomain(step, Reading, s)).rows

-----------------------------------------------------------------------------
(* parsePullSheet: columns by their headings, one line per row that names  *)
(* a card or a SKU.                                                        *)

Headings == [name |-> <<"product name", "name", "title", "card name">>,
             quantity |-> <<"quantity", "qty", "count">>,
             sku |-> <<"sku", "custom label", "custom sku", "my sku">>,
             ref |-> <<"order number", "order #", "order id", "order">>]

Trim(cell) ==
    LET ink == {i \in DOMAIN cell : cell[i] \notin {Space, CR, LF}}
    IN  IF ink = {} THEN <<>> ELSE SubSeq(cell, Min(ink), Max(ink))

\* The first heading of the list that some column has, and its first column.
Column(head, key) ==
    LET at(h) == {c \in DOMAIN head : Trim(head[c]) = <<Headings[key][h]>>}
        found == {h \in DOMAIN Headings[key] : at(h) # {}}
    IN  IF found = {} THEN 0 ELSE Min(at(Min(found)))

Get(head, row, key) ==
    LET c == Column(head, key) IN IF c \in DOMAIN row THEN Trim(row[c]) ELSE <<>>

\* No quantity, or one that is no positive number, is one copy.
Quantity(cell) ==
    IF cell # <<>> /\ cell[1] \in DOMAIN NumberOf /\ NumberOf[cell[1]] > 0 THEN NumberOf[cell[1]] ELSE 1

Line(head, row) ==
    [name |-> Get(head, row, "name"), sku |-> Get(head, row, "sku"),
     quantity |-> Quantity(Get(head, row, "quantity")), ref |-> Get(head, row, "ref")]

ParsePullSheet(rows) ==
    IF Len(rows) < 2 THEN <<>>
    ELSE LET lines == [i \in DOMAIN Tail(rows) |-> Line(rows[1], Tail(rows)[i])]
         IN  SelectSeq(lines, LAMBDA l : l.name # <<>> \/ l.sku # <<>>)

-----------------------------------------------------------------------------
(* importPullSheet: one order per order number, in the order they come.    *)

\* Mutant of Groups: a group is the last line with its order number.
LastOfGroup(lines) ==
    LET firsts == SelectSeq([i \in DOMAIN lines |-> i], LAMBDA i : \A j \in 1..(i - 1) : lines[j].ref # lines[i].ref)
    IN  [g \in DOMAIN firsts |->
            LET same == {i \in DOMAIN lines : lines[i].ref = lines[firsts[g]].ref}
            IN  <<lines[Max(same)]>>]

Groups(lines) ==
    LET firsts == SelectSeq([i \in DOMAIN lines |-> i], LAMBDA i : \A j \in 1..(i - 1) : lines[j].ref # lines[i].ref)
    IN  [g \in DOMAIN firsts |-> SelectSeq(lines, LAMBDA l : l.ref = lines[firsts[g]].ref)]

\* A line's SKU, or that of an unsold row of the card it names.
Item(l) == [l EXCEPT !.sku = IF l.sku # <<>> THEN l.sku
                             ELSE IF l.name \in DOMAIN SkuNamed THEN SkuNamed[l.name] ELSE <<>>]

SheetsInit ==
    /\ text = <<>> /\ file = <<>> /\ pending = <<>> /\ booked = <<>>
    /\ sent = 0
    /\ broken = FALSE

\* A file written by a program that writes as this one does, and sent.
SendSheet(f) ==
    /\ pending = <<>>
    /\ sent < Imports
    /\ sent' = sent + 1
    /\ file' = f
    /\ text' = Write(f)
    /\ pending' = Groups(ParsePullSheet(Read(Write(f))))
    /\ booked' = <<>>
    /\ broken' = FALSE

\* createOrder, a transaction of its own (Orders).
BookGroup ==
    /\ pending # <<>>
    /\ booked' = Append(booked, [i \in DOMAIN Head(pending) |-> Item(Head(pending)[i])])
    /\ pending' = Tail(pending)
    /\ UNCHANGED <<text, file, sent, broken>>

\* A failed statement or a restart: the orders made so far stay.
StopImport ==
    /\ pending # <<>>
    /\ pending' = <<>>
    /\ broken' = TRUE
    /\ UNCHANGED <<text, file, booked, sent>>

SheetsNext == (\E f \in Files : SendSheet(f)) \/ BookGroup \/ StopImport

-----------------------------------------------------------------------------
(* Properties.                                                             *)

Lines == ParsePullSheet(file)
Bookings(ref) == {b \in DOMAIN booked : booked[b][1].ref = ref}

\* Whatever its cells hold (commas, quotes, line breaks, blanks, rows of nothing), a
\* sheet that was imported whole is in the orders line by line: an order number makes
\* one order, with the lines that carry it, each once and in the sheet's order.
LinesInOrders ==
    pending = <<>> /\ ~broken =>
        \A ref \in {Lines[i].ref : i \in DOMAIN Lines} :
            \E b \in DOMAIN booked :
                /\ Bookings(ref) = {b}
                /\ LET mine == SelectSeq(Lines, LAMBDA l : l.ref = ref)
                   IN  booked[b] = [i \in DOMAIN mine |-> Item(mine[i])]

=============================================================================
