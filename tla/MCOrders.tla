------------------------------ MODULE MCOrders ------------------------------
(***************************************************************************)
(* A small instance of Orders for TLC: two SKUs, one of them carried by    *)
(* two rows, and a third that no row carries; and one of Sheets.  The two  *)
(* share no state: a behaviour is about the one or the other.              *)
(***************************************************************************)
EXTENDS Orders, TLC

CONSTANTS r1, r2, a, b, x

TwoRows == {r1, r2}
RowsBySku == [k \in {"A", "B", "AB", "none"} |->
                CASE k = "A" -> {r1} [] k = "B" -> {r2} [] k = "AB" -> {r1, r2} [] OTHER -> {}]
ThreeAndTwo == r1 :> 3 @@ r2 :> 2

\* A SKU two rows carry, next to one no row has.
Either == <<<<"AB", 2>>, <<"none", 1>>>>

TypedEither == {Either}
\* eBay's buyer takes two lines on one row.
BuysB == x :> <<<<"B", 1>>, <<"B", 1>>>>

FetchAndShip == a :> {"ship", "pick", "delete", "mark"} @@ b :> {"place", "fetch"}

None == [k \in Kinds |-> 0]
FlowBudget == [None EXCEPT !["place"] = 1, !["fetch"] = 2, !["pick"] = 2, !["ship"] = 2, !["delete"] = 1, !["mark"] = 1, !["die"] = 1]

-----------------------------------------------------------------------------
(* Pull sheets: two sets of headings; names with commas, quotes, line      *)
(* breaks and blanks in them; one order number or several.                 *)

CONSTANTS Imports
VARIABLES text, file, pending, booked, sent, broken

Comma == ","
Quote == "quote"
Break == "lf"

Cells == {<<>>, <<"x">>, <<"x", Comma, "y">>, <<Quote, "x">>, <<"cr", Break, "x">>, <<" ">>, <<"x", Break>>}
OrderNumbers == {<<"7">>, <<Quote, "7">>, <<"7", Comma>>}
Four == <<<<"order #">>, <<"title", " ">>, <<"qty">>, <<"sku">>>>
Three == <<<<"card name">>, <<"name">>, <<"order">>>>
WithSkus == {<<Four, <<o, n, q, k>>, <<p, <<"x">>, <<"2">>, <<>>>>>> :
                o, p \in OrderNumbers, n \in Cells, q \in {<<>>, <<"2">>, <<"0">>}, k \in {<<>>, <<"S", Comma, "1">>}}
WithoutSkus == {<<Three, <<m, n, o>>, <<>>, <<n, m, o>>>> : m, n \in Cells, o \in {<<"7">>, <<>>}}

Sheet == INSTANCE Sheets WITH Files <- WithSkus \cup WithoutSkus, NumberOf <- "2" :> 2 @@ "0" :> 0,
                              SkuNamed <- <<"x">> :> <<"S">>

sheets == <<text, file, pending, booked, sent, broken>>

InitBoth == Init /\ Sheet!SheetsInit

NextBoth ==
    \/ /\ sent = 0
       /\ Next
       /\ UNCHANGED sheets
    \/ /\ \A k \in Kinds : asked[k] = 0
       /\ Sheet!SheetsNext
       /\ UNCHANGED vars

SpecBoth == InitBoth /\ [][NextBoth]_<<vars, sheets>>

LinesInOrders == Sheet!LinesInOrders

=============================================================================
