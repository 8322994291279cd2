------------------------------- MODULE Orders -------------------------------
(***************************************************************************)
(* The Orders page of one seller (app/orders.ts, server.ts, ebay-sell.ts): *)
(* orders typed in or fetched from eBay, the pick toggles, shipping with   *)
(* its stock movement and the quantity sync to eBay, and deletion, with    *)
(* the statements of concurrent requests interleaved.                      *)
(*                                                                         *)
(* Every query() is one autocommitted statement.  A transaction's writes   *)
(* are one action; what a request read before them stays in its session    *)
(* record.  Buyers, addresses, tracking, prices and titles are left out.   *)
(***************************************************************************)
EXTENDS Integers, Sequences, FiniteSetsExt

CONSTANTS
    Rows,       \* inventory rows
    NoRow,      \* a line that matched no row
    RowsOf,     \* RowsOf[sku]: the rows carrying a SKU; nothing makes it unique
    Stock,      \* Stock[r]: copies of row r to begin with
    Baskets,    \* what a typed order may hold: sequences of <<SKU, quantity>>
    Refs,       \* orders eBay buyers may place
    BasketOf,   \* BasketOf[ref]: what the buyer of ref ordered
    NoRef,      \* an order that is not eBay's
    Sessions,   \* requests being served at the same time
    Serves,     \* Serves[s]: the kinds of request session s makes
    Budget,     \* bound: Budget[k] requests of kind k are made in a behaviour
    MayDie      \* the request kinds that may stop between two statements

\* "die" is no request: it bounds how often one stops.
Kinds == {"place", "fetch", "pick", "ship", "delete", "mark", "die"}

Statuses == {"pending", "picked", "shipped", "gone"}   \* "gone": the row was deleted
LineRec == [row : Rows \cup {NoRow}, qty : Nat \ {0}, picked : BOOLEAN]
OrderRec == [ref : Refs \cup {NoRef}, status : Statuses, lines : Seq(LineRec)]

ASSUME StockAssumption ==
    /\ NoRow \notin Rows
    /\ NoRef \notin Refs /\ IsFiniteSet(Refs)
    /\ Stock \in [Rows -> Nat \ {0}]
    /\ \A k \in DOMAIN RowsOf : RowsOf[k] \subseteq Rows
    /\ \A b \in Baskets \cup {BasketOf[f] : f \in Refs} :
          b \in Seq((DOMAIN RowsOf) \X (Nat \ {0})) /\ b # <<>>

ASSUME RequestAssumption ==
    /\ Budget \in [Kinds -> Nat]
    /\ Serves \in [Sessions -> SUBSET Kinds]
    /\ MayDie \subseteq Kinds

VARIABLES
    inv,      \* inventory: quantity and status of each row
    orders,   \* orders with their items; an order's id is its index
    listing,  \* the row's published listing: live or ended, and its quantity
    shelf,    \* copies of the row eBay offers to buyers (external)
    ebay,     \* the orders at eBay (external)
    asked,    \* how many requests of each kind were made
    sess      \* the request each session is serving and what it has read

vars == <<inv, orders, listing, shelf, ebay, asked, sess>>
market == <<listing, shelf, ebay>>

Idle == [pc |-> "idle", o |-> 0, l |-> 0, val |-> FALSE, num |-> 0,
         lines |-> <<>>, refs |-> {}]

Init ==
    /\ inv = [r \in Rows |-> [qty |-> Stock[r], status |-> "listed"]]
    /\ orders = <<>>
    /\ listing = [r \in Rows |-> [live |-> TRUE, qty |-> Stock[r]]]
    /\ shelf = Stock
    /\ ebay = [f \in Refs |-> "none"]
    /\ asked = [k \in Kinds |-> 0]
    /\ sess = [s \in Sessions |-> Idle]

-----------------------------------------------------------------------------
(* Helpers.                                                                *)

Ask(s, kind) ==
    /\ sess[s].pc = "idle"
    /\ kind \in Serves[s]
    /\ asked[kind] < Budget[kind]
    /\ asked' = [asked EXCEPT ![kind] = @ + 1]

Finish(s) == sess' = [sess EXCEPT ![s] = Idle]

Ids == 1..Len(orders)

Exists(o) == o \in Ids /\ orders[o].status # "gone"

\* Units of row r in a sequence of lines.
Units(lines, r) == MapThenSumSet(LAMBDA l : lines[l].qty, {l \in DOMAIN lines : lines[l].row = r})

AllPicked(lines) == \A l \in DOMAIN lines : lines[l].picked

-----------------------------------------------------------------------------
(* createOrder: one transaction; each SKU takes some row that carries it.  *)

\* LIMIT 1 with no ORDER BY: any of the rows.
CreateOrder(ref, b) ==
    \E rows \in [DOMAIN b -> Rows \cup {NoRow}] :
        /\ \A l \in DOMAIN b : IF RowsOf[b[l][1]] = {} THEN rows[l] = NoRow
                               ELSE rows[l] \in RowsOf[b[l][1]]
        /\ orders' = Append(orders,
               [ref |-> ref, status |-> "pending",
                lines |-> [l \in DOMAIN b |-> [row |-> rows[l], qty |-> b[l][2], picked |-> FALSE]]])

\* handleOrderCreate; each order of an imported pull sheet is one of these too.
Place(s, b) ==
    /\ Ask(s, "place")
    /\ CreateOrder(NoRef, b)
    /\ UNCHANGED <<inv, market, sess>>

-----------------------------------------------------------------------------
(* fetchEbayOrders: eBay's open orders, then the refs already imported,    *)
(* then one createOrder for each of the others.                            *)

FetchStart(s) ==
    /\ Ask(s, "fetch")
    /\ sess' = [sess EXCEPT ![s] = [Idle EXCEPT
                    !.pc = "fetchSeen", !.refs = {f \in Refs : ebay[f] = "open"}]]
    /\ UNCHANGED <<inv, orders, market>>

\* Mutant of ExistingRefs: shipped orders are not looked at.
WaitingRefs == {orders[o].ref : o \in {p \in Ids : Exists(p) /\ orders[p].status # "shipped"}} \ {NoRef}

ExistingRefs == {orders[o].ref : o \in {p \in Ids : Exists(p)}} \ {NoRef}

FetchSeen(s) ==
    /\ sess[s].pc = "fetchSeen"
    /\ sess' = [sess EXCEPT ![s] = [sess[s] EXCEPT !.pc = "fetchOrder", !.refs = @ \ ExistingRefs]]
    /\ UNCHANGED <<inv, orders, market, asked>>

FetchOrder(s) ==
    /\ sess[s].pc = "fetchOrder"
    /\ \E f \in sess[s].refs :
          /\ CreateOrder(f, BasketOf[f])
          /\ sess' = [sess EXCEPT ![s] = [sess[s] EXCEPT !.refs = @ \ {f}]]
    /\ UNCHANGED <<inv, market, asked>>

FetchDone(s) ==
    /\ sess[s].pc = "fetchOrder"
    /\ sess[s].refs = {}
    /\ Finish(s)
    /\ UNCHANGED <<inv, orders, market, asked>>

-----------------------------------------------------------------------------
(* setItemPicked: read the order, write the item, count, write the order.  *)

PickStart(s, o, l, v) ==
    /\ Ask(s, "pick")
    /\ Exists(o) /\ orders[o].status # "shipped"
    /\ l \in DOMAIN orders[o].lines
    /\ sess' = [sess EXCEPT ![s] = [Idle EXCEPT !.pc = "pickItem", !.o = o, !.l = l, !.val = v]]
    /\ UNCHANGED <<inv, orders, market>>

PickItem(s) ==
    /\ sess[s].pc = "pickItem"
    /\ orders' = IF Exists(sess[s].o)
                 THEN [orders EXCEPT ![sess[s].o].lines[sess[s].l].picked = sess[s].val]
                 ELSE orders
    /\ sess' = [sess EXCEPT ![s] = [sess[s] EXCEPT !.pc = "pickCount", !.val = FALSE]]
    /\ UNCHANGED <<inv, market, asked>>

\* The items of a deleted order are gone with it: none is left to pick.
PickCount(s) ==
    /\ sess[s].pc = "pickCount"
    /\ sess' = [sess EXCEPT ![s] = [sess[s] EXCEPT
                    !.pc = "pickStatus", !.val = AllPicked(orders[sess[s].o].lines)]]
    /\ UNCHANGED <<inv, orders, market, asked>>

\* The order's status is written whatever it has become since it was read.
PickStatus(s) ==
    /\ sess[s].pc = "pickStatus"
    /\ orders' = IF Exists(sess[s].o)
                 THEN [orders EXCEPT ![sess[s].o].status = IF sess[s].val THEN "picked" ELSE "pending"]
                 ELSE orders
    /\ Finish(s)
    /\ UNCHANGED <<inv, market, asked>>

-----------------------------------------------------------------------------
(* shipOrder: read the order; then a transaction that reads the items and  *)
(* takes them off.                                                         *)

\* Mutant of ShipStart: a shipped order is shipped again.
ShipStartAgain(s, o) ==
    /\ Ask(s, "ship")
    /\ Exists(o)
    /\ sess' = [sess EXCEPT ![s] = [Idle EXCEPT !.pc = "shipLines", !.o = o]]
    /\ UNCHANGED <<inv, orders, market>>

\* An order that is shipped already goes straight on to afterShip.
ShipStart(s, o) ==
    /\ Ask(s, "ship")
    /\ Exists(o)
    /\ sess' = [sess EXCEPT ![s] = [Idle EXCEPT
                    !.pc = IF orders[o].status = "shipped" THEN "after" ELSE "shipLines", !.o = o]]
    /\ UNCHANGED <<inv, orders, market>>

ShipLines(s) ==
    /\ sess[s].pc = "shipLines"
    /\ sess' = [sess EXCEPT ![s] = [sess[s] EXCEPT
                    !.pc = "shipTx", !.lines = orders[sess[s].o].lines]]
    /\ UNCHANGED <<inv, orders, market, asked>>

\* Row by row GREATEST(0, quantity-n), "sold" at zero or below.
TakeOff(lines) ==
    [r \in Rows |->
        IF \A l \in DOMAIN lines : lines[l].row # r THEN inv[r]
        ELSE IF inv[r].qty > Units(lines, r) THEN [inv[r] EXCEPT !.qty = @ - Units(lines, r)]
        ELSE [qty |-> 0, status |-> "sold"]]

ShipTx(s) ==
    /\ sess[s].pc = "shipTx"
    /\ LET o == sess[s].o
       IN  /\ inv' = TakeOff(sess[s].lines)
           /\ orders' = IF ~Exists(o) THEN orders
                        ELSE [orders EXCEPT ![o] =
                                 [orders[o] EXCEPT !.status = "shipped",
                                     !.lines = [l \in DOMAIN orders[o].lines |->
                                                   [orders[o].lines[l] EXCEPT !.picked = TRUE]]]]
    /\ sess' = [sess EXCEPT ![s] = [sess[s] EXCEPT !.pc = "after", !.lines = <<>>]]
    /\ UNCHANGED <<market, asked>>

-----------------------------------------------------------------------------
(* afterShip: tell eBay, or push the rows' new quantities to eBay.         *)

AfterEbay(s) ==
    /\ sess[s].pc = "after"
    /\ Exists(sess[s].o) /\ orders[sess[s].o].ref # NoRef
    /\ ebay' = [ebay EXCEPT ![orders[sess[s].o].ref] = "shipped"]
    /\ Finish(s)
    /\ UNCHANGED <<inv, orders, listing, shelf, asked>>

AfterOther(s) ==
    /\ sess[s].pc = "after"
    /\ Exists(sess[s].o) => orders[sess[s].o].ref = NoRef
    /\ IF Exists(sess[s].o) /\ orders[sess[s].o].lines # <<>>
       THEN sess' = [sess EXCEPT ![s] = [Idle EXCEPT !.pc = "syncRead", !.lines = orders[sess[s].o].lines]]
       ELSE Finish(s)
    /\ UNCHANGED <<inv, orders, market, asked>>

\* syncQuantityForInventory, for each line: read the row, look for a live listing,
\* push the quantity to eBay, save it on the listing, end the listing at zero.
Row(s) == sess[s].lines[1].row

NextLine(s) ==
    IF Len(sess[s].lines) = 1 THEN Finish(s)
    ELSE sess' = [sess EXCEPT ![s] = [sess[s] EXCEPT !.pc = "syncRead", !.num = 0, !.lines = Tail(@)]]

\* A line that matched no row.
SyncSkip(s) ==
    /\ sess[s].pc = "syncRead"
    /\ Row(s) = NoRow
    /\ NextLine(s)
    /\ UNCHANGED <<inv, orders, market, asked>>

\* Mutant of SyncRead: the listing's quantity is pushed instead of the row's.
SyncReadListing(s) ==
    /\ sess[s].pc = "syncRead"
    /\ Row(s) # NoRow
    /\ sess' = [sess EXCEPT ![s] = [sess[s] EXCEPT !.pc = "syncLive", !.num = listing[Row(s)].qty]]
    /\ UNCHANGED <<inv, orders, market, asked>>

SyncRead(s) ==
    /\ sess[s].pc = "syncRead"
    /\ Row(s) # NoRow
    /\ sess' = [sess EXCEPT ![s] = [sess[s] EXCEPT !.pc = "syncLive", !.num = inv[Row(s)].qty]]
    /\ UNCHANGED <<inv, orders, market, asked>>

SyncLive(s) ==
    /\ sess[s].pc = "syncLive"
    /\ IF listing[Row(s)].live
       THEN sess' = [sess EXCEPT ![s] = [sess[s] EXCEPT !.pc = "syncPush"]]
       ELSE NextLine(s)
    /\ UNCHANGED <<inv, orders, market, asked>>

SyncPush(s) ==
    /\ sess[s].pc = "syncPush"
    /\ shelf' = [shelf EXCEPT ![Row(s)] = sess[s].num]
    /\ sess' = [sess EXCEPT ![s] = [sess[s] EXCEPT !.pc = "syncSave"]]
    /\ UNCHANGED <<inv, orders, listing, ebay, asked>>

SyncSave(s) ==
    /\ sess[s].pc = "syncSave"
    /\ listing' = IF listing[Row(s)].live THEN [listing EXCEPT ![Row(s)].qty = sess[s].num] ELSE listing
    /\ IF sess[s].num = 0
       THEN sess' = [sess EXCEPT ![s] = [sess[s] EXCEPT !.pc = "syncEnd"]]
       ELSE NextLine(s)
    /\ UNCHANGED <<inv, orders, shelf, ebay, asked>>

SyncEnd(s) ==
    /\ sess[s].pc = "syncEnd"
    /\ listing' = [listing EXCEPT ![Row(s)].live = FALSE]
    /\ NextLine(s)
    /\ UNCHANGED <<inv, orders, shelf, ebay, asked>>

-----------------------------------------------------------------------------
(* deleteOrder, the inventory page's status buttons, and eBay's buyers.    *)

\* Mutant of Delete: a shipped order can be deleted.
DeleteAny(s, o) ==
    /\ Ask(s, "delete")
    /\ Exists(o)
    /\ orders' = [orders EXCEPT ![o] = [orders[o] EXCEPT !.status = "gone", !.lines = <<>>]]
    /\ UNCHANGED <<inv, market, sess>>

\* One statement; it spares an order that is shipped by now.
Delete(s, o) ==
    /\ Ask(s, "delete")
    /\ Exists(o) /\ orders[o].status # "shipped"
    /\ orders' = [orders EXCEPT ![o] = [orders[o] EXCEPT !.status = "gone", !.lines = <<>>]]
    /\ UNCHANGED <<inv, market, sess>>

\* "Mark as listed" and "Mark as not listed" look at nothing.
Mark(s, r, st) ==
    /\ Ask(s, "mark")
    /\ inv' = [inv EXCEPT ![r].status = st]
    /\ UNCHANGED <<orders, market, sess>>

\* A buyer can order what eBay shows; eBay takes it off its own quantity.
Buy(f) ==
    /\ ebay[f] = "none"
    /\ \E rows \in [DOMAIN BasketOf[f] -> Rows] :
          LET wanted(r) == Units([l \in DOMAIN rows |-> [row |-> rows[l], qty |-> BasketOf[f][l][2]]], r)
          IN  /\ \A l \in DOMAIN rows : rows[l] \in RowsOf[BasketOf[f][l][1]]
              /\ \A r \in Rows : wanted(r) <= shelf[r]
              /\ shelf' = [r \in Rows |-> shelf[r] - wanted(r)]
    /\ ebay' = [ebay EXCEPT ![f] = "open"]
    /\ UNCHANGED <<inv, orders, listing, asked, sess>>

OpAt(pc) ==
    CASE pc \in {"fetchSeen", "fetchOrder"}              -> "fetch"
      [] pc \in {"pickItem", "pickCount", "pickStatus"}  -> "pick"
      [] OTHER                                           -> "ship"

\* A failed query or call, or a restart: what is committed stays.
Die(s) ==
    /\ sess[s].pc # "idle"
    /\ OpAt(sess[s].pc) \in MayDie
    /\ asked["die"] < Budget["die"]
    /\ asked' = [asked EXCEPT !["die"] = @ + 1]
    /\ Finish(s)
    /\ UNCHANGED <<inv, orders, market>>

Placing(s) ==
    \/ \E b \in Baskets : Place(s, b)
    \/ FetchStart(s) \/ FetchSeen(s) \/ FetchOrder(s) \/ FetchDone(s)
    \/ \E o \in Ids : Delete(s, o)

Picking(s) ==
    \/ \E o \in Ids : \E l \in DOMAIN orders[o].lines, v \in BOOLEAN : PickStart(s, o, l, v)
    \/ PickItem(s) \/ PickCount(s) \/ PickStatus(s)

Shipping(s) ==
    \/ \E o \in Ids : ShipStart(s, o)
    \/ ShipLines(s) \/ ShipTx(s)
    \/ AfterEbay(s) \/ AfterOther(s)
    \/ SyncSkip(s) \/ SyncRead(s) \/ SyncLive(s) \/ SyncPush(s) \/ SyncSave(s) \/ SyncEnd(s)
    \/ \E r \in Rows, st \in {"listed", "in_stock"} : Mark(s, r, st)

Next ==
    \/ \E s \in Sessions : Placing(s) \/ Picking(s) \/ Shipping(s) \/ Die(s)
    \/ \E f \in Refs : Buy(f)

Spec == Init /\ [][Next]_vars

-----------------------------------------------------------------------------
(* Properties.                                                             *)

Locals == [pc : {"idle", "fetchSeen", "fetchOrder", "pickItem", "pickCount", "pickStatus",
                 "shipLines", "shipTx", "after", "syncRead", "syncLive", "syncPush",
                 "syncSave", "syncEnd"},
           o : Nat, l : Nat, val : BOOLEAN, num : Nat, lines : Seq(LineRec), refs : SUBSET Refs]

\* The units of row r in the orders of a set.
UnitsOf(os, r) == MapThenSumSet(LAMBDA o : Units(orders[o].lines, r), os)

\* "Quantities come off inventory when you ship" (the Orders page): whatever was
\* interrupted or overlapped, the shipped orders' units are off the rows, once,
\* and no other order's are.
StockMatchesShipped ==
    \A r \in Rows :
        LET gone == UnitsOf({o \in Ids : orders[o].status = "shipped"}, r)
        IN  inv[r].qty = IF Stock[r] > gone THEN Stock[r] - gone ELSE 0

\* Fetching dedupes: interrupted and repeated fetches give an eBay order one order
\* here, also when that order is picked, shipped or deleted meanwhile.
ImportedOnce ==
    \A o, p \in Ids :
        Exists(o) /\ Exists(p) /\ orders[o].ref = orders[p].ref /\ orders[o].ref # NoRef => o = p

\* "Called after non-eBay sales so eBay stock stays true" (syncQuantityForInventory):
\* between requests, when no request has stopped half way, what eBay offers and
\* what eBay's waiting buyers are owed add up to what is on hand, for each row that
\* is not sold on eBay and elsewhere.
Owed(f, r) ==
    IF ebay[f] = "none" \/ \E o \in Ids : orders[o].ref = f /\ orders[o].status = "shipped"
    THEN 0
    ELSE MapThenSumSet(LAMBDA l : BasketOf[f][l][2],
                       {l \in DOMAIN BasketOf[f] : r \in RowsOf[BasketOf[f][l][1]]})

SoldBothWays ==
    {r \in Rows : /\ \E f \in Refs : \E l \in DOMAIN BasketOf[f] : r \in RowsOf[BasketOf[f][l][1]]
                  /\ \E o \in Ids : /\ orders[o].ref = NoRef /\ orders[o].status = "shipped"
                                     /\ Units(orders[o].lines, r) > 0}

EbayStockTrue ==
    (asked["die"] = 0 /\ \A s \in Sessions : sess[s].pc = "idle") =>
        \A r \in Rows \ SoldBothWays : shelf[r] + MapThenSumSet(LAMBDA f : Owed(f, r), Refs) = inv[r].qty

\* The seller's one request at a time implements the abstract fulfilment.
MaxOrders == Budget["place"] + Cardinality(Refs) * Budget["fetch"]

Need(o) == [r \in Rows |-> IF Exists(o) THEN Units(orders[o].lines, r) ELSE 0]

Stage(o) == CASE o \notin Ids                                 -> "none"
              [] o \in Ids /\ orders[o].status = "gone"    -> "deleted"
              [] o \in Ids /\ orders[o].status = "shipped" -> "shipped"
              [] OTHER                                      -> "waiting"

Fulfil == INSTANCE Fulfilment WITH
    Ids <- 1..MaxOrders,
    Needs <- [Rows -> Nat],
    state <- [o \in 1..MaxOrders |-> Stage(o)],
    need <- [o \in 1..MaxOrders |-> Need(o)],
    units <- [r \in Rows |-> inv[r].qty]

FulfilmentSpec == Fulfil!Spec

=============================================================================
