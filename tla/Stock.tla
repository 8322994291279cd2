-------------------------------- MODULE Stock --------------------------------
(***************************************************************************)
(* A seller's inventory rows and the listings made of them: the bulk bars  *)
(* of the inventory and listings pages, the listing builder, the blank     *)
(* listing creator and the CSV exports (server.ts, app/store.ts,           *)
(* app/exporters.ts), with the statements of several requests interleaved. *)
(*                                                                         *)
(* An order that ships (Orders) and a listing that goes live or ends at    *)
(* eBay (Publish) write the same rows: here each is one step.  Prices,     *)
(* titles, quantities and the Best Offer flag are data.                    *)
(***************************************************************************)
EXTENDS Integers, Sequences, FiniteSets

CONSTANTS
    Rows,         \* inventory rows
    Desks,        \* requests being served at the same time
    MaxListings,  \* bound: listings made
    MaxRequests,  \* bound: requests made
    Starts,       \* start times a seller picks for a schedule, all after 0
    Gap           \* the minutes between two of its listings ("Space Out")

\* The limits are numbers, and a schedule's times are minutes after the start.
StockHolds ==
    /\ MaxListings \in Nat /\ MaxRequests \in Nat
    /\ Starts \subseteq Nat \ {0} /\ Gap \in Nat
ASSUME StockAssumption == StockHolds

Blank == "blank"     \* listings.inventory_id is null
Never == 0           \* listings.scheduled_at is null

VARIABLES
    row,      \* row[r]: inventory.status
    byHand,   \* rows the seller marked as listed: history
    lst,      \* the listings by id: row, status, scheduled_at, a slab?
    desk,     \* the request each desk is serving
    made      \* requests made so far

stock == <<row, byHand, lst, desk, made>>

Waiting == [pc |-> "idle", do |-> "none", ids |-> {}, cur |-> Blank,
            n |-> 0, start |-> Never, file |-> {}]

StockInit ==
    /\ row = [r \in Rows |-> "in_stock"]
    /\ byHand = {}
    /\ lst = <<>>
    /\ desk = [s \in Desks |-> Waiting]
    /\ made = 0

Ids == DOMAIN lst
Unlisted == {"draft", "scheduled", "exported"}  \* what scheduleListing may change

NewListing(r, at, slab) ==
    [row |-> r, status |-> IF at = Never THEN "draft" ELSE "scheduled", due |-> at, slab |-> slab]

Request(s, r) ==
    /\ desk[s].pc = "idle"
    /\ made < MaxRequests
    /\ made' = made + 1
    /\ desk' = [desk EXCEPT ![s] = r]

\* The next id of the selection is done.
Advance(s, id) ==
    LET left == desk[s].ids \ {id}
    IN  desk' = [desk EXCEPT ![s] =
            IF left = {} THEN Waiting
            ELSE [desk[s] EXCEPT !.pc = "next", !.ids = left, !.cur = Blank, !.n = desk[s].n + 1]]

-----------------------------------------------------------------------------
(* Rows: "list", "listed" and "in_stock" of the inventory page, the        *)
(* listing builder, blank listings.                                        *)

RowsBulk(s, do, ids) ==
    /\ Request(s, [Waiting EXCEPT !.pc = "next", !.do = do, !.ids = ids])
    /\ UNCHANGED <<row, byHand, lst>>

\* The builder lists one row, as a draft or for a time.
Build(s, r, at) ==
    /\ Request(s, [Waiting EXCEPT !.pc = "next", !.do = "list", !.ids = {r}, !.start = at])
    /\ UNCHANGED <<row, byHand, lst>>

\* A blank listing has no row to mark.
BlankListing(s, slab) ==
    /\ Request(s, Waiting)
    /\ Len(lst) < MaxListings
    /\ lst' = Append(lst, NewListing(Blank, Never, slab))
    /\ UNCHANGED <<row, byHand>>

\* Mutant of InsertListing: the row is marked before the listing is there.
MarkThenInsert(s) ==
    /\ desk[s].do = "list" /\ Len(lst) < MaxListings
    /\ \/ /\ desk[s].pc = "next"
          /\ \E r \in desk[s].ids :
                /\ row' = [row EXCEPT ![r] = "listed"]
                /\ desk' = [desk EXCEPT ![s].pc = "insert", ![s].cur = r]
          /\ UNCHANGED lst
       \/ /\ desk[s].pc = "insert"
          /\ lst' = Append(lst, NewListing(desk[s].cur, desk[s].start, FALSE))
          /\ Advance(s, desk[s].cur)
          /\ UNCHANGED row
    /\ UNCHANGED <<byHand, made>>

\* createListing's INSERT; nothing asks what the row's status is.
InsertListing(s) ==
    /\ desk[s].pc = "next" /\ desk[s].do = "list"
    /\ Len(lst) < MaxListings
    /\ \E r \in desk[s].ids :
          /\ lst' = Append(lst, NewListing(r, desk[s].start, FALSE))
          /\ desk' = [desk EXCEPT ![s].pc = "mark", ![s].cur = r]
    /\ UNCHANGED <<row, byHand, made>>

\* createListing's UPDATE of the row, a statement of its own.
MarkRow(s) ==
    /\ desk[s].pc = "mark"
    /\ row' = [row EXCEPT ![desk[s].cur] = "listed"]
    /\ Advance(s, desk[s].cur)
    /\ UNCHANGED <<byHand, lst, made>>

\* "Mark as listed" and "not listed", a statement per row.
MarkByHand(s) ==
    /\ desk[s].pc = "next" /\ desk[s].do \in {"listed", "in_stock"}
    /\ \E r \in desk[s].ids :
          /\ row' = [row EXCEPT ![r] = desk[s].do]
          /\ byHand' = IF desk[s].do = "listed" THEN byHand \cup {r} ELSE byHand \ {r}
          /\ Advance(s, r)
    /\ UNCHANGED <<lst, made>>

-----------------------------------------------------------------------------
(* Listings: schedule with spacing, back to draft, mark as listed.         *)

\* start = Never: back to drafts.
ListingsBulk(s, ids, start) ==
    /\ Request(s, [Waiting EXCEPT !.pc = "next", !.do = "schedule", !.ids = ids, !.start = start])
    /\ UNCHANGED <<row, byHand, lst>>

\* scheduleListing on the next one; it leaves alone what is live or ended, and the
\* count goes on all the same.
ScheduleNext(s) ==
    /\ desk[s].pc = "next" /\ desk[s].do = "schedule"
    /\ \E l \in desk[s].ids :
          LET at == IF desk[s].start = Never THEN Never ELSE desk[s].start + desk[s].n * Gap
          IN  /\ lst' = IF lst[l].status \in Unlisted
                        THEN [lst EXCEPT ![l] = NewListing(lst[l].row, at, lst[l].slab)] ELSE lst
              /\ Advance(s, l)
    /\ UNCHANGED <<row, byHand, made>>

\* "Mark as listed": one statement, whatever the statuses were.
MarkListings(s, ids) ==
    /\ Request(s, Waiting)
    /\ lst' = [l \in Ids |-> IF l \in ids THEN [lst[l] EXCEPT !.status = "exported"] ELSE lst[l]]
    /\ UNCHANGED <<row, byHand>>

-----------------------------------------------------------------------------
(* A CSV export: listings are read, the file is written, and the ones that *)
(* were read are marked, those the file leaves out with them.              *)

\* The channels, and what each file leaves out: a listing with a row behind it, which is
\* exported as inventory, and from TCGplayer's a slab.  Whatnot's and Shopify's are as eBay's.
Channels == {"ebay", "tcgplayer"}
LeftOut(l, fmt) == lst[l].row # Blank \/ (fmt = "tcgplayer" /\ lst[l].slab)
InFile(fmt, ids) == {l \in ids : ~LeftOut(l, fmt)}

\* listings=: whichever of the seller's it names.  all=1 takes the newest blank ones.
ExportRead(s, fmt, ids) ==
    /\ ids # {}
    /\ Request(s, [Waiting EXCEPT !.pc = "exported", !.do = fmt, !.ids = ids, !.file = InFile(fmt, ids)])
    /\ UNCHANGED <<row, byHand, lst>>

Exported(ids) ==
    lst' = [l \in Ids |-> IF l \in ids /\ lst[l].status \in {"draft", "scheduled"}
                          THEN [lst[l] EXCEPT !.status = "exported"] ELSE lst[l]]

\* Mutant of ExportMark: every blank draft of the seller is marked.
ExportMarkAll(s) ==
    /\ desk[s].pc = "exported"
    /\ Exported({l \in Ids : lst[l].row = Blank})
    /\ desk' = [desk EXCEPT ![s] = Waiting]
    /\ UNCHANGED <<row, byHand, made>>

\* markListingsExported.
ExportMark(s) ==
    /\ desk[s].pc = "exported"
    /\ Exported(desk[s].ids)
    /\ desk' = [desk EXCEPT ![s] = Waiting]
    /\ UNCHANGED <<row, byHand, made>>

-----------------------------------------------------------------------------
(* What the other modules' requests do to these rows, and a stop.          *)

Sell(r) ==
    /\ row' = [row EXCEPT ![r] = "sold"]
    /\ UNCHANGED <<byHand, lst, desk, made>>

AtEbay(l, status) ==
    /\ lst[l].status # "ended"
    /\ lst' = [lst EXCEPT ![l].status = status]
    /\ UNCHANGED <<row, byHand, desk, made>>

\* A failed statement or a restart: the rest of the selection is left as it is.
Stop(s) ==
    /\ desk[s].pc # "idle"
    /\ desk' = [desk EXCEPT ![s] = Waiting]
    /\ UNCHANGED <<row, byHand, lst, made>>

StockNext ==
    \/ \E s \in Desks :
          \/ \E do \in {"list", "listed", "in_stock"}, ids \in SUBSET Rows \ {{}} : RowsBulk(s, do, ids)
          \/ \E r \in Rows, at \in Starts : Build(s, r, at)
          \/ \E slab \in BOOLEAN : BlankListing(s, slab)
          \/ \E ids \in SUBSET Ids \ {{}} :
                \/ \E start \in Starts \cup {Never} : ListingsBulk(s, ids, start)
                \/ MarkListings(s, ids)
                \/ \E fmt \in Channels : ExportRead(s, fmt, ids)
          \/ InsertListing(s) \/ MarkRow(s) \/ MarkByHand(s)
          \/ ScheduleNext(s) \/ ExportMark(s) \/ Stop(s)
    \/ \E r \in Rows : Sell(r)
    \/ \E l \in Ids, status \in {"published", "ended"} : AtEbay(l, status)

StockSpec == StockInit /\ [][StockNext]_stock

-----------------------------------------------------------------------------
(* Properties.                                                             *)

\* A row shown as listed has a listing, or its seller said so by hand: wherever a
\* request stops between createListing's two statements, no card is shown as listed
\* that nothing would sell.
ListedHasDraft ==
    \A r \in Rows : row[r] = "listed" => r \in byHand \/ \E l \in Ids : lst[l].row = r

\* What an export marks it had read, and it is in the file the seller got unless the file
\* leaves its like out; and nothing that went live or ended since the read is marked,
\* nothing that was listed since either.
ExportTrue ==
    [][\A s \in Desks : desk[s].pc = "exported" /\ desk'[s] # desk[s] =>
          \A l \in Ids : lst'[l].status # lst[l].status =>
              /\ lst[l].status \in {"draft", "scheduled"}
              /\ l \in desk[s].file \/ (l \in desk[s].ids /\ LeftOut(l, desk[s].do))]_stock

=============================================================================
