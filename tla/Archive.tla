------------------------------- MODULE Archive -------------------------------
(***************************************************************************)
(* The archive of sold cards (sold_sales): the harvest of connected        *)
(* sellers' paid eBay orders (app/soldharvest.ts), run by a timer, by the  *)
(* seller's "Fetch eBay orders" and after connecting, beside the owner's   *)
(* feed uploads, sample loads and removals (app/soldimport.ts, server.ts). *)
(*                                                                         *)
(* eBay's orders are external.  Time counts days.  Titles, prices, the     *)
(* card a sale is attached to and the demo flag are data: a sale is an     *)
(* order line or a line of a feed, and its table entry a number of rows.   *)
(***************************************************************************)
EXTENDS Integers, FiniteSets

CONSTANTS
    Sellers,     \* sellers of the program
    Accounts,    \* eBay accounts
    MayConnect,  \* MayConnect[x]: the eBay accounts seller x signs in with
    Orders,      \* paid-for or abandoned eBay orders, one line each
    AccountOf,   \* AccountOf[o]: the eBay account order o is placed with
    Feed,        \* lines of the owner's feed files
    SourceOf,    \* SourceOf[f]: the source name line f is uploaded under
    Keyed,       \* the feed lines that carry an external_id
    Sessions,    \* requests and background jobs at the same time
    Clock,       \* the session that is the harvest timer
    Serves,      \* Serves[s]: whose requests session s makes
    Budget,      \* bound: requests of a seller, of the owner or of a boot, and faults, in a behaviour
    Overlap,     \* OVERLAP_DAYS
    Backfill,    \* BACKFILL_DAYS
    Late,        \* a buyer pays at most this many days after ordering
    Slow,        \* fewer days than this pass while a seller's orders are folded in
    LastDay      \* bound on the days of a behaviour

Kinds == {"seller", "owner", "fault"}

EbayOrders == "ebay-orders"     \* HARVEST_SOURCE
Sample == "sample"              \* SAMPLE_SOURCE
Sources == {SourceOf[f] : f \in Feed} \cup {EbayOrders}
Sales == Orders \cup Feed
Never == -1
NoSeller == 0
NoAccount == "none"
NoSale == "none"

ASSUME ArchiveAssumption ==
    /\ Sellers \subseteq Nat \ {NoSeller}
    /\ IsFiniteSet(Sellers)
    /\ NoAccount \notin Accounts
    /\ MayConnect \in [Sellers -> SUBSET Accounts]
    /\ AccountOf \in [Orders -> Accounts]
    /\ Orders \cap Feed = {}
    /\ NoSale \notin Sales
    /\ EbayOrders \notin {SourceOf[f] : f \in Feed}
    /\ Keyed \subseteq Feed
    /\ Serves \in [Sessions -> SUBSET Kinds]
    /\ Budget \in [Kinds -> Nat]
    /\ {Overlap, Backfill, Late, Slow, LastDay} \subseteq Nat
    /\ Backfill >= LastDay

Days == 0..LastDay

VARIABLES
    today,
    order,     \* order[o]: eBay's state of order o and the day it was placed (external)
    conn,      \* conn[x]: seller x's row of ebay_connections: account, last_sold_harvest
    archive,   \* archive[r]: how many rows of sold_sales hold sale r
    removed,   \* the orders whose rows the owner removed with their source
    asked,     \* how many requests of each kind were made
    sess       \* what each session is doing and what it has read

vars == <<today, order, conn, archive, removed, asked, sess>>

OrderRec == [state : {"none", "unpaid", "paid", "cancelled", "refunded"}, placed : Days]
ConnRec == [account : Accounts \cup {NoAccount}, mark : Days \cup {Never}]
Off == [account |-> NoAccount, mark |-> Never]
Connected(x) == conn[x] # Off

Locals == [pc : {"idle", "begin", "fetch", "import", "insert"},
           todo : SUBSET Sellers, who : Sellers \cup {NoSeller}, since : Int, began : Days,
           rows : SUBSET Sales, row : Sales \cup {NoSale}]
Idle == [pc |-> "idle", todo |-> {}, who |-> NoSeller, since |-> 0, began |-> 0,
         rows |-> {}, row |-> NoSale]

Init ==
    /\ today = 0
    /\ order = [o \in Orders |-> [state |-> "none", placed |-> 0]]
    /\ conn = [x \in Sellers |-> Off]
    /\ archive = [r \in Sales |-> 0]
    /\ removed = {}
    /\ asked = [k \in Kinds |-> 0]
    /\ sess = [s \in Sessions |-> Idle]

-----------------------------------------------------------------------------
(* eBay and the calendar.                                                  *)

\* A buyer orders, pays within Late days or lets it lapse; a paid order may be cancelled.
Buyer(o, st) ==
    /\ \/ order[o].state = "none" /\ st = "unpaid"
       \/ order[o].state = "unpaid" /\ st = "paid" /\ today - order[o].placed <= Late
       \/ order[o].state = "unpaid" /\ st = "cancelled"
       \/ order[o].state = "paid" /\ st = "refunded"
    /\ order' = [order EXCEPT ![o] = [state |-> st,
                     placed |-> IF st = "unpaid" THEN today ELSE order[o].placed]]
    /\ UNCHANGED <<today, conn, archive, removed, asked, sess>>

DayPasses ==
    /\ today < LastDay
    /\ \A s \in Sessions : sess[s].who # NoSeller => today - sess[s].began < Slow
    /\ today' = today + 1
    /\ UNCHANGED <<order, conn, archive, removed, asked, sess>>

-----------------------------------------------------------------------------

Charge(kind) == asked[kind] < Budget[kind] /\ asked' = [asked EXCEPT ![kind] = @ + 1]

Ask(s, kind) == sess[s].pc = "idle" /\ kind \in Serves[s] /\ Charge(kind)

\* The harvest of seller x's orders starts.
Begin(x, todo) == [Idle EXCEPT !.pc = "begin", !.who = x, !.began = today, !.todo = todo]

\* What a session goes on with: the timer takes the next seller in order of id.
Rest(todo) ==
    IF todo = {} THEN Idle
    ELSE LET x == CHOOSE y \in todo : \A z \in todo : y <= z
         IN  Begin(x, todo \ {x})

\* A seller's harvest is over, by its end or by an error the timer only logs.
Over(s) == sess' = [sess EXCEPT ![s] = Rest(sess[s].todo)]

\* Mutant of Tick: only sellers whose orders were never harvested.
TickNew(s) ==
    /\ s = Clock
    /\ sess[s].pc = "idle"
    /\ \E x \in Sellers : Connected(x) /\ conn[x].mark = Never
    /\ sess' = [sess EXCEPT ![s] = Rest({x \in Sellers : Connected(x) /\ conn[x].mark = Never})]
    /\ UNCHANGED <<today, order, conn, archive, removed, asked>>

\* The timer's tick (not while one is busy) reads who is connected.
Tick(s) ==
    /\ s = Clock
    /\ sess[s].pc = "idle"
    /\ \E x \in Sellers : Connected(x)
    /\ sess' = [sess EXCEPT ![s] = Rest({x \in Sellers : Connected(x)})]
    /\ UNCHANGED <<today, order, conn, archive, removed, asked>>

\* "Fetch eBay orders", for one seller.
FetchButton(s, x) ==
    /\ Ask(s, "seller")
    /\ Connected(x)
    /\ sess' = [sess EXCEPT ![s] = Begin(x, {})]
    /\ UNCHANGED <<today, order, conn, archive, removed>>

\* completeConnect upserts the row, keeping last_sold_harvest; then a harvest starts.
Connect(s, x, a) ==
    /\ Ask(s, "seller")
    /\ a \in MayConnect[x]
    /\ conn' = [conn EXCEPT ![x].account = a]
    /\ sess' = [sess EXCEPT ![s] = Begin(x, {})]
    /\ UNCHANGED <<today, order, archive, removed>>

Disconnect(s, x) ==
    /\ Ask(s, "seller")
    /\ Connected(x)
    /\ conn' = [conn EXCEPT ![x] = Off]
    /\ UNCHANGED <<today, order, archive, removed, sess>>

\* Mutant of Since: a later harvest reads on from the watermark, without the overlap.
SinceMark(mark) == IF mark = Never THEN today - Backfill ELSE mark

Since(mark) == IF mark = Never THEN today - Backfill ELSE mark - Overlap

\* harvestSoldSalesFor reads the seller's connection; one who disconnected is passed over.
ReadMark(s) ==
    /\ sess[s].pc = "begin"
    /\ IF Connected(sess[s].who)
       THEN sess' = [sess EXCEPT ![s].pc = "fetch", ![s].since = Since(conn[sess[s].who].mark)]
       ELSE Over(s)
    /\ UNCHANGED <<today, order, conn, archive, removed, asked>>

\* Mutant of SoldLines: an order counts as sold before it is paid.
PlacedLines(a, since) ==
    {o \in Orders : AccountOf[o] = a /\ order[o].placed >= since
                                     /\ order[o].state \in {"unpaid", "paid"}}

\* fetchCompletedOrderLines: paid, not cancelled, created since then.
SoldLines(a, since) ==
    {o \in Orders : AccountOf[o] = a /\ order[o].placed >= since /\ order[o].state = "paid"}

\* eBay's answer with the token of the account connected now; the call may fail.
Fetch(s) ==
    /\ sess[s].pc = "fetch"
    /\ \/ /\ Connected(sess[s].who)
          /\ sess' = [sess EXCEPT ![s] = [sess[s] EXCEPT !.pc = "import",
                          !.rows = SoldLines(conn[sess[s].who].account, sess[s].since)]]
          /\ UNCHANGED asked
       \/ ~Connected(sess[s].who) /\ Over(s) /\ UNCHANGED asked
       \/ Charge("fault") /\ Over(s)
    /\ UNCHANGED <<today, order, conn, archive, removed>>

-----------------------------------------------------------------------------
(* importSoldFeed, for a harvest's lines and for a feed's.                 *)

\* The owner uploads a file or loads the sample.
Import(s, source) ==
    /\ Ask(s, "owner")
    /\ sess' = [sess EXCEPT ![s] = [Idle EXCEPT !.pc = "import",
                                        !.rows = {f \in Feed : SourceOf[f] = source}]]
    /\ UNCHANGED <<today, order, conn, archive, removed>>

\* startSoldSampleOnBoot with SOLD_SAMPLE_ON_BOOT: only into an empty archive.
BootSample(s) ==
    /\ Ask(s, "owner")
    /\ \A r \in Sales : archive[r] = 0
    /\ sess' = [sess EXCEPT ![s] = [Idle EXCEPT !.pc = "import",
                                        !.rows = {f \in Feed : SourceOf[f] = Sample}]]
    /\ UNCHANGED <<today, order, conn, archive, removed>>

\* Mutant of ImportRow: a row without an external_id is not looked up.
ImportRowUnseen(s) ==
    /\ sess[s].pc = "import"
    /\ \E r \in sess[s].rows :
          /\ archive' = [archive EXCEPT ![r] = IF r \in Orders \cup Keyed THEN 1 ELSE @ + 1]
          /\ removed' = removed \ {r}
          /\ sess' = [sess EXCEPT ![s].rows = @ \ {r}]
    /\ UNCHANGED <<today, order, conn, asked>>

\* A row with an external_id is upserted; one without is looked up first.
ImportRow(s) ==
    /\ sess[s].pc = "import"
    /\ \E r \in sess[s].rows :
          IF r \in Orders \cup Keyed
          THEN /\ archive' = [archive EXCEPT ![r] = 1]
               /\ removed' = removed \ {r}
               /\ sess' = [sess EXCEPT ![s].rows = @ \ {r}]
          ELSE /\ sess' = IF archive[r] > 0
                          THEN [sess EXCEPT ![s].rows = @ \ {r}]
                          ELSE [sess EXCEPT ![s].rows = @ \ {r}, ![s].pc = "insert", ![s].row = r]
               /\ UNCHANGED <<archive, removed>>
    /\ UNCHANGED <<today, order, conn, asked>>

InsertRow(s) ==
    /\ sess[s].pc = "insert"
    /\ archive' = [archive EXCEPT ![sess[s].row] = @ + 1]
    /\ sess' = [sess EXCEPT ![s].pc = "import", ![s].row = NoSale]
    /\ UNCHANGED <<today, order, conn, removed, asked>>

\* Every row is in.
ImportDone(s) ==
    /\ sess[s].pc = "import"
    /\ sess[s].rows = {} /\ sess[s].who = NoSeller
    /\ sess' = [sess EXCEPT ![s] = Idle]
    /\ UNCHANGED <<today, order, conn, archive, removed, asked>>

\* After a harvest's last row: last_sold_harvest = now(), on the row the seller has by now.
Mark(s) ==
    /\ sess[s].pc = "import"
    /\ sess[s].rows = {} /\ sess[s].who # NoSeller
    /\ LET x == sess[s].who
       IN  conn' = IF Connected(x) THEN [conn EXCEPT ![x].mark = today] ELSE conn
    /\ Over(s)
    /\ UNCHANGED <<today, order, archive, removed, asked>>

\* The owner removes a source ("undo a bad upload").
RemoveSource(s, source) ==
    /\ Ask(s, "owner")
    /\ LET gone == IF source = EbayOrders THEN Orders ELSE {f \in Feed : SourceOf[f] = source}
       IN  /\ archive' = [r \in Sales |-> IF r \in gone THEN 0 ELSE archive[r]]
           /\ removed' = removed \cup {o \in gone \cap Orders : archive[o] > 0}
    /\ UNCHANGED <<today, order, conn, sess>>

\* A boot without SOLD_SAMPLE_ON_BOOT removes the sample.
RemoveSample(s) ==
    /\ Ask(s, "owner")
    /\ archive' = [r \in Sales |-> IF r \in Feed /\ SourceOf[r] = Sample THEN 0 ELSE archive[r]]
    /\ UNCHANGED <<today, order, conn, removed, sess>>

\* A statement fails or the process restarts; the timer then starts afresh.
Die(s) ==
    /\ sess[s].pc # "idle"
    /\ Charge("fault")
    /\ sess' = [sess EXCEPT ![s] = Idle]
    /\ UNCHANGED <<today, order, conn, archive, removed>>

-----------------------------------------------------------------------------

Steps(s) ==
    \/ ReadMark(s) \/ Fetch(s)
    \/ ImportRow(s) \/ InsertRow(s) \/ ImportDone(s) \/ Mark(s)

Requests(s) ==
    \/ \E x \in Sellers : FetchButton(s, x) \/ Disconnect(s, x)
    \/ \E x \in Sellers, a \in Accounts : Connect(s, x, a)
    \/ \E source \in Sources \ {EbayOrders} : Import(s, source)
    \/ \E source \in Sources : RemoveSource(s, source)
    \/ BootSample(s) \/ RemoveSample(s)

Next ==
    \/ \E o \in Orders, st \in {"unpaid", "paid", "cancelled", "refunded"} : Buyer(o, st)
    \/ DayPasses
    \/ \E s \in Sessions : Tick(s) \/ Requests(s) \/ Steps(s) \/ Die(s)

Spec == Init /\ [][Next]_vars

\* The timer keeps ticking, and its statements and calls return or time out.
FairSpec == Spec /\ WF_vars(Tick(Clock) \/ Steps(Clock))

-----------------------------------------------------------------------------
(* Properties.                                                             *)

\* The tables, eBay's orders and the session records keep their types.
TypeOK ==
    /\ today \in Days
    /\ order \in [Orders -> OrderRec]
    /\ conn \in [Sellers -> ConnRec]
    /\ archive \in [Sales -> Nat]
    /\ removed \subseteq Orders
    /\ asked \in [Kinds -> Nat]
    /\ sess \in [Sessions -> Locals]

\* "Later harvests re-read this much overlap so a late-paid order isn't missed": a paid
\* order of a connected account is in the archive, or young enough for the seller's next
\* harvest to ask for it, whatever ran, failed or overlapped before.
NoneOutOfReach ==
    \A x \in Sellers, o \in Orders :
        (/\ Connected(x) /\ conn[x].account = AccountOf[o]
         /\ order[o].state = "paid" /\ archive[o] = 0 /\ o \notin removed)
            => order[o].placed >= IF conn[x].mark = Never THEN today - Backfill
                                  ELSE conn[x].mark - Overlap

\* "Only money that changed hands is a comp": whatever the archive holds of eBay's orders
\* has been paid.
OnlyPaid == \A o \in Orders : archive[o] > 0 => order[o].state \in {"paid", "refunded"}

\* A sale is archived once, however often its feed or its seller's orders are read and
\* wherever an earlier import stopped, while the owner runs one import at a time.
SameSaleOnce == \A r \in Sales : archive[r] <= 1

\* A paid order of an account that stays connected is archived in the end, unless it is
\* refunded first or the owner removes it.
PaidIsArchived ==
    \A x \in Sellers, o \in Orders :
        (Connected(x) /\ conn[x].account = AccountOf[o] /\ order[o].state = "paid" /\ o \notin removed)
            ~> \/ ~(Connected(x) /\ conn[x].account = AccountOf[o])
               \/ archive[o] > 0 \/ order[o].state = "refunded" \/ o \in removed

=============================================================================
