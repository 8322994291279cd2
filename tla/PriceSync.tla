------------------------------ MODULE PriceSync ------------------------------
(***************************************************************************)
(* The daily price sync (scripts/sync-tcgcsv.ts): set by set it finds the  *)
(* TCGplayer group, matches the cards to products and replaces the day's   *)
(* prices of each printing, statement by statement, with no transaction.   *)
(* A set that fails is left half done and the next one is tried; a sync    *)
(* that is stopped is started again, the same day or a later one.          *)
(*                                                                         *)
(* A name is a sequence of words, so that one name may begin or contain    *)
(* another.  The low, mid and high prices of a printing are written alike: *)
(* one "spread" row stands for the three.  One sync runs at a time; the    *)
(* catalog import, which writes the same rows, does not run beside it.     *)
(***************************************************************************)
EXTENDS Naturals, Sequences, FiniteSets, FiniteSetsExt, SequencesExt

CONSTANTS
    SetOrder,    \* the sets of the game, in order of id
    SetName,     \* a set's name, after SET_ALIASES
    Groups,      \* TCGplayer's groups
    GroupName,
    Cards,
    SetOf,       \* [Cards -> the sets]
    CardName,
    CardNumber,  \* collector numbers; NoNumber for none
    Products,
    GroupOf,     \* [Products -> Groups]
    ProductName,
    ProductNumber,
    SubTypes,    \* TCGplayer's printing names
    FinishOf,    \* the finish a sub-type maps to (SUBTYPE_FINISH)
    Mirrors,     \* what the mirror may say: [Products -> [SubTypes -> cents] \cup {Unlisted}]
    FirstRows,   \* price_points as seeded
    FirstFinishes, \* card_variants as seeded
    Days,        \* bound: days that pass
    Syncs,       \* bound: syncs started
    Changes,     \* bound: changes of the mirror
    Faults       \* bound: sets that fail, syncs that are stopped

None == "none"
NoNumber == 0
SeedDay == 0      \* the day of the prices there are before the first sync (SEED_ON)
Unlisted == <<>>

Finishes == {FinishOf[t] : t \in SubTypes}
AllSets == Range(SetOrder)

\* A printing has one real price of each kind a day, and each real price has a real one of
\* equal cents in the day's history (a history row: in the day's market).  Prices older than
\* the first sync are another matter: the seed writes real ones without a history.
Once(rs) ==
    \A r \in rs : (~r.demo /\ r.day # SeedDay) =>
        /\ \A q \in rs : (q.card = r.card /\ q.finish = r.finish /\ q.day = r.day
                             /\ q.kind = r.kind /\ ~q.demo) => q = r
        /\ \E q \in rs : /\ q.kind = (IF r.kind = "history" THEN "market" ELSE "history")
                         /\ q.card = r.card /\ q.finish = r.finish /\ q.day = r.day
                         /\ q.cents = r.cents /\ ~q.demo

\* What the sync is run on: the sets are a list, and the real prices are older than it.
SyncHolds ==
    /\ SetOrder \in Seq(AllSets)
    /\ \A r \in FirstRows : ~r.demo => r.day = SeedDay
    /\ SetOf \in [Cards -> AllSets]
    /\ GroupOf \in [Products -> Groups]
    /\ None \notin Groups \cup Products
    /\ \A m \in Mirrors : \A p \in Products : m[p] = Unlisted \/ m[p] \in [SubTypes -> Nat]
    /\ FirstFinishes \in [Cards -> SUBSET Finishes]
ASSUME PriceSyncAssumption == SyncHolds

VARIABLES
    day,         \* today
    mirror,      \* what the mirror says today (external)
    group,       \* sets.tcgplayer_group_id
    product,     \* cards.tcgplayer_product_id
    finishes,    \* card_variants: a card's printings
    rows,        \* price_points
    synced,      \* meta.tcgcsv_last_sync
    sync,        \* where the sync is and what it has read
    used         \* how many of what Days .. Faults bound there were

syncVars == <<day, mirror, group, product, finishes, rows, synced, sync, used>>

\* nr tells equal rows apart.
Row(c, f, d, k, cents, n) ==
    [card |-> c, finish |-> f, day |-> d, kind |-> k, cents |-> cents,
     grade |-> None, demo |-> FALSE, nr |-> n]

Resting == [at |-> "idle", sets |-> <<>>, read |-> {}, products |-> {}, prices |-> <<>>,
         day |-> 0, cards |-> {}, card |-> None, finishes |-> {}, subs |-> {}, sub |-> None]

MarketInit ==
    /\ day = 1 /\ mirror \in Mirrors
    /\ group = [s \in AllSets |-> None]
    /\ product = [c \in Cards |-> None]
    /\ finishes = FirstFinishes /\ rows = FirstRows
    /\ synced = 0 /\ sync = Resting
    /\ used = [days |-> 0, syncs |-> 0, changes |-> 0, faults |-> 0]

Use(what, bound) == used[what] < bound /\ used' = [used EXCEPT ![what] = @ + 1]

At(pc) == sync.at = pc
Goto(pc) == sync' = [sync EXCEPT !.at = pc]
TheSet == Head(sync.sets)
\* On to the next set, with nothing kept of this one.
NextSet == [Resting EXCEPT !.at = "set", !.sets = Tail(sync.sets)]

-----------------------------------------------------------------------------
(* The world outside.  A sync reads the mirror and then the clock once for *)
(* each set: what changes at another time may as well change here.         *)

DayPasses ==
    /\ At("fetch") /\ Use("days", Days)
    /\ day' = day + 1
    /\ UNCHANGED <<mirror, group, product, finishes, rows, synced, sync>>

\* The mirror refreshes, once a day or so, also in the middle of a sync.
MirrorMoves ==
    /\ At("fetch") /\ Use("changes", Changes)
    /\ \E m \in Mirrors \ {mirror} : mirror' = m
    /\ UNCHANGED <<day, group, product, finishes, rows, synced, sync>>

-----------------------------------------------------------------------------
(* The sync.                                                               *)

\* The groups were fetched: a sync that fails there has written nothing.
Start ==
    /\ At("idle") /\ Use("syncs", Syncs)
    /\ sync' = [Resting EXCEPT !.at = "set", !.sets = SetOrder]
    /\ UNCHANGED <<day, mirror, group, product, finishes, rows, synced>>

\* resolveGroup: the group stored earlier, else one of that very name, else the one with the
\* shortest name that contains the set's.
Names(long, short) ==
    \E i \in 0..(Len(long) - Len(short)) : SubSeq(long, i + 1, i + Len(short)) = short
Candidates(s) ==
    LET exact == {g \in Groups : GroupName[g] = SetName[s]}
    IN  IF exact # {} THEN exact ELSE {g \in Groups : Names(GroupName[g], SetName[s])}
Shortest(gs) == {g \in gs : \A h \in gs : Len(GroupName[g]) <= Len(GroupName[h])}

ResolveGroup ==
    /\ At("set") /\ sync.sets # <<>>
    /\ IF group[TheSet] # None THEN Goto("fetch") /\ UNCHANGED group
       ELSE IF Candidates(TheSet) = {} THEN sync' = NextSet /\ UNCHANGED group
       ELSE /\ \E g \in Shortest(Candidates(TheSet)) : group' = [group EXCEPT ![TheSet] = g]
            /\ Goto("fetch")
    /\ UNCHANGED <<day, mirror, product, finishes, rows, synced, used>>

\* The group's products and its prices come from two requests that run side by side.
Listed == {p \in Products : GroupOf[p] = group[TheSet] /\ mirror[p] # Unlisted}
ReadProducts ==
    /\ At("fetch") /\ "products" \notin sync.read
    /\ sync' = [sync EXCEPT !.read = @ \cup {"products"}, !.products = Listed]
    /\ UNCHANGED <<day, mirror, group, product, finishes, rows, synced, used>>
ReadPrices ==
    /\ At("fetch") /\ "prices" \notin sync.read
    /\ sync' = [sync EXCEPT !.read = @ \cup {"prices"}, !.prices = [p \in Listed |-> mirror[p]]]
    /\ UNCHANGED <<day, mirror, group, product, finishes, rows, synced, used>>

\* Then the set's cards are read, and what day it is.
ReadCards ==
    /\ At("fetch") /\ sync.read = {"products", "prices"}
    /\ sync' = [sync EXCEPT !.at = "card", !.day = day, !.cards = {c \in Cards : SetOf[c] = TheSet}]
    /\ UNCHANGED <<day, mirror, group, product, finishes, rows, synced, used>>

\* A product that is stored and still listed; else by collector number, the only one there
\* is or the one whose name fits best; else by name; else the only one whose name begins
\* with the card's.
Matches(c) ==
    LET on == {p \in sync.products : CardNumber[c] # NoNumber /\ ProductNumber[p] = CardNumber[c]}
        named(ps) == {p \in ps : ProductName[p] = CardName[c]}
        longer(ps) == {p \in ps : IsPrefix(CardName[c], ProductName[p])}
        shorter(ps) == {p \in ps : IsPrefix(ProductName[p], CardName[c])}
        tied == IF Cardinality(on) = 1 THEN on
                ELSE IF named(on) # {} THEN named(on)
                ELSE IF longer(on) # {} THEN longer(on) ELSE shorter(on)
    IN  IF product[c] \in sync.products THEN {product[c]}
        ELSE IF tied # {} THEN tied
        ELSE IF named(sync.products) # {} THEN named(sync.products)
        ELSE IF Cardinality(longer(sync.products)) = 1 THEN longer(sync.products) ELSE {}

\* The card's product is stored, and its printings and the prices it has are at hand.
NextCard ==
    /\ At("card")
    /\ \E c \in sync.cards :
          IF Matches(c) = {}
          THEN sync' = [sync EXCEPT !.cards = @ \ {c}] /\ UNCHANGED product
          ELSE \E p \in Matches(c) :
                  /\ product' = [product EXCEPT ![c] = p]
                  /\ sync' = [sync EXCEPT !.at = "price", !.cards = @ \ {c}, !.card = c,
                                 !.finishes = finishes[c],
                                 !.subs = IF p \in DOMAIN sync.prices
                                          THEN {t \in SubTypes : sync.prices[p][t] > 0} ELSE {}]
    /\ UNCHANGED <<day, mirror, group, finishes, rows, synced, used>>

CardDone ==
    /\ At("price") /\ sync.subs = {}
    /\ Goto("card")
    /\ UNCHANGED <<day, mirror, group, product, finishes, rows, synced, used>>

\* The next price: a printing the card does not have yet is created.
NextPrice ==
    /\ At("price")
    /\ \E t \in sync.subs :
          /\ sync' = [sync EXCEPT !.at = "delete", !.subs = @ \ {t}, !.sub = t,
                                  !.finishes = @ \cup {FinishOf[t]}]
          /\ finishes' = [finishes EXCEPT ![sync.card] = @ \cup {FinishOf[t]}]
    /\ UNCHANGED <<day, mirror, group, product, rows, synced, used>>

Printing == FinishOf[sync.sub]
Cents == sync.prices[product[sync.card]][sync.sub]
OfPrinting(r) == r.card = sync.card /\ r.finish = Printing
NrOf(k) == 1 + Cardinality({r \in rows : OfPrinting(r) /\ r.day = sync.day /\ r.kind = k /\ ~r.demo})
NewRow(k) == Row(sync.card, Printing, sync.day, k, Cents, NrOf(k))

\* Mutant of DeleteToday: the day's history stays when its market price is replaced.
DeleteTodayMarket ==
    /\ At("delete")
    /\ rows' = {r \in rows : ~(OfPrinting(r) /\ ~r.demo /\ r.day = sync.day /\ r.kind = "market")}
    /\ Goto("insert")
    /\ UNCHANGED <<day, mirror, group, product, finishes, synced, used>>

\* "Replace today's observation (re-runs), keep other days".
DeleteToday ==
    /\ At("delete")
    /\ rows' = {r \in rows : ~(OfPrinting(r) /\ ~r.demo /\ r.day = sync.day)}
    /\ Goto("insert")
    /\ UNCHANGED <<day, mirror, group, product, finishes, synced, used>>

InsertPrice ==
    /\ At("insert")
    /\ rows' = rows \cup {NewRow("market"), NewRow("history")}
    /\ Goto("spread")
    /\ UNCHANGED <<day, mirror, group, product, finishes, synced, used>>

InsertSpread ==
    /\ At("spread")
    /\ rows' = rows \cup {NewRow("spread")}
    /\ Goto("demo")
    /\ UNCHANGED <<day, mirror, group, product, finishes, synced, used>>

\* Mutant of RetireDemo: the synthetic price stays beside the real one.
RetireDemoNever ==
    /\ At("demo")
    /\ Goto("price")
    /\ UNCHANGED <<day, mirror, group, product, finishes, rows, synced, used>>

\* "The variant now has a real current price: retire the synthetic market row".
RetireDemo ==
    /\ At("demo")
    /\ rows' = {r \in rows : ~(OfPrinting(r) /\ r.demo /\ r.kind = "market" /\ r.grade = None)}
    /\ Goto("price")
    /\ UNCHANGED <<day, mirror, group, product, finishes, synced, used>>

SetDone ==
    /\ At("card") /\ sync.cards = {}
    /\ sync' = NextSet
    /\ UNCHANGED <<day, mirror, group, product, finishes, rows, synced, used>>

\* A request that fails six times, or a statement that fails, ends the set, not the sync.
SetFails ==
    /\ ~At("idle") /\ sync.sets # <<>> /\ Use("faults", Faults)
    /\ sync' = NextSet
    /\ UNCHANGED <<day, mirror, group, product, finishes, rows, synced>>

Finished ==
    /\ At("set") /\ sync.sets = <<>>
    /\ synced' = day /\ sync' = Resting
    /\ UNCHANGED <<day, mirror, group, product, finishes, rows, used>>

SyncDies ==
    /\ ~At("idle") /\ Use("faults", Faults)
    /\ sync' = Resting
    /\ UNCHANGED <<day, mirror, group, product, finishes, rows, synced>>

MarketNext ==
    \/ DayPasses \/ MirrorMoves
    \/ Start \/ ResolveGroup \/ ReadProducts \/ ReadPrices \/ ReadCards
    \/ NextCard \/ NextPrice \/ CardDone
    \/ DeleteToday \/ InsertPrice \/ InsertSpread \/ RetireDemo
    \/ SetDone \/ SetFails \/ Finished \/ SyncDies

-----------------------------------------------------------------------------
(* Properties.                                                             *)

\* "Re-runnable: same-day rows are replaced, not duplicated": wherever earlier syncs of the
\* day were stopped, and though two sub-types may share a printing, a printing has one price
\* of each kind a day, and the day's history says what its market price says.
OncePerDay ==
    \A r \in rows : (~r.demo /\ r.day # SeedDay) =>
        /\ \A q \in rows : (q.card = r.card /\ q.finish = r.finish /\ q.day = r.day
                               /\ q.kind = r.kind /\ ~q.demo) => q = r
        /\ \E q \in rows : /\ q.kind = (IF r.kind = "history" THEN "market" ELSE "history")
                           /\ q.card = r.card /\ q.finish = r.finish /\ q.day = r.day /\ q.cents = r.cents

\* When a set has been synced with no failure, every printing the mirror prices has the
\* day's price, one the mirror gave for it, and no synthetic market price beside it.
SetPriced ==
    (At("card") /\ sync.cards = {}) =>
        \A c \in {d \in Cards : SetOf[d] = TheSet /\ product[d] \in sync.products \cap DOMAIN sync.prices} :
            \A t \in {u \in SubTypes : sync.prices[product[c]][u] > 0} :
                LET here == {r \in rows : r.card = c /\ r.finish = FinishOf[t] /\ r.kind = "market"
                                            /\ r.grade = None}
                IN  /\ \A r \in here : ~r.demo
                    /\ \E r \in here : /\ r.day = sync.day
                                       /\ \E u \in SubTypes : FinishOf[u] = FinishOf[t]
                                             /\ r.cents = sync.prices[product[c]][u]

=============================================================================
