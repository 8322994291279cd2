------------------------------- MODULE Pricing -------------------------------
(***************************************************************************)
(* The price of a scanned card from the moment it is identified until it   *)
(* is in inventory: the seller's rule, preference and floor                *)
(* (app/pricing.ts), the review form and the batch tools (server.ts), the  *)
(* replacement of a match, the commit and the bulk change of inventory     *)
(* (app/store.ts, server.ts).                                              *)
(*                                                                         *)
(* A request reads what it decides on and then writes one row, as in       *)
(* BatchCommit, which has the rest of the row.  A grade is "raw" or a slab *)
(* grade; condition and language play no part but in the key under which a *)
(* price is remembered and are left out.  Prices are cents, percentages    *)
(* are whole numbers, and the market (external) moves at any time.         *)
(***************************************************************************)
EXTENDS Integers, FiniteSetsExt

CONSTANTS
    Items,       \* scan item ids of one batch
    Variants,    \* printings
    NoVariant,   \* an item that matched nothing
    Raw, Slab,   \* the grades: none, and one a slab may carry
    Markets,     \* cents a printing may sell for
    Typed,       \* cents a seller may type into a box
    Rules,       \* <<mode, pct>> of the rule select
    Prefs,       \* automatic pricing preferences
    Floors,      \* "never price below" settings; NoPrice is a blank field
    Sessions,    \* requests being served at the same time
    MaxAsked,    \* bound: requests made and prices moved in a behaviour
    Offered,     \* the kinds of requests made
    Market0,     \* market when the behaviour starts
    MayDie       \* the points between two writes where a request may stop

NoPrice == -1    \* NULL, a blank field
NoPage == -2     \* the review page was not loaded yet
NoItem == 0
EbayMin == 99    \* EBAY_MIN_PRICE_CENTS
Grades == {Raw, Slab}
Kinds == {"add", "replace", "save", "all", "commit", "bulk", "settings", "market"}

ASSUME PricingAssumption ==
    /\ Items \subseteq Nat \ {NoItem} /\ IsFiniteSet(Items)
    /\ NoVariant \notin Variants
    /\ Raw # Slab
    /\ Markets \subseteq Nat \ {0}
    /\ Typed \subseteq Nat
    /\ Rules \subseteq {"market", "pct", "fixed"} \X Int
    /\ "rule" \in Prefs /\ Prefs \subseteq {"rule", "previous_first", "previous_only"}
    /\ Floors \subseteq Nat \cup {NoPrice}
    /\ MaxAsked \in Nat /\ Offered \subseteq Kinds
    /\ Market0 \in [Variants -> [Grades -> Markets \cup {NoPrice}]]
    /\ MayDie \subseteq {"saveRead", "allItem", "bulkRow"}

VARIABLES
    market,   \* market[v][g]: today's price of a printing at a grade (external)
    seller,   \* sellers: default fixed price, preference, floor
    item,     \* scan_items
    row,      \* row[i]: the inventory row item i was last filed in
    history,  \* history[v][g]: the newest price in inventory_price_history
    shown,    \* shown[i]: the price box of item i's form as it was last loaded
    hand,     \* hand[i]: the price the seller last typed for item i (observed)
    worth,    \* worth[v][g]: what v at g has sold for so far (observed)
    filed,    \* filed[v][g]: the prices v at g was ever filed at (observed)
    asked,    \* how many requests were made so far
    sess      \* the request each session is serving and what it has read

vars == <<market, seller, item, row, history, shown, hand, worth, filed, asked, sess>>

Prices == Nat \cup {NoPrice}
\* The rule select offers the modes; the percentage is kept beside its mode.
Modes == {"market", "pct", "fixed"}
SellerRec == [fixed : Prices, pref : Prefs, floor : Prices]
ItemRec == [variant : Variants \cup {NoVariant}, grade : Grades, mode : Modes,
            pct : Int, price : Prices, over : BOOLEAN]
RowRec == [variant : Variants, grade : Grades, mode : Modes, pct : Int, price : Prices]

\* No such scan item, no such row.
NoRec == [variant |-> NoVariant]

\* What the review form posts: printing, grade, rule, price box, and the price it showed.
FormRec == [variant : Variants \cup {NoVariant}, grade : Grades, rule : Rules,
            typed : Prices, shown : Prices]

AnyRule == CHOOSE r \in Rules : TRUE
NoForm == [variant |-> NoVariant, grade |-> Raw, rule |-> AnyRule, typed |-> NoPrice, shown |-> NoPrice]

Idle == [pc |-> "idle", i |-> NoItem, seen |-> NoRec, form |-> NoForm, saving |-> FALSE,
         price |-> NoPrice, todo |-> {}, batch |-> [i \in Items |-> NoRec]]

-----------------------------------------------------------------------------
(* The rules of pricing.ts.                                                *)

\* Math.round of a percentage of the market, never below 0.
Percent(m, pct) == Max({0, (2 * m * (100 + pct) + 100) \div 200})

\* resolvePrice.
Resolve(m, rule, fixed) ==
    CASE rule[1] = "fixed" -> fixed
      [] rule[1] # "fixed" /\ m = NoPrice -> NoPrice
      [] rule[1] = "market" /\ m # NoPrice -> m
      [] rule[1] = "pct" /\ m # NoPrice -> Percent(m, rule[2])

\* effectiveFloor and applyFloor.
Floored(price) ==
    LET floor == IF seller.floor > 0 THEN seller.floor ELSE EbayMin
    IN  IF price = NoPrice THEN NoPrice ELSE Max({price, floor})

\* autoPrice.
AutoPrice(ruled, prev) ==
    Floored(CASE seller.pref = "previous_only" -> prev
              [] seller.pref = "previous_first" /\ prev # NoPrice -> prev
              [] OTHER -> ruled)

\* marketCentsAt: the value at the grade when one is known, else raw market.
MarketAt(mk, v, g) == IF g # Raw /\ mk[v][g] # NoPrice THEN mk[v][g] ELSE mk[v][Raw]

-----------------------------------------------------------------------------

Init ==
    /\ market = Market0
    /\ seller = [fixed |-> NoPrice, pref |-> "rule", floor |-> NoPrice]
    /\ item = [i \in Items |-> NoRec]
    /\ row = [i \in Items |-> NoRec]
    /\ history = [v \in Variants |-> [g \in Grades |-> NoPrice]]
    /\ shown = [i \in Items |-> NoPage]
    /\ hand = [i \in Items |-> NoPrice]
    /\ worth = [v \in Variants |-> [g \in Grades |-> {MarketAt(market, v, g)}]]
    /\ filed = [v \in Variants |-> [g \in Grades |-> {}]]
    /\ asked = 0
    /\ sess = [s \in Sessions |-> Idle]

Count(kind) ==
    /\ kind \in Offered
    /\ asked < MaxAsked
    /\ asked' = asked + 1

Ask(s, kind) ==
    /\ sess[s].pc = "idle"
    /\ Count(kind)

Finish(s) == sess' = [sess EXCEPT ![s] = Idle]

Known(i) == item[i] # NoRec

Matched(i) == Known(i) /\ item[i].variant # NoVariant

-----------------------------------------------------------------------------
(* A card is identified, or picked from the catalog.                       *)

\* addItemFromIdentify and addItemFromCatalog: the form's rule, or its start price, and
\* the automatic price.  Only a new row is written, so the reads before it are no step.
Add(s, i, v, g, rule, start) ==
    /\ Ask(s, "add")
    /\ ~Known(i)
    /\ LET r == IF start > 0 THEN <<"fixed", 0>> ELSE rule
           ruled == Resolve(MarketAt(market, v, g), r, IF start > 0 THEN start ELSE seller.fixed)
       IN  item' = [item EXCEPT ![i] =
               [variant |-> v, grade |-> g, mode |-> r[1], pct |-> r[2], over |-> FALSE,
                price |-> IF v = NoVariant THEN NoPrice ELSE AutoPrice(ruled, history[v][g])]]
    /\ UNCHANGED <<market, seller, row, history, shown, hand, worth, filed, sess>>

\* The review page is loaded: the form carries the price it shows.
Open(i) ==
    /\ Known(i)
    /\ shown' = [shown EXCEPT ![i] = item[i].price]
    /\ UNCHANGED <<market, seller, item, row, history, hand, worth, filed, asked, sess>>

-----------------------------------------------------------------------------
(* replaceMatch: read the item, then the market, then write.               *)

\* Mutant of Replacing: the price is left for the form to work out.
ReplacingPrinting(i, v) == item[i].price

\* The price of item i as printing v: its own if the seller set it, else by its rule.
Replacing(i, v) ==
    IF item[i].over THEN item[i].price
    ELSE Resolve(MarketAt(market, v, item[i].grade), <<item[i].mode, item[i].pct>>, NoPrice)

ReplaceStart(s, i, v) ==
    /\ Ask(s, "replace")
    /\ Known(i)
    /\ sess' = [sess EXCEPT ![s] =
           [Idle EXCEPT !.pc = "replaceWrite", !.i = i, !.seen = item[i],
                        !.form = [NoForm EXCEPT !.variant = v], !.price = Replacing(i, v)]]
    /\ UNCHANGED <<market, seller, item, row, history, shown, hand, worth, filed>>

\* Mutant of ReplaceWrite: the price is written whether or not the seller set it.
ReplaceWriteAll(s) ==
    /\ sess[s].pc = "replaceWrite"
    /\ LET r == sess[s]
           v == r.form.variant
       IN  /\ item' = [item EXCEPT ![r.i] = [item[r.i] EXCEPT !.variant = v, !.price =
                  Resolve(MarketAt(market, v, item[r.i].grade), <<r.seen.mode, r.seen.pct>>, NoPrice)]]
           /\ sess' = [sess EXCEPT ![s] = IF r.saving THEN [r EXCEPT !.pc = "saveRead"] ELSE Idle]
    /\ UNCHANGED <<market, seller, row, history, shown, hand, worth, filed, asked>>

ReplaceWrite(s) ==
    /\ sess[s].pc = "replaceWrite"
    /\ LET r == sess[s]
       IN  /\ item' = [item EXCEPT ![r.i] =
                  [item[r.i] EXCEPT !.variant = r.form.variant,
                                    !.price = IF r.seen.over THEN item[r.i].price ELSE r.price]]
           /\ sess' = [sess EXCEPT ![s] = IF r.saving THEN [r EXCEPT !.pc = "saveRead"] ELSE Idle]
    /\ UNCHANGED <<market, seller, row, history, shown, hand, worth, filed, asked>>

-----------------------------------------------------------------------------
(* The review form: another printing goes through replaceMatch first, then *)
(* the rest of the form is written.                                        *)

SaveStart(s, i, form) ==
    /\ Ask(s, "save")
    /\ shown[i] # NoPage
    /\ sess' = [sess EXCEPT ![s] =
           LET r == [Idle EXCEPT !.i = i, !.seen = item[i], !.form = form, !.saving = TRUE]
           IN  IF form.variant \notin {NoVariant, item[i].variant}
               THEN [r EXCEPT !.pc = "replaceWrite", !.price = Replacing(i, form.variant)]
               ELSE [r EXCEPT !.pc = "saveWrite"]]
    /\ UNCHANGED <<market, seller, item, row, history, shown, hand, worth, filed>>

SaveRead(s) ==
    /\ sess[s].pc = "saveRead"
    /\ sess' = [sess EXCEPT ![s] = [sess[s] EXCEPT !.pc = "saveWrite", !.seen = item[sess[s].i]]]
    /\ UNCHANGED <<market, seller, item, row, history, shown, hand, worth, filed, asked>>

\* A price box that differs from what the form showed was typed; else the rule decides.
Edited(f) == f.typed # NoPrice /\ f.typed # f.shown

Ruled(v, f) ==
    IF v = NoVariant THEN NoPrice
    ELSE Floored(Resolve(MarketAt(market, v, f.grade), f.rule, NoPrice))

SaveWrite(s) ==
    /\ sess[s].pc = "saveWrite"
    /\ LET i == sess[s].i
           f == sess[s].form
           fixed == f.rule[1] = "fixed"
           price == IF fixed \/ Edited(f) THEN f.typed ELSE Ruled(sess[s].seen.variant, f)
       IN  /\ item' = [item EXCEPT ![i] =
                  [item[i] EXCEPT !.grade = f.grade, !.mode = f.rule[1], !.pct = f.rule[2],
                                  !.price = price, !.over = ~fixed /\ Edited(f)]]
           /\ hand' = [hand EXCEPT ![i] = IF Edited(f) THEN f.typed ELSE @]
    /\ Finish(s)
    /\ UNCHANGED <<market, seller, row, history, shown, worth, filed, asked>>

-----------------------------------------------------------------------------
(* One price for every card of the batch; one UPDATE per card.             *)

\* Cards without a printing are left out when their match failed, and kept in review.
AllStart(s, todo, cents) ==
    /\ Ask(s, "all")
    /\ {i \in Items : Matched(i)} \subseteq todo /\ todo \subseteq {i \in Items : Known(i)} /\ todo # {}
    /\ sess' = [sess EXCEPT ![s] = [Idle EXCEPT !.pc = "allItem", !.todo = todo, !.price = cents]]
    /\ UNCHANGED <<market, seller, item, row, history, shown, hand, worth, filed>>

AllItem(s) ==
    /\ sess[s].pc = "allItem"
    /\ LET i == Min(sess[s].todo)
           left == sess[s].todo \ {i}
       IN  /\ item' = [item EXCEPT ![i] = [item[i] EXCEPT !.price = sess[s].price, !.over = TRUE]]
           /\ hand' = [hand EXCEPT ![i] = sess[s].price]
           /\ sess' = [sess EXCEPT ![s] = IF left = {} THEN Idle ELSE [sess[s] EXCEPT !.todo = left]]
    /\ UNCHANGED <<market, seller, row, history, shown, worth, filed, asked>>

-----------------------------------------------------------------------------
(* The commit files the items it read, and the bulk change of inventory.   *)

CommitStart(s, taken) ==
    /\ Ask(s, "commit")
    /\ taken # {} /\ taken \subseteq {i \in Items : Matched(i)}
    /\ sess' = [sess EXCEPT ![s] =
           [Idle EXCEPT !.pc = "commitTx", !.batch = [i \in Items |-> IF i \in taken THEN item[i] ELSE NoRec]]]
    /\ UNCHANGED <<market, seller, item, row, history, shown, hand, worth, filed>>

\* A price is remembered under its printing and grade; the row filed last counts.
CommitTx(s) ==
    /\ sess[s].pc = "commitTx"
    /\ LET b == sess[s].batch
           priced(v, g) == {i \in Items : b[i] # NoRec /\ b[i].variant = v
                                          /\ b[i].grade = g /\ b[i].price # NoPrice}
       IN  /\ row' = [i \in Items |-> IF b[i] = NoRec THEN row[i] ELSE
                  [variant |-> b[i].variant, grade |-> b[i].grade,
                   mode |-> b[i].mode, pct |-> b[i].pct, price |-> b[i].price]]
           /\ history' = [v \in Variants |-> [g \in Grades |->
                  IF priced(v, g) = {} THEN history[v][g] ELSE b[Max(priced(v, g))].price]]
           /\ filed' = [v \in Variants |-> [g \in Grades |->
                  filed[v][g] \cup {b[i].price : i \in priced(v, g)}]]
    /\ Finish(s)
    /\ UNCHANGED <<market, seller, item, shown, hand, worth, asked>>

BulkStart(s, todo, rule) ==
    /\ Ask(s, "bulk")
    /\ todo # {} /\ todo \subseteq {i \in Items : row[i] # NoRec}
    /\ sess' = [sess EXCEPT ![s] =
           [Idle EXCEPT !.pc = "bulkRow", !.todo = todo, !.form = [NoForm EXCEPT !.rule = rule]]]
    /\ UNCHANGED <<market, seller, item, row, history, shown, hand, worth, filed>>

\* By the rule from the raw market, whatever the grade; a price that cannot be told stays.
BulkRow(s) ==
    /\ sess[s].pc = "bulkRow"
    /\ LET i == Min(sess[s].todo)
           left == sess[s].todo \ {i}
           rule == sess[s].form.rule
           p == Resolve(market[row[i].variant][Raw], rule, row[i].price)
       IN  /\ row' = [row EXCEPT ![i] =
                  [row[i] EXCEPT !.mode = rule[1], !.pct = rule[2],
                                 !.price = IF p = NoPrice THEN row[i].price ELSE p]]
           /\ sess' = [sess EXCEPT ![s] = IF left = {} THEN Idle ELSE [sess[s] EXCEPT !.todo = left]]
    /\ UNCHANGED <<market, seller, item, history, shown, hand, worth, filed, asked>>

-----------------------------------------------------------------------------

\* Configuration's pricing page; the default rule only fills in the scan form.
Settings(s, account) ==
    /\ Ask(s, "settings")
    /\ seller' = account
    /\ UNCHANGED <<market, item, row, history, shown, hand, worth, filed, sess>>

\* The daily sync brings another price.
MarketMoves(v, g, m) ==
    /\ Count("market")
    /\ market' = [market EXCEPT ![v][g] = m]
    /\ worth' = [u \in Variants |-> [h \in Grades |-> worth[u][h] \cup {MarketAt(market', u, h)}]]
    /\ UNCHANGED <<seller, item, row, history, shown, hand, filed, sess>>

\* A failed statement or a restart: the rest of the request is lost.
Die(s) ==
    /\ sess[s].pc \in MayDie
    /\ Finish(s)
    /\ UNCHANGED <<market, seller, item, row, history, shown, hand, worth, filed, asked>>

Requests(s) ==
    \/ \E i \in Items, v \in Variants \cup {NoVariant}, g \in Grades, rule \in Rules :
          \E start \in Typed \cup {NoPrice} : Add(s, i, v, g, rule, start)
    \/ \E i \in Items, v \in Variants : ReplaceStart(s, i, v)
    \/ \E i \in Items, v \in Variants \cup {NoVariant}, g \in Grades, rule \in Rules :
          \E typed \in Typed \cup {shown[i], NoPrice} :
              SaveStart(s, i, [variant |-> v, grade |-> g, rule |-> rule, typed |-> typed, shown |-> shown[i]])
    \/ \E todo \in SUBSET Items, cents \in Typed : AllStart(s, todo, cents)
    \/ \E taken \in SUBSET Items : CommitStart(s, taken)
    \/ \E todo \in SUBSET Items, rule \in Rules : BulkStart(s, todo, rule)
    \/ \E account \in [fixed : Typed \cup {NoPrice}, pref : Prefs, floor : Floors] : Settings(s, account)

Steps(s) ==
    ReplaceWrite(s) \/ SaveRead(s) \/ SaveWrite(s) \/ AllItem(s) \/ CommitTx(s) \/ BulkRow(s)

Next ==
    \/ \E s \in Sessions : Requests(s) \/ Steps(s) \/ Die(s)
    \/ \E i \in Items : Open(i)
    \/ \E v \in Variants, g \in Grades, m \in Markets : MarketMoves(v, g, m)

Spec == Init /\ [][Next]_vars

-----------------------------------------------------------------------------
(* Properties.                                                             *)

\* "Manual override always wins": a price flagged as the seller's own is the one they typed
\* last, whatever was replaced, re-ruled, refiled or stopped half way since.
OverrideIsTyped == \A i \in Items : (Known(i) /\ item[i].over) => item[i].price = hand[i]

\* An automatic price belongs to the card as it is now: it comes by the item's own rule from
\* what this printing was worth at this grade, raised to a floor or not, or it is a price
\* this printing was filed at; never one left from the printing or the grade before.
PriceOfPrinting ==
    \A i \in Items :
        LET x == item[i]
            fair(p) == x.price \in {p} \cup {Max({p, f}) : f \in Floors \cup {EbayMin}}
        IN  (Matched(i) /\ ~x.over /\ x.mode # "fixed" /\ x.price # NoPrice) =>
                \/ \E m \in worth[x.variant][x.grade] : fair(Resolve(m, <<x.mode, x.pct>>, NoPrice))
                \/ \E p \in filed[x.variant][x.grade] : fair(p)

\* "Every card in this batch gets this price, kept as your own (not recomputed)": a price the
\* seller set changes only when they type another, clear the box or pick another rule.
OwnPriceKept ==
    [][\A i \in Items :
          (Known(i) /\ item[i].over /\ item'[i].price # item[i].price) =>
              \/ hand'[i] = item'[i].price
              \/ \E s \in Sessions : sess[s].i = i /\ sess[s].form.typed = NoPrice
              \/ <<item'[i].mode, item'[i].pct>> # <<item[i].mode, item[i].pct>>]_vars

=============================================================================
