----------------------------- MODULE BatchCommit -----------------------------
(***************************************************************************)
(* The review queue of one seller and its road into inventory: scan items, *)
(* duplicate detection, review edits, SKU numbering and commitBatch, with  *)
(* the statements of concurrent requests interleaved (store.ts, server.ts).*)
(*                                                                         *)
(* Every query() of the code is one autocommitted statement, so a request  *)
(* may be overtaken between two of them; what it read stays in its session *)
(* record.  commitBatch's writes are one transaction and one action.       *)
(*                                                                         *)
(* A card is a printing (matched_variant_id); a condition stands for the   *)
(* condition, language and grade together, what the review form edits and  *)
(* detectDuplicates compares besides the card.  A row's quantity is the    *)
(* set of scan items whose copies it holds.  Prices and titles are left    *)
(* out: nothing below reads them.                                          *)
(***************************************************************************)
EXTENDS Integers, Sequences, FiniteSetsExt

CONSTANTS
    Items,       \* scan item ids, in the order they were inserted
    Batches,     \* scan batch ids
    BatchOf,     \* BatchOf[i]: the batch item i belongs to
    Graded,      \* batches opened from a list of slab certificates
    Cards,       \* printings
    NoCard,      \* no matched variant
    Conditions,  \* condition + language + grade
    NoSku,       \* NULL in the sku column
    Labelled,    \* batches opened with "Increment" unticked
    Prefixes,    \* SKU prefixes
    TypedSkus,   \* SKUs a seller may type into the review form
    Looks,       \* <<status, card>> pairs identification may leave an item with
    Starts,      \* counter values typed into a form; 0 is a blank field
    Sessions,    \* requests being served at the same time
    Budget,      \* bound: Budget[k] requests of kind k are made in a behaviour
    MayDie,      \* the request kinds that may stop between two statements
    MaxNext      \* bound: the counter stays at or below it

NoItem == 0
NoBatch == 0

Kinds == {"detect", "skip", "approve", "replace", "save", "number", "clear",
          "blank", "shop", "prefix", "commit"}

ASSUME IdsAssumption ==
    /\ Items \subseteq Nat \ {NoItem}
    /\ IsFiniteSet(Items)
    /\ Batches \subseteq Nat \ {NoBatch}
    /\ BatchOf \in [Items -> Batches]
    /\ Graded \subseteq Batches
    /\ Labelled \subseteq Batches \ Graded
    /\ NoCard \notin Cards
    /\ Conditions # {}
    /\ Prefixes # {}

\* A paste line may fail and still name the closest card; a certificate whose
\* lookup fails waits in review.
AllLooks ==
    ({"matched", "needs_review", "failed"} \X Cards) \cup ({"needs_review", "failed"} \X {NoCard})

ASSUME LooksAssumption == Looks \subseteq AllLooks

ASSUME BoundsAssumption ==
    /\ MaxNext \in Nat \ {0}
    /\ Budget \in [Kinds -> Nat]
    /\ MayDie \subseteq Kinds
    /\ Starts \subseteq 0..MaxNext

\* PREFIX-00000n; n = 0 is the bare prefix used as a box label.
Skus == [prefix : Prefixes, n : 0..MaxNext]

ASSUME SkuAssumption ==
    /\ NoSku \notin Skus
    /\ TypedSkus \subseteq Skus

Statuses == {"matched", "needs_review", "failed", "approved", "skipped"}

ItemRec == [status : Statuses, card : Cards \cup {NoCard}, cond : Conditions,
            sku : Skus \cup {NoSku}, dup : Items \cup {NoItem}]

Sellers == [prefix : Prefixes, next : 1..MaxNext]

InvRows == [commit : Nat \ {0}, src : Items, sku : Skus,
            cards : SUBSET Items, kinds : SUBSET (Cards \X Conditions)]

VARIABLES
    items,    \* scan_items
    batch,    \* scan_batches.status
    seller,   \* sellers.sku_prefix, sellers.sku_next
    inv,      \* inventory rows
    asked,    \* how many requests of each kind were made
    taken,    \* taken[c]: the items the c-th commit selected (observed, not stored)
    draws,    \* how often each SKU was drawn from the counter, 2 for "again" (observed)
    sess      \* the request each session is serving and what it has read

vars == <<items, batch, seller, inv, asked, taken, draws, sess>>
stock == <<inv, taken>>

Locals == [pc : {"idle", "commitItems", "commitTx", "numberSeller", "numberItem",
                 "clearItem", "blankNext", "replaceWrite", "saveWrite", "detectItem"},
           b : Batches \cup {NoBatch}, i : Items \cup {NoItem},
           merge : BOOLEAN, save : BOOLEAN,
           card : Cards \cup {NoCard}, cond : Conditions, sku : Skus \cup {NoSku},
           acct : Sellers, seen : [Items -> ItemRec],
           link : [Items -> Items \cup {NoItem}],
           todo : SUBSET Items, num : 0..MaxNext]

FirstCondition == CHOOSE c \in Conditions : TRUE

Unread == [status |-> "failed", card |-> NoCard, cond |-> FirstCondition,
           sku |-> NoSku, dup |-> NoItem]

FirstSeller == [prefix |-> CHOOSE p \in Prefixes : TRUE, next |-> 1]

Idle == [pc |-> "idle", b |-> NoBatch, i |-> NoItem, merge |-> FALSE, save |-> FALSE,
         card |-> NoCard, cond |-> FirstCondition, sku |-> NoSku, acct |-> FirstSeller,
         seen |-> [i \in Items |-> Unread],
         link |-> [i \in Items |-> NoItem], todo |-> {}, num |-> 0]

-----------------------------------------------------------------------------
(* Items as identification leaves them, before duplicates are looked for.  *)

FreshSku(i) ==
    IF BatchOf[i] \in Labelled THEN [prefix |-> FirstSeller.prefix, n |-> 0] ELSE NoSku

Init ==
    /\ \E look \in [Items -> Looks], cond \in [Items -> Conditions] :
          items = [i \in Items |->
                      [status |-> IF BatchOf[i] \in Graded /\ look[i][1] = "failed"
                                  THEN "needs_review" ELSE look[i][1],
                       card |-> look[i][2], cond |-> cond[i],
                       sku |-> FreshSku(i), dup |-> NoItem]]
    /\ batch = [b \in Batches |-> "processing"]
    /\ seller = FirstSeller
    /\ inv = {}
    /\ asked = [k \in Kinds |-> 0]
    /\ taken = <<>>
    /\ draws = [k \in Skus |-> 0]
    /\ sess = [s \in Sessions |-> Idle]

-----------------------------------------------------------------------------
(* Helpers.                                                                *)

Members(b) == {i \in Items : BatchOf[i] = b}

\* F[i] is the SKU item i drew; two draws or more count as 2.
Drawn(d, F) ==
    [k \in Skus |-> Min({2, d[k] + Cardinality({i \in DOMAIN F : F[i] = k})})]

Ask(s, kind) ==
    /\ sess[s].pc = "idle"
    /\ asked[kind] < Budget[kind]
    /\ asked' = [asked EXCEPT ![kind] = @ + 1]

Finish(s) == sess' = [sess EXCEPT ![s] = Idle]

-----------------------------------------------------------------------------
(* detectDuplicates, run while the batch is still processing; the batch is *)
(* finalized right after.  A retried "finish" may run it twice at once.    *)

\* Slabs compare by certificate, and the certificates of a batch are distinct
\* (parseCerts); raw cards compare by printing and condition.
SameCard(seen, i, j) ==
    IF BatchOf[i] \in Graded THEN j = i
    ELSE seen[j].card = seen[i].card /\ seen[j].cond = seen[i].cond

\* Mutant of FirstSeen: the twin is the last one seen.
LastSeen(seen, b, i) ==
    Max({j \in Members(b) : seen[j].card # NoCard /\ SameCard(seen, i, j)})

FirstSeen(seen, b, i) ==
    Min({j \in Members(b) : seen[j].card # NoCard /\ SameCard(seen, i, j)})

Link(seen, b, i) == LET j == FirstSeen(seen, b, i) IN IF j = i THEN NoItem ELSE j

DetectStart(s, b) ==
    /\ Ask(s, "detect")
    /\ batch[b] = "processing"
    /\ LET matched == {i \in Members(b) : items[i].card # NoCard}
           todo == {i \in matched : Link(items, b, i) # NoItem \/ items[i].dup # NoItem}
       IN  sess' = [sess EXCEPT ![s] = [Idle EXCEPT
                      !.pc = "detectItem", !.b = b, !.todo = todo,
                      !.link = [i \in Items |-> IF i \in todo THEN Link(items, b, i) ELSE NoItem]]]
    /\ UNCHANGED <<items, batch, seller, stock, draws>>

DetectItem(s) ==
    /\ sess[s].pc = "detectItem"
    /\ sess[s].todo # {}
    /\ LET i == Min(sess[s].todo)
       IN  /\ items' = [items EXCEPT ![i].dup = sess[s].link[i]]
           /\ sess' = [sess EXCEPT ![s] = [sess[s] EXCEPT !.todo = @ \ {i}, !.link[i] = NoItem]]
    /\ UNCHANGED <<asked, batch, seller, stock, draws>>

Finalize(s) ==
    /\ sess[s].pc = "detectItem"
    /\ sess[s].todo = {}
    /\ batch' = [batch EXCEPT ![sess[s].b] = "done"]
    /\ Finish(s)
    /\ UNCHANGED <<asked, items, seller, stock, draws>>

-----------------------------------------------------------------------------
(* handleItemAction: one card of the review page.                          *)

Skip(s, i) ==
    /\ Ask(s, "skip")
    /\ items' = [items EXCEPT ![i].status = "skipped"]
    /\ UNCHANGED <<batch, seller, stock, draws, sess>>

Approve(s, i) ==
    /\ Ask(s, "approve")
    /\ items[i].card # NoCard
    /\ items' = [items EXCEPT ![i].status = "approved"]
    /\ UNCHANGED <<batch, seller, stock, draws, sess>>

\* "Replace card", and the variant switch a save begins with: read the item.
ReplaceStart(s, i, k, save, c, sku) ==
    /\ Ask(s, IF save THEN "save" ELSE "replace")
    /\ sess' = [sess EXCEPT ![s] = [Idle EXCEPT
                    !.pc = "replaceWrite", !.i = i, !.card = k, !.cond = c, !.sku = sku,
                    !.save = save, !.seen = [Idle.seen EXCEPT ![i] = items[i]]]]
    /\ UNCHANGED <<items, batch, seller, stock, draws>>

\* ... then write the variant and a status worked out from what was read.
ReplaceWrite(s) ==
    /\ sess[s].pc = "replaceWrite"
    /\ LET i == sess[s].i
           was == sess[s].seen[i].status
       IN  items' = [items EXCEPT ![i] = [@ EXCEPT
               !.card = sess[s].card,
               !.status = IF was \in {"failed", "needs_review"} THEN "matched" ELSE was]]
    /\ IF sess[s].save
       THEN sess' = [sess EXCEPT ![s] = [sess[s] EXCEPT !.pc = "saveWrite", !.card = NoCard, !.seen = Idle.seen]]
       ELSE Finish(s)
    /\ UNCHANGED <<asked, batch, seller, stock, draws>>

\* A save that keeps the printing goes straight to the form's values.
SaveStart(s, i, c, sku) ==
    /\ Ask(s, "save")
    /\ sess' = [sess EXCEPT ![s] = [Idle EXCEPT
                    !.pc = "saveWrite", !.i = i, !.cond = c, !.sku = sku, !.save = TRUE]]
    /\ UNCHANGED <<items, batch, seller, stock, draws>>

\* Condition, grade and SKU are written as the form had them.
SaveWrite(s) ==
    /\ sess[s].pc = "saveWrite"
    /\ items' = [items EXCEPT ![sess[s].i] = [@ EXCEPT !.cond = sess[s].cond, !.sku = sess[s].sku]]
    /\ Finish(s)
    /\ UNCHANGED <<asked, batch, seller, stock, draws>>

-----------------------------------------------------------------------------
(* handleReviewBulk: "Edit SKU prefix" and "clear SKUs".                   *)

BulkItems(b) == {i \in Members(b) : items[i].status \notin {"skipped", "failed"}}

NumberStart(s, b, p, start) ==
    /\ Ask(s, "number")
    /\ BulkItems(b) # {}
    /\ sess' = [sess EXCEPT ![s] = [Idle EXCEPT
                    !.pc = "numberSeller", !.acct = [FirstSeller EXCEPT !.prefix = p], !.num = start,
                    !.todo = {i \in BulkItems(b) : items[i].dup = NoItem}]]
    /\ UNCHANGED <<items, batch, seller, stock, draws>>

\* A blank start number means "from the counter".
NumberReadSeller(s) ==
    /\ sess[s].pc = "numberSeller"
    /\ LET n == IF sess[s].num = 0 THEN seller.next ELSE sess[s].num
       IN  /\ n + Cardinality(sess[s].todo) <= MaxNext
           /\ sess' = [sess EXCEPT ![s] = [sess[s] EXCEPT !.pc = "numberItem", !.num = n]]
    /\ UNCHANGED <<asked, items, batch, seller, stock, draws>>

NumberItem(s) ==
    /\ sess[s].pc = "numberItem"
    /\ sess[s].todo # {}
    /\ LET i == Min(sess[s].todo)
           sku == [prefix |-> sess[s].acct.prefix, n |-> sess[s].num]
       IN  /\ items' = [items EXCEPT ![i].sku = sku]
           /\ draws' = Drawn(draws, [j \in {i} |-> sku])
           /\ sess' = [sess EXCEPT ![s] = [sess[s] EXCEPT !.todo = @ \ {i}, !.num = @ + 1]]
    /\ UNCHANGED <<asked, batch, seller, stock>>

NumberDone(s) ==
    /\ sess[s].pc = "numberItem"
    /\ sess[s].todo = {}
    /\ seller' = [prefix |-> sess[s].acct.prefix, next |-> sess[s].num]
    /\ Finish(s)
    /\ UNCHANGED <<asked, items, batch, stock, draws>>

ClearStart(s, b) ==
    /\ Ask(s, "clear")
    /\ BulkItems(b) # {}
    /\ sess' = [sess EXCEPT ![s] = [Idle EXCEPT !.pc = "clearItem", !.todo = BulkItems(b)]]
    /\ UNCHANGED <<items, batch, seller, stock, draws>>

ClearItem(s) ==
    /\ sess[s].pc = "clearItem"
    /\ LET i == Min(sess[s].todo)
       IN  /\ items' = [items EXCEPT ![i].sku = NoSku]
           /\ IF sess[s].todo = {i} THEN Finish(s)
              ELSE sess' = [sess EXCEPT ![s] = [sess[s] EXCEPT !.todo = @ \ {i}]]
    /\ UNCHANGED <<asked, batch, seller, stock, draws>>

-----------------------------------------------------------------------------
(* The other writers of the counter.                                       *)

\* handleBlank with an empty SKU field: read the counter, then write it.
BlankStart(s) ==
    /\ Ask(s, "blank")
    /\ seller.next < MaxNext
    /\ sess' = [sess EXCEPT ![s] = [Idle EXCEPT !.pc = "blankNext", !.acct = seller]]
    /\ UNCHANGED <<items, batch, seller, stock, draws>>

\* Mutant of BlankNext: the counter is not moved on.
BlankNextUncounted(s) ==
    /\ sess[s].pc = "blankNext"
    /\ draws' = Drawn(draws, [j \in {NoItem} |->
                              [prefix |-> sess[s].acct.prefix, n |-> sess[s].acct.next]])
    /\ Finish(s)
    /\ UNCHANGED <<asked, items, batch, seller, stock>>

BlankNext(s) ==
    /\ sess[s].pc = "blankNext"
    /\ seller' = [seller EXCEPT !.next = sess[s].acct.next + 1]
    /\ draws' = Drawn(draws, [j \in {NoItem} |->
                              [prefix |-> sess[s].acct.prefix, n |-> sess[s].acct.next]])
    /\ Finish(s)
    /\ UNCHANGED <<asked, items, batch, stock>>

\* Settings -> Shop & SKUs saves prefix and counter as typed, a blank counter as 1.
SaveShop(s, p, n) ==
    /\ Ask(s, "shop")
    /\ seller' = [prefix |-> p, next |-> IF n = 0 THEN 1 ELSE n]
    /\ UNCHANGED <<items, batch, stock, draws, sess>>

\* A scan form saves a changed prefix and leaves the counter alone.
SaveScanPrefix(s, p) ==
    /\ Ask(s, "prefix")
    /\ p # seller.prefix
    /\ seller' = [seller EXCEPT !.prefix = p]
    /\ UNCHANGED <<items, batch, stock, draws, sess>>

-----------------------------------------------------------------------------
(* commitBatch: two reads, then one transaction on what was read.          *)

CommitStart(s, b, merge) ==
    /\ Ask(s, "commit")
    /\ sess' = [sess EXCEPT ![s] = [Idle EXCEPT
                    !.pc = "commitItems", !.b = b, !.merge = merge, !.acct = seller]]
    /\ UNCHANGED <<items, batch, seller, stock, draws>>

Committable(b) == {i \in Members(b) : /\ items[i].card # NoCard
                                       /\ items[i].status \in {"matched", "approved"}}

CommitReadItems(s) ==
    /\ sess[s].pc = "commitItems"
    /\ sess' = [sess EXCEPT ![s] = [sess[s] EXCEPT
                    !.pc = "commitTx",
                    !.seen = [i \in Items |-> IF i \in Committable(sess[s].b) THEN items[i] ELSE Unread]]]
    /\ UNCHANGED <<asked, items, batch, seller, stock, draws>>

Selected(r) == {i \in Items : r.seen[i].card # NoCard}

\* Mutant of IsKept: a duplicate is merged whether or not its twin is committed too.
IsKeptBlindly(r, kept) ==
    kept = {i \in Selected(r) : ~(r.merge /\ r.seen[i].dup # NoItem)}

\* The items that get a row of their own: all but those whose twin already has one.
IsKept(r, kept) ==
    \A i \in Selected(r) :
        i \in kept <=> ~(r.merge /\ r.seen[i].dup \in kept /\ r.seen[i].dup < i)

\* Kept items with no SKU of their own take the counter's values in order.
Fresh(r, kept) == {i \in kept : r.seen[i].sku = NoSku}

SkuOf(r, kept, i) ==
    IF r.seen[i].sku # NoSku THEN r.seen[i].sku
    ELSE [prefix |-> r.acct.prefix,
          n |-> r.acct.next + Cardinality({j \in Fresh(r, kept) : j < i})]

CardsOf(r, kept, i) == {i} \cup {j \in Selected(r) \ kept : r.seen[j].dup = i}

CommitTx(s) ==
    /\ sess[s].pc = "commitTx"
    /\ LET r == sess[s] IN
       \E kept \in SUBSET Selected(r) :
         /\ IsKept(r, kept)
         /\ r.acct.next + Cardinality(Fresh(r, kept)) <= MaxNext
         /\ inv' = inv \cup
              { [commit |-> Len(taken) + 1, src |-> i, sku |-> SkuOf(r, kept, i),
                 cards |-> CardsOf(r, kept, i),
                 kinds |-> {<<r.seen[j].card, r.seen[j].cond>> : j \in CardsOf(r, kept, i)}] : i \in kept }
         /\ items' = [i \in Items |->
              IF i \in kept THEN [items[i] EXCEPT !.status = "approved", !.sku = SkuOf(r, kept, i)]
              ELSE IF i \in Selected(r) THEN [items[i] EXCEPT !.status = "approved"]
              ELSE items[i]]
         /\ seller' = [seller EXCEPT !.next = r.acct.next + Cardinality(Fresh(r, kept))]
         /\ draws' = Drawn(draws, [i \in Fresh(r, kept) |-> SkuOf(r, kept, i)])
         /\ taken' = Append(taken, Selected(r))
    /\ Finish(s)
    /\ UNCHANGED <<asked, batch>>

-----------------------------------------------------------------------------
(* A request may stop between two statements (a failed query, a restart);  *)
(* its statements so far stay, an open transaction is rolled back.         *)

OpAt(pc) ==
    CASE pc \in {"commitItems", "commitTx"}       -> "commit"
      [] pc \in {"numberSeller", "numberItem"}    -> "number"
      [] pc = "clearItem"                         -> "clear"
      [] pc = "blankNext"                         -> "blank"
      [] pc \in {"replaceWrite", "saveWrite"}     -> "save"
      [] OTHER                                    -> "detect"

Die(s) ==
    /\ sess[s].pc # "idle"
    /\ OpAt(sess[s].pc) \in MayDie
    /\ Finish(s)
    /\ UNCHANGED <<asked, items, batch, seller, stock, draws>>

-----------------------------------------------------------------------------

Review(s) ==
    \/ \E b \in Batches : DetectStart(s, b)
    \/ DetectItem(s)
    \/ Finalize(s)
    \/ \E i \in Items : Skip(s, i) \/ Approve(s, i)
    \/ \E i \in Items, c \in Conditions, sku \in TypedSkus \cup {NoSku} : SaveStart(s, i, c, sku)
    \/ \E i \in Items, k \in Cards, c \in Conditions, sku \in TypedSkus \cup {NoSku} :
            k # items[i].card /\ ReplaceStart(s, i, k, TRUE, c, sku)
    \/ \E i \in Items, k \in Cards : ReplaceStart(s, i, k, FALSE, FirstCondition, NoSku)
    \/ ReplaceWrite(s)
    \/ SaveWrite(s)

Numbering(s) ==
    \/ \E b \in Batches, p \in Prefixes, n \in Starts : NumberStart(s, b, p, n)
    \/ NumberReadSeller(s)
    \/ NumberItem(s)
    \/ NumberDone(s)
    \/ \E b \in Batches : ClearStart(s, b)
    \/ ClearItem(s)
    \/ BlankStart(s)
    \/ BlankNext(s)
    \/ \E p \in Prefixes, n \in Starts : SaveShop(s, p, n)
    \/ \E p \in Prefixes : SaveScanPrefix(s, p)

Committing(s) ==
    \/ \E b \in Batches, merge \in BOOLEAN : CommitStart(s, b, merge)
    \/ CommitReadItems(s)
    \/ CommitTx(s)

Next == \E s \in Sessions : Review(s) \/ Numbering(s) \/ Committing(s) \/ Die(s)

Spec == Init /\ [][Next]_vars

-----------------------------------------------------------------------------
(* Properties.                                                             *)

\* The tables and the request records keep their types.
TypeOK ==
    /\ items \in [Items -> ItemRec]
    /\ batch \in [Batches -> {"processing", "done"}]
    /\ seller \in Sellers
    /\ inv \subseteq InvRows
    /\ asked \in [Kinds -> Nat]
    /\ taken \in Seq(SUBSET Items)
    /\ draws \in [Skus -> 0..2]
    /\ sess \in [Sessions -> Locals]

\* Whatever requests overlap, a duplicate link leads to an earlier card of the
\* same raw batch.  A commit relies on it to have filed the twin by the time it
\* reaches the duplicate.
LinkOK(i, j) == j < i /\ BatchOf[j] = BatchOf[i] /\ BatchOf[i] \notin Graded

DupLinksLeadBack ==
    \A i \in Items : items[i].dup # NoItem => LinkOK(i, items[i].dup)

\* "Slabs are unique objects" (detectDuplicates): whatever is edited between
\* detection and commit, an inventory row that holds a slab holds nothing else.
SlabsStaySeparate ==
    \A row \in inv : BatchOf[row.src] \in Graded => row.cards = {row.src}

\* A commit puts each card it selected into exactly one row: none is lost with
\* a twin that is not there, none is counted in two rows.
NothingLostOrDoubled ==
    \A c \in 1..Len(taken) :
        LET rows == {row \in inv : row.commit = c}
        IN  /\ UNION {row.cards : row \in rows} = taken[c]
            /\ \A r1, r2 \in rows : r1 # r2 => r1.cards \cap r2.cards = {}

\* The counter never hands one SKU out twice.  True of one request at a time
\* that leaves start numbers blank: two commits that overlap read the same counter.
DrawnOnce == \A k \in Skus : draws[k] <= 1

Allocator == INSTANCE SkuAllocator
AllocatorSpec == Allocator!Spec

=============================================================================
