-------------------------- MODULE BatchCommitProofs --------------------------
(***************************************************************************)
(* Theorems about BatchCommit for every number of cards, batches, sessions *)
(* and requests.  LinksInv says what a request may rely on of what it read *)
(* earlier; the safety theorems rest on it.                                *)
(***************************************************************************)
EXTENDS BatchCommit, FiniteSetTheorems, WellFoundedInduction, TLAPS

\* A nonempty set of naturals has a least element, and Min names it.
LEMMA MinOfNaturals ==
    ASSUME NEW S, S \subseteq Nat, S # {}
    PROVE  Min(S) \in S /\ \A j \in S : Min(S) <= j
<1> DEFINE R == {ss \in Nat \X Nat : ss[1] < ss[2]}
<1>0. R = OpToRel(<, Nat)
  BY DEF OpToRel
<1>1. IsWellFoundedOn(R, Nat)
  BY <1>0, NatLessThanWellFounded
<1>2. \E x \in S : \A y \in S : ~ (<<y, x>> \in R)
  BY <1>1, WFMin
<1>3. PICK x \in S : \A y \in S : ~ (<<y, x>> \in R)
  BY <1>2
<1>4. \A y \in Nat : x \in Nat /\ ~ (<<y, x>> \in R) => x <= y
  OBVIOUS
<1>5. \A y \in S : x <= y
  BY <1>3, <1>4
<1>6. QED
  BY <1>5 DEF Min

-----------------------------------------------------------------------------
(* Type correctness.                                                       *)

\* What a request relies on between its statements, beside its types.
LocalOK(r) ==
    /\ r.pc = "numberItem" => r.num >= 1 /\ r.num + Cardinality(r.todo) <= MaxNext
    /\ r.pc = "blankNext" => r.acct.next < MaxNext

TypeInv == TypeOK /\ \A s \in Sessions : LocalOK(sess[s])

LEMMA FirstSellerType == FirstSeller \in Sellers
BY IdsAssumption, BoundsAssumption DEF FirstSeller, Sellers

LEMMA UnreadType == Unread \in ItemRec
BY IdsAssumption DEF Unread, ItemRec, Statuses, FirstCondition, NoItem

LEMMA IdleType == Idle \in Locals
BY FirstSellerType, UnreadType, IdsAssumption, BoundsAssumption
   DEF Idle, Locals, FirstCondition, NoItem, NoBatch

LEMMA TypeInit == Init => TypeInv
<1> SUFFICES ASSUME Init PROVE TypeInv
  OBVIOUS
<1>1. items \in [Items -> ItemRec]
  BY IdsAssumption, BoundsAssumption, LooksAssumption, FirstSellerType
     DEF Init, ItemRec, Statuses, AllLooks, FreshSku, Skus, Sellers, NoItem
<1>2. sess \in [Sessions -> Locals] /\ \A s \in Sessions : LocalOK(sess[s])
  BY IdleType DEF Init, LocalOK, Idle
<1>3. batch \in [Batches -> {"processing", "done"}] /\ seller \in Sellers /\ inv \subseteq InvRows
  BY FirstSellerType DEF Init
<1>4. /\ asked \in [Kinds -> Nat]
      /\ taken \in Seq(SUBSET Items)
      /\ draws \in [Skus -> 0..2]
  BY DEF Init
<1>5. QED
  BY <1>1, <1>2, <1>3, <1>4 DEF TypeInv, TypeOK

\* A set of items is finite; taking out one that is in it lowers its size by one.
LEMMA ItemSets ==
    ASSUME NEW S, S \subseteq Items
    PROVE  /\ IsFiniteSet(S)
           /\ Cardinality(S) \in Nat
           /\ S # {} => Min(S) \in S /\ Cardinality(S \ {Min(S)}) = Cardinality(S) - 1
<1>1. IsFiniteSet(S) /\ Cardinality(S) \in Nat
  BY IdsAssumption, FS_Subset, FS_CardinalityType
<1>2. S # {} => Min(S) \in S
  BY IdsAssumption, MinOfNaturals
<1>3. QED
  BY <1>1, <1>2, FS_RemoveElement

\* One request moves on: the other sessions keep their types and guarantees.
LEMMA SessionStep ==
    ASSUME TypeInv, NEW s \in Sessions, NEW r \in Locals, LocalOK(r),
           sess' = [sess EXCEPT ![s] = r]
    PROVE  sess' \in [Sessions -> Locals] /\ \A t \in Sessions : LocalOK(sess'[t])
BY DEF TypeInv, TypeOK

LEMMA AskType ==
    ASSUME TypeInv, NEW s \in Sessions, NEW k \in Kinds, Ask(s, k)
    PROVE  asked' \in [Kinds -> Nat]
BY DEF Ask, TypeInv, TypeOK

\* A request starts (with record r) and writes nothing but its bookkeeping.
LEMMA StartStep ==
    ASSUME TypeInv, NEW s \in Sessions, NEW k \in Kinds, Ask(s, k),
           NEW r \in Locals, LocalOK(r), sess' = [sess EXCEPT ![s] = r],
           UNCHANGED <<items, batch, seller, stock, draws>>
    PROVE  TypeInv'
<1>1. sess' \in [Sessions -> Locals] /\ \A t \in Sessions : LocalOK(sess'[t])
  BY SessionStep
<1>2. asked' \in [Kinds -> Nat]
  BY AskType
<1>3. QED
  BY <1>1, <1>2 DEF TypeInv, TypeOK, stock

LEMMA TypeStarts ==
    ASSUME TypeInv, NEW s \in Sessions
    PROVE  /\ \A b \in Batches : DetectStart(s, b) => TypeInv'
           /\ \A i \in Items, k \in Cards, save \in BOOLEAN, c \in Conditions,
                 sku \in TypedSkus \cup {NoSku} : ReplaceStart(s, i, k, save, c, sku) => TypeInv'
           /\ \A i \in Items, c \in Conditions, sku \in TypedSkus \cup {NoSku} :
                 SaveStart(s, i, c, sku) => TypeInv'
           /\ \A b \in Batches, p \in Prefixes, n \in Starts : NumberStart(s, b, p, n) => TypeInv'
           /\ \A b \in Batches : ClearStart(s, b) => TypeInv'
           /\ BlankStart(s) => TypeInv'
           /\ \A b \in Batches, merge \in BOOLEAN : CommitStart(s, b, merge) => TypeInv'
<1> USE IdleType
<1>1. ASSUME NEW b \in Batches, DetectStart(s, b) PROVE TypeInv'
  <2>1. \A i \in {j \in Members(b) : items[j].card # NoCard} : Link(items, b, i) \in Items \cup {NoItem}
    <3> SUFFICES ASSUME NEW i \in {j \in Members(b) : items[j].card # NoCard}
                 PROVE  FirstSeen(items, b, i) \in Items
      BY DEF Link
    <3>1. i \in {j \in Members(b) : items[j].card # NoCard /\ SameCard(items, i, j)}
      BY DEF SameCard
    <3>2. QED
      BY <3>1, ItemSets DEF FirstSeen, Members
  <2> DEFINE todo == {i \in {j \in Members(b) : items[j].card # NoCard} :
                        Link(items, b, i) # NoItem \/ items[i].dup # NoItem}
             link == [i \in Items |-> IF i \in todo THEN Link(items, b, i) ELSE NoItem]
             r == [Idle EXCEPT !.pc = "detectItem", !.b = b, !.todo = todo, !.link = link]
  <2>2. todo \subseteq Items /\ link \in [Items -> Items \cup {NoItem}]
    BY <2>1 DEF Members
  <2> HIDE DEF todo, link
  <2>3. r \in Locals /\ LocalOK(r)
    BY <2>2 DEF Locals, LocalOK, Idle
  <2>4. sess' = [sess EXCEPT ![s] = r] /\ Ask(s, "detect") /\ UNCHANGED <<items, batch, seller, stock, draws>>
    BY <1>1 DEF DetectStart, todo, link
  <2>5. QED
    BY <2>3, <2>4, StartStep DEF Kinds
<1>2. ASSUME NEW i \in Items, NEW k \in Cards, NEW save \in BOOLEAN, NEW c \in Conditions,
             NEW sku \in TypedSkus \cup {NoSku}, ReplaceStart(s, i, k, save, c, sku)
      PROVE  TypeInv'
  <2> DEFINE seen == [Idle.seen EXCEPT ![i] = items[i]]
             r == [Idle EXCEPT !.pc = "replaceWrite", !.i = i, !.card = k, !.cond = c,
                               !.sku = sku, !.save = save, !.seen = seen]
  <2>1. seen \in [Items -> ItemRec]
    BY DEF Locals, TypeInv, TypeOK
  <2> HIDE DEF seen
  <2>2. r \in Locals /\ LocalOK(r)
    BY <2>1, SkuAssumption, ZenonT(60) DEF Locals, LocalOK, Idle
  <2>3. sess' = [sess EXCEPT ![s] = r] /\ UNCHANGED <<items, batch, seller, stock, draws>>
    BY <1>2 DEF ReplaceStart, seen
  <2>4. Ask(s, "save") \/ Ask(s, "replace")
    BY <1>2 DEF ReplaceStart
  <2>5. QED
    BY <2>2, <2>3, <2>4, StartStep DEF Kinds
<1>3. ASSUME NEW i \in Items, NEW c \in Conditions, NEW sku \in TypedSkus \cup {NoSku}, SaveStart(s, i, c, sku)
      PROVE  TypeInv'
  <2> DEFINE r == [Idle EXCEPT !.pc = "saveWrite", !.i = i, !.cond = c, !.sku = sku, !.save = TRUE]
  <2>1. r \in Locals /\ LocalOK(r)
    BY SkuAssumption DEF Locals, LocalOK, Idle
  <2>2. sess' = [sess EXCEPT ![s] = r] /\ Ask(s, "save") /\ UNCHANGED <<items, batch, seller, stock, draws>>
    BY <1>3 DEF SaveStart
  <2>3. QED
    BY <2>1, <2>2, StartStep DEF Kinds
<1>4. ASSUME NEW b \in Batches, NEW p \in Prefixes, NEW n \in Starts, NumberStart(s, b, p, n)
      PROVE  TypeInv'
  <2> DEFINE todo == {i \in BulkItems(b) : items[i].dup = NoItem}
             acct == [FirstSeller EXCEPT !.prefix = p]
             r == [Idle EXCEPT !.pc = "numberSeller", !.acct = acct, !.num = n, !.todo = todo]
  <2>1. todo \subseteq Items /\ acct \in Sellers /\ n \in 0..MaxNext
    BY FirstSellerType, BoundsAssumption DEF BulkItems, Members, Sellers
  <2>2. sess' = [sess EXCEPT ![s] = r] /\ Ask(s, "number") /\ UNCHANGED <<items, batch, seller, stock, draws>>
    BY <1>4 DEF NumberStart
  <2> HIDE DEF todo, acct
  <2>3. r \in Locals /\ LocalOK(r)
    BY <2>1 DEF Locals, LocalOK, Idle
  <2>4. QED
    BY <2>2, <2>3, StartStep DEF Kinds
<1>5. ASSUME NEW b \in Batches, ClearStart(s, b) PROVE TypeInv'
  <2> DEFINE r == [Idle EXCEPT !.pc = "clearItem", !.todo = BulkItems(b)]
  <2>1. r \in Locals /\ LocalOK(r)
    BY DEF Locals, LocalOK, Idle, BulkItems, Members
  <2>2. sess' = [sess EXCEPT ![s] = r] /\ Ask(s, "clear") /\ UNCHANGED <<items, batch, seller, stock, draws>>
    BY <1>5 DEF ClearStart
  <2>3. QED
    BY <2>1, <2>2, StartStep DEF Kinds
<1>6. ASSUME BlankStart(s) PROVE TypeInv'
  <2> DEFINE r == [Idle EXCEPT !.pc = "blankNext", !.acct = seller]
  <2>1. seller \in Sellers /\ seller.next < MaxNext
    BY <1>6 DEF BlankStart, TypeInv, TypeOK
  <2>2. r \in Locals /\ LocalOK(r)
    BY <2>1 DEF Locals, LocalOK, Idle
  <2>3. sess' = [sess EXCEPT ![s] = r] /\ Ask(s, "blank") /\ UNCHANGED <<items, batch, seller, stock, draws>>
    BY <1>6 DEF BlankStart
  <2>4. QED
    BY <2>2, <2>3, StartStep DEF Kinds
<1>7. ASSUME NEW b \in Batches, NEW merge \in BOOLEAN, CommitStart(s, b, merge) PROVE TypeInv'
  <2> DEFINE r == [Idle EXCEPT !.pc = "commitItems", !.b = b, !.merge = merge, !.acct = seller]
  <2>1. seller \in Sellers
    BY DEF TypeInv, TypeOK
  <2>2. r \in Locals /\ LocalOK(r)
    BY <2>1 DEF Locals, LocalOK, Idle
  <2>3. sess' = [sess EXCEPT ![s] = r] /\ Ask(s, "commit") /\ UNCHANGED <<items, batch, seller, stock, draws>>
    BY <1>7 DEF CommitStart
  <2>4. QED
    BY <2>2, <2>3, StartStep DEF Kinds
<1>8. QED
  BY <1>1, <1>2, <1>3, <1>4, <1>5, <1>6, <1>7

\* Counting draws stays between 0 and 2; what was not drawn keeps its count.
LEMMA DrawnType ==
    ASSUME NEW d \in [Skus -> 0..2], NEW F, IsFiniteSet(DOMAIN F)
    PROVE  /\ Drawn(d, F) \in [Skus -> 0..2]
           /\ \A k \in Skus : LET n == Cardinality({i \in DOMAIN F : F[i] = k})
                              IN  /\ n \in Nat
                                  /\ d[k] + n <= 2 => Drawn(d, F)[k] = d[k] + n
<1> SUFFICES ASSUME NEW k \in Skus
             PROVE  /\ Cardinality({i \in DOMAIN F : F[i] = k}) \in Nat
                    /\ Drawn(d, F)[k] \in 0..2
                    /\ d[k] + Cardinality({i \in DOMAIN F : F[i] = k}) <= 2
                          => Drawn(d, F)[k] = d[k] + Cardinality({i \in DOMAIN F : F[i] = k})
  BY DEF Drawn
<1> DEFINE n == Cardinality({i \in DOMAIN F : F[i] = k})
<1>1. n \in Nat
  BY FS_Subset, FS_CardinalityType
<1> HIDE DEF n
<1>2. d[k] + n \in Nat
  BY <1>1
<1> DEFINE m == d[k] + n
<1>3. Min({2, m}) \in {2, m} /\ \A j \in {2, m} : Min({2, m}) <= j
  <2> HIDE DEF m
  <2>1. {2, m} \subseteq Nat /\ {2, m} # {}
    BY <1>2 DEF m
  <2>2. QED
    BY <2>1, MinOfNaturals
<1>4. Drawn(d, F)[k] = Min({2, d[k] + n})
  BY DEF Drawn, n
<1>5. QED
  BY <1>1, <1>2, <1>3, <1>4 DEF n

\* The items that get a row take their numbers from the counter up, one each.
LEMMA Ranks ==
    ASSUME NEW S, S \subseteq Items
    PROVE  /\ \A i \in S : Cardinality({j \in S : j < i}) \in 0..(Cardinality(S) - 1)
           /\ \A i, k \in S : i # k => Cardinality({j \in S : j < i}) # Cardinality({j \in S : j < k})
<1> DEFINE below(i) == {j \in S : j < i}
<1>1. ASSUME NEW i \in S, NEW T \in SUBSET S, below(i) \subseteq T, i \in T
      PROVE  Cardinality(below(i)) \in Nat /\ Cardinality(T) \in Nat /\ Cardinality(below(i)) < Cardinality(T)
  <2>1. IsFiniteSet(T) /\ Cardinality(T) \in Nat
    BY <1>1, ItemSets
  <2>2. i \in Nat /\ i \notin below(i)
    BY IdsAssumption
  <2>3. /\ Cardinality(below(i)) \in Nat
        /\ Cardinality(below(i)) <= Cardinality(T)
        /\ Cardinality(T) # Cardinality(below(i))
    BY <1>1, <2>1, <2>2, FS_Subset, FS_CardinalityType
  <2>4. QED
    BY <2>1, <2>3
<1>2. \A i \in S : Cardinality(below(i)) \in 0..(Cardinality(S) - 1)
  BY <1>1
<1>3. ASSUME NEW i \in S, NEW k \in S, i < k PROVE Cardinality(below(i)) < Cardinality(below(k))
  <2>1. \A j \in S : j \in Nat
    BY IdsAssumption
  <2>2. \A j \in S : j < i => j < k
    BY <1>3, <2>1
  <2>3. below(k) \in SUBSET S /\ below(i) \subseteq below(k) /\ i \in below(k)
    BY <1>3, <2>2
  <2>4. QED
    BY <1>1, <2>3
<1>4. \A i, k \in S : i # k => i < k \/ k < i
  BY IdsAssumption
<1>5. QED
  BY <1>2, <1>3, <1>4

\* The types of what a request holds, and of the item it is about.
LEMMA Holds ==
    ASSUME TypeInv, NEW s \in Sessions
    PROVE  /\ sess[s] \in Locals /\ LocalOK(sess[s])
           /\ sess[s].card \in Cards \cup {NoCard} /\ sess[s].cond \in Conditions
           /\ sess[s].sku \in Skus \cup {NoSku} /\ sess[s].acct \in Sellers
           /\ sess[s].todo \subseteq Items /\ sess[s].num \in 0..MaxNext
           /\ \A i \in Items : items[i] \in ItemRec /\ sess[s].seen[i] \in ItemRec
           /\ \A i \in Items : sess[s].link[i] \in Items \cup {NoItem}
<1>1. sess[s] \in Locals /\ LocalOK(sess[s]) /\ \A i \in Items : items[i] \in ItemRec
  BY DEF TypeInv, TypeOK
<1>2. QED
  BY <1>1 DEF Locals

\* A patch of one item keeps the table's type.
LEMMA PatchType ==
    ASSUME TypeInv, NEW i, NEW rec, i \in Items => rec \in ItemRec,
           items' = [items EXCEPT ![i] = rec]
    PROVE  items' \in [Items -> ItemRec]
BY DEF TypeInv, TypeOK

LEMMA TypeEdits ==
    ASSUME TypeInv, NEW s \in Sessions
    PROVE  /\ DetectItem(s) => TypeInv'
           /\ Finalize(s) => TypeInv'
           /\ \A i \in Items : Skip(s, i) \/ Approve(s, i) => TypeInv'
           /\ ReplaceWrite(s) \/ SaveWrite(s) => TypeInv'
           /\ ClearItem(s) => TypeInv'
           /\ Die(s) => TypeInv'
<1> USE IdleType
<1>1. ASSUME NEW r \in Locals, LocalOK(r), sess' = [sess EXCEPT ![s] = r],
             items' \in [Items -> ItemRec], batch' \in [Batches -> {"processing", "done"}],
             UNCHANGED <<asked, seller, stock, draws>>
      PROVE  TypeInv'
  BY <1>1, SessionStep DEF TypeInv, TypeOK, stock
<1>2. LocalOK(Idle) /\ sess[s] \in Locals /\ LocalOK(sess[s])
  BY Holds DEF LocalOK, Idle
<1>3. ASSUME DetectItem(s) PROVE TypeInv'
  <2> DEFINE i == Min(sess[s].todo)
             r == [sess[s] EXCEPT !.todo = @ \ {i}, !.link[i] = NoItem]
  <2>1. i \in Items /\ sess[s].link[i] \in Items \cup {NoItem}
    BY <1>2, <1>3, ItemSets DEF DetectItem, Locals
  <2>2. items' = [items EXCEPT ![i].dup = sess[s].link[i]] /\ sess' = [sess EXCEPT ![s] = r]
    BY <1>3 DEF DetectItem
  <2>3. sess[s].pc = "detectItem" /\ UNCHANGED <<asked, batch, seller, stock, draws>>
    BY <1>3 DEF DetectItem
  <2> HIDE DEF i
  <2>4. r \in Locals /\ LocalOK(r)
    BY <1>2, <2>1, <2>3, ZenonT(60) DEF Locals, LocalOK
  <2>5. items' \in [Items -> ItemRec]
    BY <2>1, <2>2, ZenonT(60) DEF TypeInv, TypeOK, ItemRec
  <2>6. QED
    BY <1>1, <2>2, <2>3, <2>4, <2>5 DEF TypeInv, TypeOK
<1>4. ASSUME Finalize(s) PROVE TypeInv'
  BY <1>1, <1>2, <1>4 DEF Finalize, Finish, TypeInv, TypeOK
<1>5. ASSUME NEW i \in Items, Skip(s, i) \/ Approve(s, i) PROVE TypeInv'
  <2>1. items' \in [Items -> ItemRec]
    <3>1. \A st \in Statuses : [items[i] EXCEPT !.status = st] \in ItemRec
      BY Holds DEF ItemRec
    <3>2. \E st \in Statuses : items' = [items EXCEPT ![i].status = st]
      BY <1>5 DEF Skip, Approve, Statuses
    <3>3. QED
      BY <3>1, <3>2, PatchType
  <2>2. asked' \in [Kinds -> Nat]
    BY <1>5 DEF Skip, Approve, Ask, TypeInv, TypeOK
  <2>3. UNCHANGED <<batch, seller, inv, taken, draws, sess>>
    BY <1>5 DEF Skip, Approve, stock
  <2>4. QED
    BY <2>1, <2>2, <2>3 DEF TypeInv, TypeOK
<1>6. ASSUME ReplaceWrite(s) PROVE TypeInv'
  <2> DEFINE i == sess[s].i
             r == IF sess[s].save
                  THEN [sess[s] EXCEPT !.pc = "saveWrite", !.card = NoCard, !.seen = Idle.seen]
                  ELSE Idle
  <2> DEFINE was == sess[s].seen[i].status
             rec == [items[i] EXCEPT !.card = sess[s].card,
                        !.status = IF was \in {"failed", "needs_review"} THEN "matched" ELSE was]
  <2>0. i \in Items => rec \in ItemRec
    <3>1. ASSUME i \in Items PROVE was \in Statuses /\ items[i] \in ItemRec
      BY <3>1, Holds DEF ItemRec
    <3>2. QED
      BY <3>1, Holds DEF ItemRec, Statuses
  <2>1. items' \in [Items -> ItemRec]
    BY <1>6, <2>0, PatchType DEF ReplaceWrite
  <2>2. r \in Locals /\ LocalOK(r)
    <3>1. Idle.seen \in [Items -> ItemRec]
      BY DEF Locals
    <3>2. [sess[s] EXCEPT !.pc = "saveWrite", !.card = NoCard, !.seen = Idle.seen] \in Locals
      BY <1>2, <3>1 DEF Locals
    <3>3. QED
      BY <1>2, <3>2 DEF LocalOK, Locals
  <2>3. sess' = [sess EXCEPT ![s] = r] /\ UNCHANGED <<asked, batch, seller, stock, draws>>
    BY <1>2, <1>6 DEF ReplaceWrite, Finish, TypeInv, TypeOK
  <2>4. QED
    BY <1>1, <2>1, <2>2, <2>3 DEF TypeInv, TypeOK
<1>7. ASSUME SaveWrite(s) PROVE TypeInv'
  <2> DEFINE i == sess[s].i
             rec == [items[i] EXCEPT !.cond = sess[s].cond, !.sku = sess[s].sku]
  <2>0. ASSUME i \in Items PROVE rec \in ItemRec
    <3>1. items[i] \in ItemRec
      BY <2>0, Holds
    <3> HIDE DEF i
    <3>2. QED
      BY <3>1, Holds DEF ItemRec
  <2>1. items' \in [Items -> ItemRec]
    BY <1>7, <2>0, PatchType DEF SaveWrite
  <2>2. QED
    BY <1>1, <1>2, <1>7, <2>1 DEF SaveWrite, Finish, TypeInv, TypeOK
<1>8. ASSUME ClearItem(s) PROVE TypeInv'
  <2> DEFINE i == Min(sess[s].todo)
             r == IF sess[s].todo = {i} THEN Idle ELSE [sess[s] EXCEPT !.todo = @ \ {i}]
  <2>1. items' \in [Items -> ItemRec]
    BY <1>8, ZenonT(60) DEF ClearItem, TypeInv, TypeOK, ItemRec
  <2>2. r \in Locals /\ LocalOK(r)
    BY <1>2, <1>8 DEF ClearItem, Locals, LocalOK
  <2>3. sess' = [sess EXCEPT ![s] = r] /\ UNCHANGED <<asked, batch, seller, stock, draws>>
    BY <1>8 DEF ClearItem, Finish
  <2>4. QED
    BY <1>1, <2>1, <2>2, <2>3 DEF TypeInv, TypeOK
<1>9. ASSUME Die(s) PROVE TypeInv'
  BY <1>1, <1>2, <1>9 DEF Die, Finish, TypeInv, TypeOK
<1>10. QED
  BY <1>3, <1>4, <1>5, <1>6, <1>7, <1>8, <1>9

LEMMA TypeNumbering ==
    ASSUME TypeInv, NEW s \in Sessions
    PROVE  /\ NumberReadSeller(s) \/ NumberItem(s) \/ NumberDone(s) \/ BlankNext(s) => TypeInv'
           /\ \A p \in Prefixes, n \in Starts : SaveShop(s, p, n) => TypeInv'
           /\ \A p \in Prefixes : SaveScanPrefix(s, p) => TypeInv'
<1> USE IdleType
<1>1. ASSUME NEW r \in Locals, LocalOK(r), sess' = [sess EXCEPT ![s] = r],
             items' \in [Items -> ItemRec], seller' \in Sellers, draws' \in [Skus -> 0..2],
             UNCHANGED <<asked, batch, stock>>
      PROVE  TypeInv'
  BY <1>1, SessionStep DEF TypeInv, TypeOK, stock
<1>2. LocalOK(Idle) /\ items \in [Items -> ItemRec] /\ draws \in [Skus -> 0..2] /\ seller \in Sellers
  BY DEF LocalOK, Idle, TypeInv, TypeOK
<1>3. ASSUME NumberReadSeller(s) PROVE TypeInv'
  <2> DEFINE n == IF sess[s].num = 0 THEN seller.next ELSE sess[s].num
             r == [sess[s] EXCEPT !.pc = "numberItem", !.num = n]
  <2>1. n \in 1..MaxNext
    BY <1>2, Holds DEF Sellers
  <2>2. n + Cardinality(sess[s].todo) <= MaxNext /\ sess' = [sess EXCEPT ![s] = r]
    BY <1>3 DEF NumberReadSeller
  <2> HIDE DEF n
  <2>3. r \in Locals /\ LocalOK(r)
    <3>1. n \in 0..MaxNext /\ sess[s] \in Locals
      BY <2>1, Holds
    <3>2. r \in Locals
      BY <3>1 DEF Locals
    <3>3. r.pc = "numberItem" /\ r.num = n /\ r.todo = sess[s].todo
      BY <3>1 DEF Locals
    <3>4. QED
      BY <2>1, <2>2, <3>2, <3>3 DEF LocalOK
  <2>4. QED
    BY <1>1, <1>2, <1>3, <2>2, <2>3 DEF NumberReadSeller, stock
<1>4. ASSUME NumberItem(s) PROVE TypeInv'
  <2> DEFINE i == Min(sess[s].todo)
             sku == [prefix |-> sess[s].acct.prefix, n |-> sess[s].num]
             rec == [items[i] EXCEPT !.sku = sku]
             r == [sess[s] EXCEPT !.todo = @ \ {i}, !.num = @ + 1]
  <2>1. i \in Items /\ Cardinality(sess[s].todo \ {i}) = Cardinality(sess[s].todo) - 1
    BY <1>4, Holds, ItemSets DEF NumberItem
  <2>2. /\ Cardinality(sess[s].todo) \in Nat /\ Cardinality(sess[s].todo) >= 1
        /\ sess[s].num >= 1 /\ sess[s].num + Cardinality(sess[s].todo) <= MaxNext
    BY <1>4, <2>1, Holds, ItemSets, FS_EmptySet DEF NumberItem, LocalOK
  <2>3. sess[s].num \in 0..MaxNext /\ sess[s].num + 1 \in 0..MaxNext
    BY <2>2, Holds, BoundsAssumption
  <2>4. sku \in Skus
    BY <2>3, Holds DEF Skus, Sellers
  <2>5. /\ items' = [items EXCEPT ![i].sku = sku] /\ draws' = Drawn(draws, [j \in {i} |-> sku])
        /\ sess' = [sess EXCEPT ![s] = r] /\ UNCHANGED <<asked, batch, seller, stock>>
    BY <1>4 DEF NumberItem
  <2> HIDE DEF i, sku
  <2>6. r \in Locals
    BY <2>3, Holds, ZenonT(60) DEF Locals
  <2>7. LocalOK(r)
    BY <2>1, <2>2, Holds DEF LocalOK, Locals
  <2>8. items' \in [Items -> ItemRec]
    <3>1. rec \in ItemRec
      BY <2>1, <2>4, Holds DEF ItemRec
    <3>2. QED
      BY <2>5, <3>1, PatchType
  <2>9. draws' \in [Skus -> 0..2]
    BY <1>2, <2>5, DrawnType, FS_Singleton
  <2>10. QED
    BY <1>1, <1>2, <2>5, <2>6, <2>7, <2>8, <2>9
<1>5. ASSUME NumberDone(s) PROVE TypeInv'
  <2>1. [prefix |-> sess[s].acct.prefix, next |-> sess[s].num] \in Sellers
    BY <1>5, Holds DEF NumberDone, LocalOK, Sellers
  <2>2. QED
    BY <1>1, <1>2, <1>5, <2>1 DEF NumberDone, Finish
<1>6. ASSUME BlankNext(s) PROVE TypeInv'
  <2> DEFINE sku == [prefix |-> sess[s].acct.prefix, n |-> sess[s].acct.next]
  <2>1. [seller EXCEPT !.next = sess[s].acct.next + 1] \in Sellers
    BY <1>2, <1>6, Holds, BoundsAssumption DEF BlankNext, LocalOK, Sellers
  <2>2. Drawn(draws, [j \in {NoItem} |-> sku]) \in [Skus -> 0..2]
    BY <1>2, DrawnType, FS_Singleton
  <2>3. QED
    BY <1>1, <1>2, <1>6, <2>1, <2>2 DEF BlankNext, Finish
<1>7. ASSUME UNCHANGED <<items, batch, stock, draws, sess>>, seller' \in Sellers, asked' \in [Kinds -> Nat]
      PROVE  TypeInv'
  BY <1>7 DEF TypeInv, TypeOK, stock
<1>8. ASSUME NEW p \in Prefixes, NEW n \in Starts, SaveShop(s, p, n) PROVE TypeInv'
  <2>1. [prefix |-> p, next |-> IF n = 0 THEN 1 ELSE n] \in Sellers
    BY BoundsAssumption DEF Sellers
  <2>2. asked' \in [Kinds -> Nat]
    BY <1>8, AskType DEF SaveShop, Kinds
  <2>3. QED
    BY <1>7, <1>8, <2>1, <2>2 DEF SaveShop
<1>9. ASSUME NEW p \in Prefixes, SaveScanPrefix(s, p) PROVE TypeInv'
  <2>1. [seller EXCEPT !.prefix = p] \in Sellers
    BY <1>2 DEF Sellers
  <2>2. asked' \in [Kinds -> Nat]
    BY <1>9, AskType DEF SaveScanPrefix, Kinds
  <2>3. QED
    BY <1>7, <1>9, <2>1, <2>2 DEF SaveScanPrefix
<1>10. QED
  BY <1>3, <1>4, <1>5, <1>6, <1>8, <1>9

\* What a commit works with: a set of items, and the SKU each new row gets.
LEMMA CommitSkus ==
    ASSUME TypeInv, NEW s \in Sessions, NEW kept \in SUBSET Selected(sess[s]),
           sess[s].acct.next + Cardinality(Fresh(sess[s], kept)) <= MaxNext
    PROVE  /\ IsFiniteSet(Fresh(sess[s], kept)) /\ Fresh(sess[s], kept) \subseteq kept
           /\ Selected(sess[s]) \subseteq Items
           /\ Cardinality(Fresh(sess[s], kept)) \in Nat
           /\ \A i \in kept : SkuOf(sess[s], kept, i) \in Skus
<1> DEFINE r == sess[s]
           fresh == Fresh(r, kept)
<1>1. Selected(r) \subseteq Items /\ fresh \subseteq kept
  BY DEF Selected, Fresh
<1>2. fresh \subseteq Items
  BY <1>1
<1>3. IsFiniteSet(fresh) /\ Cardinality(fresh) \in Nat
  BY <1>2, ItemSets
<1>4. ASSUME NEW i \in kept PROVE SkuOf(r, kept, i) \in Skus
  <2>1. r.seen[i].sku \in Skus \cup {NoSku}
    BY <1>1, Holds DEF ItemRec
  <2>2. CASE r.seen[i].sku # NoSku
    BY <2>1, <2>2 DEF SkuOf
  <2>3. CASE r.seen[i].sku = NoSku
    <3> DEFINE rank == Cardinality({j \in fresh : j < i})
    <3>1. i \in fresh
      BY <2>3 DEF Fresh
    <3>2. rank \in 0..(Cardinality(fresh) - 1)
      BY <1>2, <3>1, Ranks
    <3>3. r.acct.next \in 1..MaxNext /\ r.acct.prefix \in Prefixes
      BY Holds DEF Sellers
    <3>4. r.acct.next + rank \in 0..MaxNext
      BY <1>3, <3>2, <3>3, BoundsAssumption
    <3>5. SkuOf(r, kept, i) = [prefix |-> r.acct.prefix, n |-> r.acct.next + rank]
      BY <2>3 DEF SkuOf
    <3>6. QED
      BY <3>3, <3>4, <3>5 DEF Skus
  <2>4. QED
    BY <2>2, <2>3
<1>5. QED
  BY <1>1, <1>3, <1>4

LEMMA TypeCommit ==
    ASSUME TypeInv, NEW s \in Sessions
    PROVE  CommitReadItems(s) \/ CommitTx(s) => TypeInv'
<1>1. ASSUME CommitReadItems(s) PROVE TypeInv'
  <2> DEFINE seen == [i \in Items |-> IF i \in Committable(sess[s].b) THEN items[i] ELSE Unread]
             r == [sess[s] EXCEPT !.pc = "commitTx", !.seen = seen]
  <2>1. seen \in [Items -> ItemRec]
    BY Holds, UnreadType
  <2>2. sess' = [sess EXCEPT ![s] = r] /\ UNCHANGED <<asked, items, batch, seller, stock, draws>>
    BY <1>1 DEF CommitReadItems
  <2> HIDE DEF seen
  <2>3. r \in Locals /\ LocalOK(r)
    BY <2>1, Holds, ZenonT(60) DEF Locals, LocalOK
  <2>4. QED
    BY <2>2, <2>3, SessionStep DEF TypeInv, TypeOK, stock
<1>2. ASSUME CommitTx(s) PROVE TypeInv'
  <2> DEFINE r == sess[s]
  <2>1. PICK kept \in SUBSET Selected(r) :
           /\ r.acct.next + Cardinality(Fresh(r, kept)) <= MaxNext
           /\ inv' = inv \cup
                { [commit |-> Len(taken) + 1, src |-> i, sku |-> SkuOf(r, kept, i),
                   cards |-> CardsOf(r, kept, i),
                   kinds |-> {<<r.seen[j].card, r.seen[j].cond>> : j \in CardsOf(r, kept, i)}] : i \in kept }
           /\ items' = [i \in Items |->
                IF i \in kept THEN [items[i] EXCEPT !.status = "approved", !.sku = SkuOf(r, kept, i)]
                ELSE IF i \in Selected(r) THEN [items[i] EXCEPT !.status = "approved"]
                ELSE items[i]]
           /\ seller' = [seller EXCEPT !.next = r.acct.next + Cardinality(Fresh(r, kept))]
           /\ draws' = Drawn(draws, [i \in Fresh(r, kept) |-> SkuOf(r, kept, i)])
           /\ taken' = Append(taken, Selected(r))
    BY <1>2 DEF CommitTx
  <2>2. /\ IsFiniteSet(Fresh(r, kept)) /\ Fresh(r, kept) \subseteq kept
        /\ Selected(r) \subseteq Items
        /\ Cardinality(Fresh(r, kept)) \in Nat
        /\ \A i \in kept : SkuOf(r, kept, i) \in Skus
    BY <2>1, CommitSkus
  <2>3. items' \in [Items -> ItemRec]
    <3> SUFFICES ASSUME NEW i \in Items
                 PROVE  /\ items[i] \in ItemRec
                        /\ [items[i] EXCEPT !.status = "approved"] \in ItemRec
                        /\ i \in kept => [items[i] EXCEPT !.status = "approved", !.sku = SkuOf(r, kept, i)] \in ItemRec
      BY <2>1
    <3>1. items[i] \in ItemRec /\ "approved" \in Statuses
      BY Holds DEF Statuses
    <3>2. QED
      BY <2>2, <3>1 DEF ItemRec
  <2>4. inv' \subseteq InvRows
    <3>1. ASSUME NEW i \in kept
          PROVE  [commit |-> Len(taken) + 1, src |-> i, sku |-> SkuOf(r, kept, i),
                  cards |-> CardsOf(r, kept, i),
                  kinds |-> {<<r.seen[j].card, r.seen[j].cond>> : j \in CardsOf(r, kept, i)}] \in InvRows
      <4>1. Len(taken) + 1 \in Nat \ {0}
        BY DEF TypeInv, TypeOK
      <4>2. CardsOf(r, kept, i) \subseteq Selected(r)
        BY <2>1 DEF CardsOf
      <4>3. \A j \in Selected(r) : r.seen[j].card \in Cards /\ r.seen[j].cond \in Conditions
        BY Holds DEF Selected, ItemRec
      <4>4. {<<r.seen[j].card, r.seen[j].cond>> : j \in CardsOf(r, kept, i)} \subseteq Cards \X Conditions
        BY <4>2, <4>3
      <4>5. i \in Items /\ SkuOf(r, kept, i) \in Skus /\ CardsOf(r, kept, i) \in SUBSET Items
        BY <2>2, <4>2
      <4>6. QED
        BY <4>1, <4>4, <4>5 DEF InvRows
    <3>2. inv \subseteq InvRows
      BY DEF TypeInv, TypeOK
    <3>3. QED
      BY <2>1, <3>1, <3>2
  <2>5. seller' \in Sellers
    <3>1. r.acct.next \in 1..MaxNext /\ seller \in Sellers
      BY Holds DEF Sellers, TypeInv, TypeOK
    <3>2. r.acct.next + Cardinality(Fresh(r, kept)) <= MaxNext
      BY <2>1
    <3>3. \A n \in Nat : r.acct.next + n <= MaxNext => r.acct.next + n \in 1..MaxNext
      BY <3>1, BoundsAssumption
    <3>4. seller' = [seller EXCEPT !.next = r.acct.next + Cardinality(Fresh(r, kept))]
      BY <2>1
    <3>5. QED
      BY <2>2, <3>1, <3>2, <3>3, <3>4 DEF Sellers
  <2>6. draws' \in [Skus -> 0..2]
    BY <2>1, <2>2, DrawnType DEF TypeInv, TypeOK
  <2>7. taken' \in Seq(SUBSET Items)
    <3>1. taken \in Seq(SUBSET Items) /\ Selected(r) \in SUBSET Items
      BY <2>2 DEF TypeInv, TypeOK
    <3>2. \A S \in SUBSET Items : Append(taken, S) \in Seq(SUBSET Items)
      BY <3>1
    <3>3. taken' = Append(taken, Selected(r))
      BY <2>1
    <3>4. QED
      BY <3>1, <3>2, <3>3
  <2>8. sess' \in [Sessions -> Locals] /\ \A t \in Sessions : LocalOK(sess'[t])
    <3>1. Idle \in Locals /\ LocalOK(Idle) /\ sess' = [sess EXCEPT ![s] = Idle]
      BY <1>2, IdleType DEF CommitTx, Finish, LocalOK, Idle
    <3>2. QED
      BY <3>1, SessionStep
  <2>9. batch' \in [Batches -> {"processing", "done"}] /\ asked' \in [Kinds -> Nat]
    BY <1>2 DEF CommitTx, TypeInv, TypeOK
  <2>10. QED
    BY <2>3, <2>4, <2>5, <2>6, <2>7, <2>8, <2>9 DEF TypeInv, TypeOK
<1>3. QED
  BY <1>1, <1>2

LEMMA TypeNext == TypeInv /\ [Next]_vars => TypeInv'
<1> SUFFICES ASSUME TypeInv, [Next]_vars PROVE TypeInv'
  OBVIOUS
<1>1. ASSUME NEW s \in Sessions, Review(s) PROVE TypeInv'
  <2>1. FirstCondition \in Conditions /\ TRUE \in BOOLEAN /\ FALSE \in BOOLEAN /\ NoSku \in TypedSkus \cup {NoSku}
    BY IdsAssumption DEF FirstCondition
  <2>2. QED
    BY <1>1, <2>1, TypeStarts, TypeEdits DEF Review
<1>2. ASSUME NEW s \in Sessions, Numbering(s) PROVE TypeInv'
  BY <1>2, TypeStarts, TypeEdits, TypeNumbering DEF Numbering
<1>3. ASSUME NEW s \in Sessions, Committing(s) PROVE TypeInv'
  BY <1>3, TypeStarts, TypeCommit DEF Committing
<1>4. ASSUME NEW s \in Sessions, Die(s) PROVE TypeInv'
  BY <1>4, TypeEdits
<1>5. ASSUME UNCHANGED vars PROVE TypeInv'
  BY <1>5 DEF vars, TypeInv, TypeOK
<1>6. QED
  BY <1>1, <1>2, <1>3, <1>4, <1>5 DEF Next

\* The tables and the request records keep their types, and no request carries a
\* number past MaxNext out of a statement.
THEOREM Typing == Spec => []TypeOK
<1>1. TypeInv => TypeOK
  BY DEF TypeInv
<1>2. QED
  BY TypeInit, TypeNext, <1>1, PTL DEF Spec

-----------------------------------------------------------------------------
(* Duplicate links.  A link lives in the table, in the list a detection is *)
(* writing and in what a request has read; it leads back in all three.     *)

LinksLeadBack(f) == \A i \in Items : f[i] # NoItem => LinkOK(i, f[i])
Dups(rows) == [i \in Items |-> rows[i].dup]

LinksInv ==
    /\ LinksLeadBack(Dups(items))
    /\ \A s \in Sessions : LinksLeadBack(sess[s].link) /\ LinksLeadBack(Dups(sess[s].seen))

LEMMA LinksInit == Init => LinksInv
BY DEF Init, LinksInv, LinksLeadBack, Dups, Idle, Unread

\* detectDuplicates links a raw card to an earlier raw card of its batch.
LEMMA DetectedLinksLeadBack ==
    ASSUME TypeInv, NEW b \in Batches, NEW i \in Members(b), items[i].card # NoCard,
           Link(items, b, i) # NoItem
    PROVE  LinkOK(i, Link(items, b, i))
<1> DEFINE alike == {j \in Members(b) : items[j].card # NoCard /\ SameCard(items, i, j)}
           first == Min(alike)
<1>1. i \in alike /\ alike \subseteq Items
  BY DEF SameCard, Members
<1>2. first \in alike /\ first <= i
  BY <1>1, IdsAssumption, MinOfNaturals
<1>3. Link(items, b, i) = first /\ first # i
  BY DEF Link, FirstSeen
<1>4. first \in Nat /\ i \in Nat
  BY <1>1, <1>2, IdsAssumption
<1> HIDE DEF first
<1>5. BatchOf[first] = BatchOf[i] /\ BatchOf[i] \notin Graded
  BY <1>1, <1>2, <1>3 DEF Members, SameCard
<1> HIDE DEF alike
<1>6. first < i
  BY <1>2, <1>3, <1>4
<1>7. QED
  BY <1>3, <1>5, <1>6 DEF LinkOK

LEMMA LinksNext == TypeInv /\ LinksInv /\ [Next]_vars => LinksInv'
<1> SUFFICES ASSUME TypeInv, LinksInv, [Next]_vars PROVE LinksInv'
  OBVIOUS
<1>1. ASSUME NEW s \in Sessions, NEW r, sess' = [sess EXCEPT ![s] = r],
             LinksLeadBack(r.link), LinksLeadBack(Dups(r.seen)), LinksLeadBack(Dups(items'))
      PROVE  LinksInv'
  BY <1>1 DEF LinksInv, TypeInv, TypeOK
<1>2. LinksLeadBack(Idle.link) /\ LinksLeadBack(Dups(Idle.seen)) /\ LinksLeadBack(Dups(items))
  BY DEF LinksLeadBack, Dups, Idle, Unread, LinksInv
<1>3. ASSUME NEW i, NEW rec, items' = [items EXCEPT ![i] = rec], rec.dup = items[i].dup
      PROVE  LinksLeadBack(Dups(items'))
  BY <1>2, <1>3 DEF LinksLeadBack, Dups, TypeInv, TypeOK
<1>4. ASSUME NEW s \in Sessions, NEW b \in Batches, DetectStart(s, b) PROVE LinksInv'
  <2> DEFINE matched == {i \in Members(b) : items[i].card # NoCard}
             todo == {i \in matched : Link(items, b, i) # NoItem \/ items[i].dup # NoItem}
             link == [i \in Items |-> IF i \in todo THEN Link(items, b, i) ELSE NoItem]
             r == [Idle EXCEPT !.pc = "detectItem", !.b = b, !.todo = todo, !.link = link]
  <2>1. LinksLeadBack(link)
    BY DetectedLinksLeadBack DEF LinksLeadBack
  <2>2. sess' = [sess EXCEPT ![s] = r] /\ UNCHANGED items
    BY <1>4 DEF DetectStart
  <2> HIDE DEF link, todo
  <2>3. r.link = link /\ r.seen = Idle.seen
    BY DEF Idle
  <2>4. QED
    BY <1>1, <1>2, <2>1, <2>2, <2>3
<1>5. ASSUME NEW s \in Sessions, DetectItem(s) PROVE LinksInv'
  <2> DEFINE i == Min(sess[s].todo)
             r == [sess[s] EXCEPT !.todo = @ \ {i}, !.link[i] = NoItem]
  <2>1. /\ items' = [items EXCEPT ![i].dup = sess[s].link[i]] /\ sess' = [sess EXCEPT ![s] = r]
        /\ i \in Items
    BY <1>5, Holds, ItemSets DEF DetectItem
  <2> HIDE DEF i
  <2>2. LinksLeadBack(Dups(items'))
    BY <2>1, <1>2, Holds DEF LinksLeadBack, Dups, LinksInv, TypeInv, TypeOK, ItemRec
  <2>3. r.seen = sess[s].seen /\ r.link = [sess[s].link EXCEPT ![i] = NoItem]
    BY Holds DEF Locals
  <2>4. LinksLeadBack(r.link) /\ LinksLeadBack(Dups(r.seen))
    BY <2>3, Holds DEF LinksLeadBack, LinksInv, Locals
  <2>5. QED
    BY <1>1, <2>1, <2>2, <2>4
<1>6. ASSUME NEW s \in Sessions, NEW i \in Items, NEW k, NEW save, NEW c, NEW sku,
             ReplaceStart(s, i, k, save, c, sku)
      PROVE  LinksInv'
  <2> DEFINE seen == [Idle.seen EXCEPT ![i] = items[i]]
             r == [Idle EXCEPT !.pc = "replaceWrite", !.i = i, !.card = k, !.cond = c,
                               !.sku = sku, !.save = save, !.seen = seen]
  <2>1. LinksLeadBack(Dups(seen))
    BY <1>2 DEF LinksLeadBack, Dups, Idle
  <2>2. sess' = [sess EXCEPT ![s] = r] /\ UNCHANGED items
    BY <1>6 DEF ReplaceStart
  <2> HIDE DEF seen
  <2>3. r.link = Idle.link /\ r.seen = seen
    BY DEF Idle
  <2>4. QED
    BY <1>1, <1>2, <2>1, <2>2, <2>3
<1>7. ASSUME NEW s \in Sessions, CommitReadItems(s) PROVE LinksInv'
  <2> DEFINE seen == [i \in Items |-> IF i \in Committable(sess[s].b) THEN items[i] ELSE Unread]
             r == [sess[s] EXCEPT !.pc = "commitTx", !.seen = seen]
  <2>1. LinksLeadBack(Dups(seen))
    BY <1>2 DEF LinksLeadBack, Dups, Unread
  <2>2. sess' = [sess EXCEPT ![s] = r] /\ UNCHANGED items
    BY <1>7 DEF CommitReadItems
  <2> HIDE DEF seen
  <2>3. r.link = sess[s].link /\ r.seen = seen
    BY Holds DEF Locals
  <2>4. QED
    BY <1>1, <1>2, <2>1, <2>2, <2>3 DEF LinksInv
\* The rest write no link, and leave a session idle or with the links it had.
<1>8. ASSUME NEW s \in Sessions, NEW r,
             sess' = [sess EXCEPT ![s] = r],
             r.link \in {Idle.link, sess[s].link}, r.seen \in {Idle.seen, sess[s].seen},
             LinksLeadBack(Dups(items'))
      PROVE  LinksInv'
  BY <1>1, <1>2, <1>8 DEF LinksInv
<1>9. ASSUME UNCHANGED sess, LinksLeadBack(Dups(items')) PROVE LinksInv'
  BY <1>9 DEF LinksInv
<1>10. ASSUME NEW s \in Sessions, Finalize(s) \/ NumberDone(s) \/ BlankNext(s) \/ Die(s) PROVE LinksInv'
  BY <1>2, <1>8, <1>10 DEF Finalize, NumberDone, BlankNext, Die, Finish
<1>11. ASSUME NEW s \in Sessions, NEW i \in Items, Skip(s, i) \/ Approve(s, i) PROVE LinksInv'
  <2>1. \E st \in Statuses : items' = [items EXCEPT ![i].status = st]
    BY <1>11 DEF Skip, Approve, Statuses
  <2>2. \A st : [items[i] EXCEPT !.status = st].dup = items[i].dup
    BY Holds DEF ItemRec
  <2>3. UNCHANGED sess
    BY <1>11 DEF Skip, Approve
  <2>4. QED
    BY <1>3, <1>9, <2>1, <2>2, <2>3
<1>12. ASSUME NEW s \in Sessions, ReplaceWrite(s) PROVE LinksInv'
  <2> DEFINE r == IF sess[s].save
                  THEN [sess[s] EXCEPT !.pc = "saveWrite", !.card = NoCard, !.seen = Idle.seen]
                  ELSE Idle
  <2>1. PICK c, st : items' = [items EXCEPT ![sess[s].i] = [@ EXCEPT !.card = c, !.status = st]]
    BY <1>12 DEF ReplaceWrite
  <2>2. LinksLeadBack(Dups(items'))
    BY <1>2, <2>1, Holds DEF LinksLeadBack, Dups, ItemRec, TypeInv, TypeOK
  <2>3. sess' = [sess EXCEPT ![s] = r]
    BY <1>12 DEF ReplaceWrite, Finish
  <2>4. r.link \in {Idle.link, sess[s].link} /\ r.seen \in {Idle.seen, sess[s].seen}
    BY Holds DEF Locals
  <2>5. QED
    BY <1>8, <2>2, <2>3, <2>4
<1>13. ASSUME NEW s \in Sessions, NEW i, NEW c, NEW sku, SaveStart(s, i, c, sku) PROVE LinksInv'
  BY <1>2, <1>8, <1>13 DEF SaveStart, Idle
<1>14. ASSUME NEW s \in Sessions, SaveWrite(s) PROVE LinksInv'
  <2>1. LinksLeadBack(Dups(items'))
    BY <1>2, <1>14, Holds DEF SaveWrite, LinksLeadBack, Dups, ItemRec, TypeInv, TypeOK
  <2>2. QED
    BY <1>8, <1>14, <2>1 DEF SaveWrite, Finish
<1>15. ASSUME NEW s \in Sessions, NEW b, NEW p, NEW n,
              NumberStart(s, b, p, n) \/ ClearStart(s, b) \/ BlankStart(s) \/ CommitStart(s, b, n)
       PROVE  LinksInv'
  BY <1>2, <1>8, <1>15 DEF NumberStart, ClearStart, BlankStart, CommitStart, Idle
<1>16. ASSUME NEW s \in Sessions, NumberReadSeller(s) PROVE LinksInv'
  BY <1>2, <1>8, <1>16, Holds DEF NumberReadSeller, Locals
<1>17. ASSUME NEW s \in Sessions, NumberItem(s) PROVE LinksInv'
  <2>1. LinksLeadBack(Dups(items'))
    BY <1>2, <1>17, Holds DEF NumberItem, LinksLeadBack, Dups, ItemRec, TypeInv, TypeOK
  <2>2. QED
    BY <1>8, <1>17, <2>1, Holds DEF NumberItem, Locals
<1>18. ASSUME NEW s \in Sessions, ClearItem(s) PROVE LinksInv'
  <2>1. LinksLeadBack(Dups(items'))
    BY <1>2, <1>18, Holds DEF ClearItem, LinksLeadBack, Dups, ItemRec, TypeInv, TypeOK
  <2>2. QED
    BY <1>8, <1>18, <2>1, Holds DEF ClearItem, Finish, Locals
<1>19. ASSUME NEW s \in Sessions, NEW p, NEW n, SaveShop(s, p, n) \/ SaveScanPrefix(s, p) PROVE LinksInv'
  BY <1>2, <1>9, <1>19 DEF SaveShop, SaveScanPrefix
<1>20. ASSUME NEW s \in Sessions, CommitTx(s) PROVE LinksInv'
  <2>1. \A i \in Items : items'[i].dup = items[i].dup
    <3>1. PICK kept : items' = [i \in Items |->
              IF i \in kept THEN [items[i] EXCEPT !.status = "approved", !.sku = SkuOf(sess[s], kept, i)]
              ELSE IF i \in Selected(sess[s]) THEN [items[i] EXCEPT !.status = "approved"]
              ELSE items[i]]
      BY <1>20 DEF CommitTx
    <3>2. \A i \in Items : items[i] \in ItemRec
      BY Holds
    <3>3. QED
      BY <3>1, <3>2 DEF ItemRec
  <2>2. LinksLeadBack(Dups(items'))
    BY <1>2, <2>1 DEF LinksLeadBack, Dups
  <2>3. QED
    BY <1>8, <1>20, <2>2 DEF CommitTx, Finish
<1>21. ASSUME UNCHANGED vars PROVE LinksInv'
  BY <1>2, <1>9, <1>21 DEF vars
<1>22. QED
  BY <1>4, <1>5, <1>6, <1>7, <1>10, <1>11, <1>12, <1>13, <1>14, <1>15, <1>16, <1>17, <1>18, <1>19,
     <1>20, <1>21 DEF Next, Review, Numbering, Committing

\* Whatever requests overlap, a duplicate link leads to an earlier card of the same
\* raw batch.
THEOREM LinksLead == Spec => []DupLinksLeadBack
<1>1. LinksInv => DupLinksLeadBack
  BY DEF LinksInv, LinksLeadBack, Dups, DupLinksLeadBack
<1>2. QED
  BY TypeInit, TypeNext, LinksInit, LinksNext, <1>1, PTL DEF Spec

-----------------------------------------------------------------------------
(* Inventory.  Only commitBatch writes rows, and it files what it selected.*)

StockInv ==
    /\ SlabsStaySeparate
    /\ NothingLostOrDoubled
    /\ \A row \in inv : row.commit \in 1..Len(taken)

\* The rows one commit adds: each selected item in one of them, slabs alone.
LEMMA RowsPartition ==
    ASSUME NEW r \in Locals, NEW kept \in SUBSET Selected(r), IsKept(r, kept),
           LinksLeadBack(Dups(r.seen))
    PROVE  /\ UNION {CardsOf(r, kept, i) : i \in kept} = Selected(r)
           /\ \A i, k \in kept : i # k => CardsOf(r, kept, i) \cap CardsOf(r, kept, k) = {}
           /\ \A i \in kept : BatchOf[i] \in Graded => CardsOf(r, kept, i) = {i}
<1>1. ASSUME NEW j \in Selected(r) \ kept
      PROVE  r.seen[j].dup \in kept /\ LinkOK(j, r.seen[j].dup)
  <2>1. r.seen[j].dup \in kept /\ j \in Items
    BY <1>1 DEF IsKept, Selected
  <2>2. r.seen[j].dup # NoItem
    BY <2>1, IdsAssumption DEF Selected
  <2>3. QED
    BY <2>1, <2>2 DEF LinksLeadBack, Dups
<1>2. UNION {CardsOf(r, kept, i) : i \in kept} = Selected(r)
  <2>1. ASSUME NEW j \in Selected(r) PROVE \E i \in kept : j \in CardsOf(r, kept, i)
    BY <1>1 DEF CardsOf
  <2>2. QED
    BY <2>1 DEF CardsOf
<1>3. \A i, k \in kept : i # k => CardsOf(r, kept, i) \cap CardsOf(r, kept, k) = {}
  BY DEF CardsOf
<1>4. \A i \in kept : BatchOf[i] \in Graded => CardsOf(r, kept, i) = {i}
  BY <1>1 DEF CardsOf, LinkOK
<1>5. QED
  BY <1>2, <1>3, <1>4

LEMMA StockInit == Init => StockInv
BY DEF Init, StockInv, SlabsStaySeparate, NothingLostOrDoubled

LEMMA StockNext == TypeInv /\ LinksInv /\ StockInv /\ [Next]_vars => StockInv'
<1> SUFFICES ASSUME TypeInv, LinksInv, StockInv, [Next]_vars PROVE StockInv'
  OBVIOUS
<1>1. ASSUME UNCHANGED <<inv, taken>> PROVE StockInv'
  BY <1>1 DEF StockInv, SlabsStaySeparate, NothingLostOrDoubled
<1>2. ASSUME NEW s \in Sessions, CommitTx(s) PROVE StockInv'
  <2> DEFINE r == sess[s]
             row(kept, i) == [commit |-> Len(taken) + 1, src |-> i, sku |-> SkuOf(r, kept, i),
                   cards |-> CardsOf(r, kept, i),
                   kinds |-> {<<r.seen[j].card, r.seen[j].cond>> : j \in CardsOf(r, kept, i)}]
  <2>1. PICK kept \in SUBSET Selected(r) :
           /\ IsKept(r, kept)
           /\ inv' = inv \cup {row(kept, i) : i \in kept}
           /\ taken' = Append(taken, Selected(r))
    BY <1>2 DEF CommitTx
  <2> DEFINE new == {row(kept, i) : i \in kept}
             c == Len(taken) + 1
  <2>2. r \in Locals /\ LinksLeadBack(Dups(r.seen)) /\ Selected(r) \in SUBSET Items
    BY Holds DEF LinksInv, Selected
  <2>3. /\ UNION {CardsOf(r, kept, i) : i \in kept} = Selected(r)
        /\ \A i, k \in kept : i # k => CardsOf(r, kept, i) \cap CardsOf(r, kept, k) = {}
        /\ \A i \in kept : BatchOf[i] \in Graded => CardsOf(r, kept, i) = {i}
    BY <2>1, <2>2, RowsPartition
  <2>4. \A x \in new : x.commit = c /\ x.src \in kept /\ x.cards = CardsOf(r, kept, x.src)
    OBVIOUS
  <2>5. UNION {x.cards : x \in new} = Selected(r)
    <3>1. \A i \in kept : row(kept, i) \in new /\ row(kept, i).cards = CardsOf(r, kept, i)
      OBVIOUS
    <3> HIDE DEF new, row
    <3>2. {x.cards : x \in new} = {CardsOf(r, kept, i) : i \in kept}
      BY <2>4, <3>1
    <3>3. QED
      BY <2>3, <3>2
  <2>6. \A x, y \in new : x # y => x.cards \cap y.cards = {}
    <3>1. \A x \in new : x = row(kept, x.src)
      OBVIOUS
    <3> HIDE DEF new, row
    <3>2. \A x, y \in new : x # y => x.src # y.src
      BY <3>1
    <3>3. QED
      BY <2>3, <2>4, <3>2
  <2>7. \A x \in new : BatchOf[x.src] \in Graded => x.cards = {x.src}
    BY <2>3, <2>4
  <2>8. /\ Len(taken') = c /\ taken'[c] = Selected(r) /\ Len(taken) \in Nat
        /\ \A d \in 1..Len(taken) : taken'[d] = taken[d]
    BY <2>1, <2>2 DEF TypeInv, TypeOK
  <2> HIDE DEF new, c
  <2>9. inv' = inv \cup new
    BY <2>1 DEF new
  <2>10. SlabsStaySeparate'
    BY <2>7, <2>9 DEF StockInv, SlabsStaySeparate
  <2>11. \A x \in inv' : x.commit \in 1..Len(taken')
    BY <2>4, <2>8, <2>9 DEF StockInv, c
  <2>12. \A d \in 1..Len(taken') :
            {x \in inv' : x.commit = d} = IF d = c THEN new ELSE {x \in inv : x.commit = d}
    BY <2>4, <2>8, <2>9 DEF StockInv, c
  <2>13. NothingLostOrDoubled'
    <3> SUFFICES ASSUME NEW d \in 1..Len(taken')
                 PROVE  LET rows == {x \in inv' : x.commit = d}
                        IN  /\ UNION {x.cards : x \in rows} = taken'[d]
                            /\ \A x, y \in rows : x # y => x.cards \cap y.cards = {}
      BY DEF NothingLostOrDoubled
    <3>1. CASE d = c
      BY <2>5, <2>6, <2>8, <2>12, <3>1
    <3>2. CASE d # c
      <4>1. d \in 1..Len(taken)
        BY <2>8, <3>2 DEF c
      <4>2. QED
        BY <2>8, <2>12, <3>2, <4>1 DEF StockInv, NothingLostOrDoubled
    <3>3. QED
      BY <3>1, <3>2
  <2>14. QED
    BY <2>10, <2>11, <2>13 DEF StockInv
<1>3. ASSUME NEW s \in Sessions, Review(s) PROVE UNCHANGED <<inv, taken>>
  BY <1>3 DEF Review, DetectStart, DetectItem, Finalize, Skip, Approve, SaveStart, ReplaceStart,
              ReplaceWrite, SaveWrite, stock
<1>4. ASSUME NEW s \in Sessions, Numbering(s) PROVE UNCHANGED <<inv, taken>>
  BY <1>4 DEF Numbering, NumberStart, NumberReadSeller, NumberItem, NumberDone, ClearStart,
              ClearItem, BlankStart, BlankNext, SaveShop, SaveScanPrefix, stock
<1>6. ASSUME NEW s \in Sessions, Die(s) PROVE UNCHANGED <<inv, taken>>
  BY <1>6 DEF Die, stock
<1>7. ASSUME NEW s \in Sessions, Committing(s) PROVE StockInv'
  BY <1>1, <1>2, <1>7 DEF Committing, CommitStart, CommitReadItems, stock
<1>8. UNCHANGED vars => UNCHANGED <<inv, taken>>
  BY DEF vars
<1>9. QED
  BY <1>1, <1>3, <1>4, <1>6, <1>7, <1>8 DEF Next

\* Whatever is edited, retried or overlapped between detection and commit, every
\* commit files each card it selected in exactly one row, and a row that holds a
\* slab holds nothing else.
THEOREM StockIsWhole == Spec => [](NothingLostOrDoubled /\ SlabsStaySeparate)
<1>1. StockInv => NothingLostOrDoubled /\ SlabsStaySeparate
  BY DEF StockInv
<1>2. QED
  BY TypeInit, TypeNext, LinksInit, LinksNext, StockInit, StockNext, <1>1, PTL DEF Spec

-----------------------------------------------------------------------------
(* The counter, one request at a time.  The runs show that each of these   *)
(* conditions is needed: overlapping requests, a start number or a counter *)
(* typed by hand, and a numbering that stops half way all draw twice.      *)

OneAtATime ==
    /\ \A s, t \in Sessions : s = t
    /\ Starts = {0}
    /\ Budget["shop"] = 0
    /\ "number" \notin MayDie

GivenBelow(d, n) == \A k \in Skus : d[k] > 0 => k.n < n

CounterInv ==
    /\ DrawnOnce
    /\ \A s \in Sessions :
          /\ sess[s].pc \in {"commitItems", "commitTx", "blankNext"} => sess[s].acct.next = seller.next
          /\ sess[s].pc = "numberSeller" => sess[s].num = 0
          /\ IF sess[s].pc = "numberItem"
             THEN seller.next <= sess[s].num /\ GivenBelow(draws, sess[s].num)
             ELSE GivenBelow(draws, seller.next)

LEMMA CounterInit == Init => CounterInv
BY DEF Init, CounterInv, DrawnOnce, GivenBelow, Idle

\* Drawing SKUs nobody was given, all different, leaves every count at one or less.
LEMMA FreshDraw ==
    ASSUME NEW d \in [Skus -> 0..2], NEW F, IsFiniteSet(DOMAIN F),
           NEW n \in Nat, NEW m \in Nat, n <= m,
           \A k \in Skus : d[k] <= 1, GivenBelow(d, n),
           \A i \in DOMAIN F : F[i] \in Skus /\ n <= F[i].n /\ F[i].n < m,
           \A i, j \in DOMAIN F : i # j => F[i] # F[j]
    PROVE  (\A k \in Skus : Drawn(d, F)[k] <= 1) /\ GivenBelow(Drawn(d, F), m)
<1> SUFFICES ASSUME NEW k \in Skus
             PROVE  Drawn(d, F)[k] <= 1 /\ (Drawn(d, F)[k] > 0 => k.n < m)
  BY DEF GivenBelow
<1> DEFINE who == {i \in DOMAIN F : F[i] = k}
<1>1. k.n \in Nat
  BY BoundsAssumption DEF Skus
<1>2. CASE who = {}
  <2>1. Cardinality(who) = 0
    BY <1>2, FS_EmptySet
  <2>2. d[k] + 0 <= 2 /\ Drawn(d, F)[k] = d[k]
    BY <2>1, DrawnType
  <2>3. QED
    BY <1>1, <2>2 DEF GivenBelow
<1>3. CASE who # {}
  <2>1. PICK i \in DOMAIN F : F[i] = k
    BY <1>3
  <2>2. who = {i}
    BY <2>1
  <2>3. Cardinality(who) = 1
    BY <2>2, FS_Singleton
  <2>4. d[k] = 0
    BY <1>1, <2>1 DEF GivenBelow
  <2>5. Drawn(d, F)[k] = 1
    BY <2>3, <2>4, DrawnType
  <2>6. QED
    BY <2>1, <2>5
<1>4. QED
  BY <1>2, <1>3

LEMMA DrawnGrows ==
    ASSUME NEW d \in [Skus -> 0..2], NEW F, IsFiniteSet(DOMAIN F)
    PROVE  \A k \in Skus : d[k] <= Drawn(d, F)[k]
<1> SUFFICES ASSUME NEW k \in Skus PROVE d[k] <= Drawn(d, F)[k]
  OBVIOUS
<1> DEFINE n == Cardinality({i \in DOMAIN F : F[i] = k})
<1>1. n \in Nat
  BY DrawnType
<1>2. Drawn(d, F)[k] = Min({2, d[k] + n})
  BY DEF Drawn
<1>3. d[k] \in 0..2
  OBVIOUS
<1> HIDE DEF n
<1>4. {2, d[k] + n} \subseteq Nat /\ {2, d[k] + n} # {}
  BY <1>1, <1>3
<1>5. Min({2, d[k] + n}) \in {2, d[k] + n}
  BY <1>4, MinOfNaturals
<1>6. QED
  BY <1>1, <1>2, <1>3, <1>5

LEMMA CounterNext ==
    ASSUME OneAtATime, TypeInv, CounterInv, [Next]_vars
    PROVE  CounterInv'
<1> USE DEF OneAtATime
<1> DEFINE given == {"commitItems", "commitTx", "blankNext"}
<1>1. ASSUME NEW s \in Sessions, \A k \in Skus : draws'[k] <= 1,
             sess'[s].pc \in given => sess'[s].acct.next = seller'.next,
             sess'[s].pc = "numberSeller" => sess'[s].num = 0,
             IF sess'[s].pc = "numberItem"
             THEN seller'.next <= sess'[s].num /\ GivenBelow(draws', sess'[s].num)
             ELSE GivenBelow(draws', seller'.next)
      PROVE  CounterInv'
  BY <1>1 DEF CounterInv, DrawnOnce
<1>2. ASSUME NEW s \in Sessions, sess[s].pc # "numberItem", UNCHANGED <<seller, draws>>,
             sess'[s].pc \in given => sess'[s].acct.next = seller.next,
             sess'[s].pc = "numberSeller" => sess'[s].num = 0, sess'[s].pc # "numberItem"
      PROVE  CounterInv'
  BY <1>1, <1>2 DEF CounterInv, DrawnOnce
<1>3. ASSUME UNCHANGED <<sess, draws>>, seller'.next = seller.next PROVE CounterInv'
  BY <1>3 DEF CounterInv, DrawnOnce
<1>4. Idle.pc = "idle"
  BY DEF Idle
<1>5. DOMAIN sess = Sessions /\ \A s \in Sessions : sess[s] \in Locals
  BY DEF TypeInv, TypeOK
<1>6. ASSUME NEW s \in Sessions, Finish(s) PROVE sess'[s].pc = "idle"
  BY <1>4, <1>5, <1>6 DEF Finish
<1>7. ASSUME NEW s \in Sessions, Review(s) PROVE CounterInv'
  <2>1. ASSUME NEW b \in Batches, DetectStart(s, b) PROVE CounterInv'
    <3>1. sess'[s].pc = "detectItem"
      BY <2>1, <1>5 DEF DetectStart, Idle
    <3>2. QED
      BY <1>2, <2>1, <3>1 DEF DetectStart, Ask
  <2>2. ASSUME DetectItem(s) PROVE CounterInv'
    <3>1. sess'[s].pc = sess[s].pc
      BY <2>2, <1>5, Holds DEF DetectItem, Locals
    <3>2. QED
      BY <1>2, <2>2, <3>1 DEF DetectItem
  <2>3. ASSUME Finalize(s) PROVE CounterInv'
    BY <1>2, <1>6, <2>3 DEF Finalize
  <2>4. ASSUME NEW i \in Items, Skip(s, i) \/ Approve(s, i) PROVE CounterInv'
    BY <1>3, <2>4 DEF Skip, Approve
  <2>5. ASSUME NEW i, NEW k, NEW v, NEW c, NEW sku, SaveStart(s, i, c, sku) \/ ReplaceStart(s, i, k, v, c, sku)
        PROVE  CounterInv'
    <3>1. SaveStart(s, i, c, sku) => sess'[s].pc = "saveWrite"
      BY <1>5 DEF SaveStart, Idle
    <3>2. ASSUME ReplaceStart(s, i, k, v, c, sku) PROVE sess'[s].pc = "replaceWrite"
      <4> DEFINE seen == [Idle.seen EXCEPT ![i] = items[i]]
                 r == [Idle EXCEPT !.pc = "replaceWrite", !.i = i, !.card = k, !.cond = c,
                                   !.sku = sku, !.save = v, !.seen = seen]
      <4>1. sess' = [sess EXCEPT ![s] = r]
        BY <3>2 DEF ReplaceStart
      <4> HIDE DEF seen
      <4>2. r.pc = "replaceWrite"
        BY DEF Idle
      <4> HIDE DEF r
      <4>3. QED
        BY <1>5, <4>1, <4>2
    <3>3. QED
      BY <1>2, <2>5, <3>1, <3>2 DEF SaveStart, ReplaceStart, Ask
  <2>6. ASSUME ReplaceWrite(s) PROVE CounterInv'
    <3> DEFINE r == [sess[s] EXCEPT !.pc = "saveWrite", !.card = NoCard, !.seen = Idle.seen]
    <3>1. sess' = [sess EXCEPT ![s] = r] \/ sess'[s].pc = "idle"
      BY <2>6, <1>6 DEF ReplaceWrite
    <3>2. r.pc = "saveWrite"
      BY <1>5 DEF Locals
    <3> HIDE DEF r
    <3>3. sess'[s].pc \in {"saveWrite", "idle"}
      BY <1>5, <3>1, <3>2
    <3>4. QED
      BY <1>2, <2>6, <3>3 DEF ReplaceWrite
  <2>7. ASSUME SaveWrite(s) PROVE CounterInv'
    BY <1>2, <1>6, <2>7 DEF SaveWrite
  <2>8. QED
    BY <1>7, <2>1, <2>2, <2>3, <2>4, <2>5, <2>6, <2>7 DEF Review
<1>8. ASSUME NEW s \in Sessions, Numbering(s) PROVE CounterInv'
  <2>1. ASSUME NEW b, NEW p, NEW n \in Starts, NumberStart(s, b, p, n) PROVE CounterInv'
    <3>1. sess'[s].pc = "numberSeller" /\ sess'[s].num = n
      BY <2>1, <1>5 DEF NumberStart, Idle
    <3>2. QED
      BY <1>2, <2>1, <3>1 DEF NumberStart, Ask
  <2>2. ASSUME NumberReadSeller(s) PROVE CounterInv'
    <3>1. sess[s].num = 0 /\ GivenBelow(draws, seller.next) /\ seller.next \in Nat
      BY <2>2 DEF NumberReadSeller, CounterInv, TypeInv, TypeOK, Sellers
    <3>2. sess'[s].pc = "numberItem" /\ sess'[s].num = seller.next
      BY <2>2, <1>5, <3>1, Holds DEF NumberReadSeller, Locals
    <3>3. QED
      BY <1>1, <2>2, <3>1, <3>2 DEF NumberReadSeller, CounterInv, DrawnOnce
  <2>3. ASSUME NumberItem(s) PROVE CounterInv'
    <3> DEFINE i == Min(sess[s].todo)
               n == sess[s].num
               sku == [prefix |-> sess[s].acct.prefix, n |-> n]
               F == [j \in {i} |-> sku]
    <3>1. seller.next <= n /\ GivenBelow(draws, n) /\ n \in 0..MaxNext /\ seller.next \in Nat
      BY <2>3, Holds DEF NumberItem, CounterInv, TypeInv, TypeOK, Sellers
    <3>2. sku \in Skus /\ sku.n = n
      BY <3>1, Holds DEF Skus, Sellers
    <3>3. draws \in [Skus -> 0..2] /\ \A k \in Skus : draws[k] <= 1
      BY DEF CounterInv, DrawnOnce, TypeInv, TypeOK
    <3>4. draws' = Drawn(draws, F) /\ seller' = seller
      BY <2>3 DEF NumberItem
    <3>5. sess'[s].pc = "numberItem" /\ sess'[s].num = n + 1
      BY <2>3, <1>5, Holds DEF NumberItem, Locals
    <3>6. IsFiniteSet(DOMAIN F) /\ \A j \in DOMAIN F : j = i /\ F[j] = sku
      BY FS_Singleton
    <3> HIDE DEF F, sku, n, i
    <3>7. n \in Nat /\ n + 1 \in Nat /\ n <= n + 1 /\ n < n + 1 /\ seller.next <= n + 1
      BY <3>1, BoundsAssumption
    <3>8. (\A k \in Skus : Drawn(draws, F)[k] <= 1) /\ GivenBelow(Drawn(draws, F), n + 1)
      BY <3>1, <3>2, <3>3, <3>6, <3>7, FreshDraw
    <3>9. QED
      BY <1>1, <3>4, <3>5, <3>7, <3>8
  <2>4. ASSUME NumberDone(s) PROVE CounterInv'
    <3>1. seller'.next = sess[s].num /\ draws' = draws /\ GivenBelow(draws, sess[s].num)
      BY <2>4 DEF NumberDone, CounterInv
    <3>2. QED
      BY <1>1, <1>6, <2>4, <3>1 DEF NumberDone, CounterInv, DrawnOnce
  <2>5. ASSUME NEW b, ClearStart(s, b) \/ BlankStart(s) PROVE CounterInv'
    <3>1. sess'[s].pc = "clearItem" \/ (sess'[s].pc = "blankNext" /\ sess'[s].acct = seller)
      BY <2>5, <1>5, ZenonT(60) DEF ClearStart, BlankStart, Idle
    <3>2. QED
      BY <1>2, <2>5, <3>1 DEF ClearStart, BlankStart, Ask
  <2>6. ASSUME ClearItem(s) PROVE CounterInv'
    <3>1. sess'[s].pc \in {"clearItem", "idle"}
      BY <2>6, <1>5, <1>6, Holds DEF ClearItem, Locals
    <3>2. QED
      BY <1>2, <2>6, <3>1 DEF ClearItem
  <2>7. ASSUME BlankNext(s) PROVE CounterInv'
    <3> DEFINE n == sess[s].acct.next
               sku == [prefix |-> sess[s].acct.prefix, n |-> n]
               F == [j \in {NoItem} |-> sku]
    <3>1. seller.next = n /\ GivenBelow(draws, n) /\ n \in 1..MaxNext
      BY <2>7, Holds DEF BlankNext, CounterInv, Sellers
    <3>2. sku \in Skus /\ sku.n = n
      BY <3>1, Holds DEF Skus, Sellers
    <3>3. draws \in [Skus -> 0..2] /\ \A k \in Skus : draws[k] <= 1
      BY DEF CounterInv, DrawnOnce, TypeInv, TypeOK
    <3>4. draws' = Drawn(draws, F) /\ seller'.next = n + 1
      BY <2>7 DEF BlankNext, TypeInv, TypeOK, Sellers
    <3>5. sess'[s].pc = "idle"
      BY <2>7, <1>6 DEF BlankNext
    <3>6. IsFiniteSet(DOMAIN F) /\ \A j \in DOMAIN F : j = NoItem /\ F[j] = sku
      BY FS_Singleton
    <3> HIDE DEF F, sku, n
    <3>7. n \in Nat /\ n + 1 \in Nat /\ n <= n + 1 /\ n < n + 1
      BY <3>1, BoundsAssumption
    <3>8. (\A k \in Skus : Drawn(draws, F)[k] <= 1) /\ GivenBelow(Drawn(draws, F), n + 1)
      BY <3>1, <3>2, <3>3, <3>6, <3>7, FreshDraw
    <3>9. QED
      BY <1>1, <3>4, <3>5, <3>8
  <2>8. ASSUME NEW p, NEW n, SaveShop(s, p, n) PROVE FALSE
    BY <2>8 DEF SaveShop, Ask, TypeInv, TypeOK, Kinds
  <2>9. ASSUME NEW p, SaveScanPrefix(s, p) PROVE CounterInv'
    BY <1>3, <2>9 DEF SaveScanPrefix, TypeInv, TypeOK, Sellers
  <2>10. QED
    BY <1>8, <2>1, <2>2, <2>3, <2>4, <2>5, <2>6, <2>7, <2>8, <2>9 DEF Numbering
<1>9. ASSUME NEW s \in Sessions, Committing(s) PROVE CounterInv'
  <2>1. ASSUME NEW b, NEW m, CommitStart(s, b, m) PROVE CounterInv'
    <3>1. sess'[s].pc = "commitItems" /\ sess'[s].acct = seller
      BY <2>1, <1>5 DEF CommitStart, Idle
    <3>2. QED
      BY <1>2, <2>1, <3>1 DEF CommitStart, Ask
  <2>2. ASSUME CommitReadItems(s) PROVE CounterInv'
    <3>1. sess'[s].pc = "commitTx" /\ sess'[s].acct = sess[s].acct
      BY <2>2, <1>5, Holds DEF CommitReadItems, Locals
    <3>2. sess[s].pc = "commitItems" /\ sess[s].acct.next = seller.next
      BY <2>2 DEF CommitReadItems, CounterInv
    <3>3. QED
      BY <1>2, <2>2, <3>1, <3>2 DEF CommitReadItems
  <2>3. ASSUME CommitTx(s) PROVE CounterInv'
    <3> DEFINE r == sess[s]
               next == r.acct.next
    <3>1. PICK kept \in SUBSET Selected(r) :
             /\ next + Cardinality(Fresh(r, kept)) <= MaxNext
             /\ seller' = [seller EXCEPT !.next = next + Cardinality(Fresh(r, kept))]
             /\ draws' = Drawn(draws, [i \in Fresh(r, kept) |-> SkuOf(r, kept, i)])
      BY <2>3 DEF CommitTx
    <3> DEFINE fresh == Fresh(r, kept)
               F == [i \in fresh |-> SkuOf(r, kept, i)]
               rank(i) == Cardinality({j \in fresh : j < i})
               size == Cardinality(fresh)
    <3>2. /\ IsFiniteSet(fresh) /\ fresh \subseteq Items /\ size \in Nat
          /\ \A i \in fresh : F[i] \in Skus
      BY <3>1, CommitSkus
    <3>3. \A i \in fresh : F[i] = [prefix |-> r.acct.prefix, n |-> next + rank(i)]
      BY DEF Fresh, SkuOf
    <3>4. \A i \in fresh : F[i].n = next + rank(i)
      <4> SUFFICES ASSUME NEW i \in fresh PROVE F[i].n = next + rank(i)
        OBVIOUS
      <4> DEFINE m == next + rank(i)
      <4>1. F[i] = [prefix |-> r.acct.prefix, n |-> m]
        BY <3>3
      <4> HIDE DEF m, F
      <4>2. F[i].n = m
        BY <4>1
      <4>3. QED
        BY <4>2 DEF m
    <3>5. /\ \A i \in fresh : rank(i) \in 0..(size - 1)
          /\ \A i, j \in fresh : i # j => rank(i) # rank(j)
      BY <3>2, Ranks
    <3>6. seller.next = next /\ GivenBelow(draws, next)
      BY <2>3 DEF CommitTx, CounterInv
    <3>7. next \in Nat
      BY Holds, BoundsAssumption DEF Sellers
    <3>8. sess'[s].pc = "idle"
      BY <2>3, <1>6 DEF CommitTx
    <3>9. seller'.next = next + size /\ draws' = Drawn(draws, F)
      BY <3>1 DEF TypeInv, TypeOK, Sellers
    <3>10. DOMAIN F = fresh
      OBVIOUS
    <3>11. draws \in [Skus -> 0..2] /\ \A k \in Skus : draws[k] <= 1
      BY DEF CounterInv, DrawnOnce, TypeInv, TypeOK
    <3> HIDE DEF next, rank, fresh, F, size
    <3>12. \A i \in fresh : next <= F[i].n /\ F[i].n < next + size
      BY <3>2, <3>4, <3>5, <3>7
    <3>13. ASSUME NEW i \in fresh, NEW j \in fresh, i # j PROVE F[i] # F[j]
      <4>1. rank(i) \in Nat /\ rank(j) \in Nat /\ rank(i) # rank(j)
        BY <3>2, <3>5, <3>13
      <4>2. QED
        BY <3>4, <3>7, <4>1
    <3>14. next + size \in Nat /\ next <= next + size
      BY <3>2, <3>7
    <3>15. (\A k \in Skus : Drawn(draws, F)[k] <= 1) /\ GivenBelow(Drawn(draws, F), next + size)
      BY <3>2, <3>6, <3>7, <3>10, <3>11, <3>12, <3>13, <3>14, FreshDraw
    <3>16. QED
      BY <1>1, <3>8, <3>9, <3>15
  <2>4. QED
    BY <1>9, <2>1, <2>2, <2>3 DEF Committing
<1>10. ASSUME NEW s \in Sessions, Die(s) PROVE CounterInv'
  <2>1. sess[s].pc # "numberItem"
    BY <1>10 DEF Die, OpAt
  <2>2. QED
    BY <1>2, <1>6, <1>10, <2>1 DEF Die
<1>11. ASSUME UNCHANGED vars PROVE CounterInv'
  BY <1>3, <1>11 DEF vars
<1>12. QED
  BY <1>7, <1>8, <1>9, <1>10, <1>11 DEF Next

\* No step takes a draw back.
LEMMA DrawsGrow ==
    ASSUME TypeInv, [Next]_vars
    PROVE  \A k \in Skus : draws[k] <= draws'[k]
<1>1. ASSUME NEW F, IsFiniteSet(DOMAIN F), draws' = Drawn(draws, F)
      PROVE  \A k \in Skus : draws[k] <= draws'[k]
  BY <1>1, DrawnGrows DEF TypeInv, TypeOK
<1>2. ASSUME draws' = draws PROVE \A k \in Skus : draws[k] <= draws'[k]
  BY <1>2 DEF TypeInv, TypeOK
<1>3. ASSUME NEW s \in Sessions, Review(s) PROVE draws' = draws
  BY <1>3 DEF Review, DetectStart, DetectItem, Finalize, Skip, Approve, SaveStart, ReplaceStart,
              ReplaceWrite, SaveWrite
<1>4. ASSUME NEW s \in Sessions, NumberItem(s) PROVE \A k \in Skus : draws[k] <= draws'[k]
  <2> DEFINE i == Min(sess[s].todo)
             sku == [prefix |-> sess[s].acct.prefix, n |-> sess[s].num]
             F == [j \in {i} |-> sku]
  <2>1. draws' = Drawn(draws, F)
    BY <1>4 DEF NumberItem
  <2>2. IsFiniteSet(DOMAIN F)
    BY FS_Singleton
  <2> HIDE DEF F
  <2>3. QED
    BY <1>1, <2>1, <2>2
<1>5. ASSUME NEW s \in Sessions, BlankNext(s) PROVE \A k \in Skus : draws[k] <= draws'[k]
  <2> DEFINE sku == [prefix |-> sess[s].acct.prefix, n |-> sess[s].acct.next]
             F == [j \in {NoItem} |-> sku]
  <2>1. draws' = Drawn(draws, F)
    BY <1>5 DEF BlankNext
  <2>2. IsFiniteSet(DOMAIN F)
    BY FS_Singleton
  <2> HIDE DEF F
  <2>3. QED
    BY <1>1, <2>1, <2>2
<1>6. ASSUME NEW s \in Sessions, CommitTx(s) PROVE \A k \in Skus : draws[k] <= draws'[k]
  <2>1. PICK kept \in SUBSET Selected(sess[s]) :
           /\ sess[s].acct.next + Cardinality(Fresh(sess[s], kept)) <= MaxNext
           /\ draws' = Drawn(draws, [i \in Fresh(sess[s], kept) |-> SkuOf(sess[s], kept, i)])
    BY <1>6 DEF CommitTx
  <2> DEFINE F == [i \in Fresh(sess[s], kept) |-> SkuOf(sess[s], kept, i)]
  <2>2. IsFiniteSet(DOMAIN F)
    BY <2>1, CommitSkus
  <2>3. draws' = Drawn(draws, F)
    BY <2>1
  <2> HIDE DEF F
  <2>4. QED
    BY <1>1, <2>2, <2>3
<1>7. ASSUME NEW s \in Sessions, Numbering(s), ~NumberItem(s), ~BlankNext(s) PROVE draws' = draws
  BY <1>7 DEF Numbering, NumberStart, NumberReadSeller, NumberDone, ClearStart, ClearItem,
              BlankStart, SaveShop, SaveScanPrefix
<1>8. ASSUME NEW s \in Sessions, Committing(s), ~CommitTx(s) PROVE draws' = draws
  BY <1>8 DEF Committing, CommitStart, CommitReadItems
<1>9. ASSUME NEW s \in Sessions, Die(s) PROVE draws' = draws
  BY <1>9 DEF Die
<1>10. ASSUME UNCHANGED vars PROVE draws' = draws
  BY <1>10 DEF vars
<1>11. QED
  BY <1>2, <1>3, <1>4, <1>5, <1>6, <1>7, <1>8, <1>9, <1>10 DEF Next

\* One request at a time, counting on from the stored counter: no SKU is handed out
\* twice, however often a commit, a blank listing or a clearing stops half way.
THEOREM SerialDraws ==
    ASSUME OneAtATime
    PROVE  Spec => []DrawnOnce
<1>1. TypeInv /\ CounterInv /\ [Next]_vars => CounterInv'
  BY CounterNext
<1>2. CounterInv => DrawnOnce
  BY DEF CounterInv
<1>3. QED
  BY TypeInit, TypeNext, CounterInit, <1>1, <1>2, PTL DEF Spec

\* On the same terms the counter implements the abstract allocator.
THEOREM SerialAllocator ==
    ASSUME OneAtATime
    PROVE  Spec => AllocatorSpec
<1>1. Init => Allocator!Init
  BY DEF Init, Allocator!Init
<1>2. TypeInv /\ CounterInv /\ [Next]_vars => [Allocator!Next]_draws
  <2> SUFFICES ASSUME TypeInv, CounterInv, [Next]_vars PROVE [Allocator!Next]_draws
    OBVIOUS
  <2>1. TypeInv' /\ CounterInv'
    BY TypeNext, CounterNext
  <2>2. draws' \in [Skus -> 0..1]
    BY <2>1 DEF TypeInv, TypeOK, CounterInv, DrawnOnce
  <2>3. \A k \in Skus : draws[k] <= draws'[k]
    BY DrawsGrow
  <2>4. QED
    BY <2>2, <2>3 DEF Allocator!Next, Allocator!Draw
<1>3. TypeInv /\ CounterInv /\ [Next]_vars => CounterInv'
  BY CounterNext
<1>4. QED
  BY TypeInit, TypeNext, CounterInit, <1>1, <1>2, <1>3, PTL DEF Spec, AllocatorSpec, Allocator!Spec

=============================================================================
