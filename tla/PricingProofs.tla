--------------------------- MODULE PricingProofs ---------------------------
(***************************************************************************)
(* Proofs about Pricing: its types, and for one request at a time that an  *)
(* overridden price is the one the seller typed and an automatic price     *)
(* that of the card as it is now.  And about the public site (the daily    *)
(* price sync and the search over its rows): prices are once a day, synced *)
(* sets are priced, and facets count the cards their links lead to.        *)
(***************************************************************************)
EXTENDS Pricing, Search, SequenceTheorems, FiniteSetTheorems, WellFoundedInduction, NaturalsInduction, TLAPS

-----------------------------------------------------------------------------
(* The invariants.                                                         *)

Tables ==
    /\ market \in [Variants -> [Grades -> Markets \cup {NoPrice}]]
    /\ seller \in [fixed : Typed \cup {NoPrice}, pref : Prefs, floor : Floors \cup {NoPrice}]
    /\ item \in [Items -> ItemRec \cup {NoRec}]
    /\ row \in [Items -> RowRec \cup {NoRec}]
    /\ history \in [Variants -> [Grades -> Prices]]
    /\ shown \in [Items -> Prices \cup {NoPage}]
    /\ hand \in [Items -> Prices]
    /\ worth \in [Variants -> [Grades -> SUBSET Prices]]
    /\ filed \in [Variants -> [Grades -> SUBSET Prices]]
    /\ asked \in 0..MaxAsked

Points == {"idle", "replaceWrite", "saveRead", "saveWrite", "allItem", "commitTx", "bulkRow"}

Forms == [variant : Variants \cup {NoVariant}, grade : Grades,
          rule : Rules \cup {AnyRule}, typed : Prices, shown : Prices]

ReqRec == [pc : Points, i : Items \cup {NoItem}, seen : ItemRec \cup {NoRec}, form : Forms,
           saving : BOOLEAN, price : Prices, todo : SUBSET Items,
           batch : [Items -> ItemRec \cup {NoRec}]]

\* What a request holds: a saved form is of a known item, a replacement names a printing,
\* items in hand exist, and what a commit read has a printing.
Holds(r, known, rowed) ==
    /\ r.pc \in {"replaceWrite", "saveRead", "saveWrite"} => r.i \in known
    /\ r.pc \in {"replaceWrite", "saveWrite"} => r.seen # NoRec
    /\ r.pc = "replaceWrite" => r.form.variant \in Variants
    /\ r.pc \in {"saveRead", "saveWrite"} \/ r.saving => r.form.rule \in Rules
    /\ r.pc = "saveRead" => r.saving
    /\ r.pc = "allItem" => r.todo # {} /\ r.todo \subseteq known
    /\ r.pc = "bulkRow" => r.todo # {} /\ r.todo \subseteq rowed /\ r.form.rule \in Rules
    /\ \A i \in Items : r.batch[i] # NoRec => r.batch[i].variant \in Variants

KnownItems == {i \in Items : item[i] # NoRec}
Rowed == {i \in Items : row[i] # NoRec}

TypeInv ==
    /\ Tables
    /\ sess \in [Sessions -> ReqRec]
    /\ \A s \in Sessions : Holds(sess[s], KnownItems, Rowed)
    /\ \A i \in Items : shown[i] # NoPage => i \in KnownItems

\* What a printing is worth today and the newest price in its history are among the
\* prices that count for it.
WorthInv == \A v \in Variants, g \in Grades : MarketAt(market, v, g) \in worth[v][g]
FiledInv == \A v \in Variants, g \in Grades : history[v][g] # NoPrice => history[v][g] \in filed[v][g]

\* One request is served at a time.
OneRequest == \A s, t \in Sessions : s = t

\* A replacement and a save write the item they read; the price a replacement worked out
\* is by the item's rule from what the printing it names was worth.
Current(r) == r.pc \in {"replaceWrite", "saveWrite"} => item[r.i] = r.seen

Worked(r) ==
    (r.pc = "replaceWrite" /\ ~r.seen.over) =>
        \E m \in worth[r.form.variant][r.seen.grade] :
            r.price = Resolve(m, <<r.seen.mode, r.seen.pct>>, NoPrice)

CurrentInv == \A s \in Sessions : Current(sess[s])
WorkedInv == \A s \in Sessions : Worked(sess[s])

-----------------------------------------------------------------------------
(* Numbers.                                                                *)

\* A nonempty set of natural numbers has a least element.
LEMMA Least ==
    ASSUME NEW S, S \subseteq Nat, S # {}
    PROVE  \E n \in S : \A m \in S : n <= m
<1> DEFINE R == {p \in Nat \X Nat : p[1] < p[2]}
<1>1. IsWellFoundedOn(R, Nat)
  BY NatLessThanWellFounded DEF OpToRel
<1>2. PICK n \in S : \A m \in S : ~ (<<m, n>> \in R)
  BY <1>1, WFMin
<1>3. \A m \in Nat : n \in Nat /\ ~ (<<m, n>> \in R) => n <= m
  OBVIOUS
<1>4. QED
  BY <1>2, <1>3

\* A nonempty finite set of natural numbers has a greatest element: of a smallest set
\* without one, any element but the greatest of the others is in its place.
LEMMA Greatest ==
    ASSUME NEW S, S \subseteq Nat, IsFiniteSet(S), S # {}
    PROVE  \E n \in S : \A m \in S : n >= m
<1> DEFINE Top(T) == \E n \in T : \A m \in T : n >= m
           Bad == {k \in Nat : \E T \in SUBSET S : T # {} /\ Cardinality(T) = k /\ ~Top(T)}
<1>1. \A T \in SUBSET S : IsFiniteSet(T) /\ Cardinality(T) \in Nat
  BY FS_Subset, FS_CardinalityType
<1>2. SUFFICES ASSUME Bad # {} PROVE FALSE
  BY <1>1
<1>3. PICK k \in Bad : \A j \in Bad : k <= j
  BY <1>2, Least
<1>4. PICK T \in SUBSET S : T # {} /\ Cardinality(T) = k /\ ~Top(T)
  BY <1>3
<1>5. PICK x \in T : TRUE
  BY <1>4
<1>6. T \ {x} \in SUBSET S /\ Cardinality(T \ {x}) = k - 1 /\ k \in Nat
  BY <1>1, <1>3, <1>4, <1>5, FS_RemoveElement
<1>7. Cardinality(T \ {x}) \notin Bad
  BY <1>3, <1>6
<1>8. T \ {x} = {} \/ Top(T \ {x})
  BY <1>1, <1>6, <1>7
<1>9. QED
  BY <1>4, <1>5, <1>8

\* Min and Max name them.
LEMMA Extremes ==
    ASSUME NEW S, S \subseteq Nat, IsFiniteSet(S), S # {}
    PROVE  Min(S) \in S /\ Max(S) \in S
BY Least, Greatest DEF Min, Max

LEMMA MaxOfTwo ==
    ASSUME NEW a \in Int, NEW b \in Int
    PROVE  Max({a, b}) \in {a, b} /\ Max({a, b}) >= a /\ Max({a, b}) >= b
<1>1. \E x \in {a, b} : \A y \in {a, b} : x >= y
  OBVIOUS
<1>2. QED
  BY <1>1 DEF Max

-----------------------------------------------------------------------------
(* What the rules of pricing.ts give.                                      *)

IsRule(r) == r = <<r[1], r[2]>> /\ r[1] \in Modes /\ r[2] \in Int

LEMMA RuleType == \A r \in Rules : IsRule(r)
BY PricingAssumption DEF IsRule, Modes

LEMMA PercentType ==
    ASSUME NEW m \in Nat, NEW pct \in Int
    PROVE  Percent(m, pct) \in Nat
<1>1. m * (100 + pct) \in Int
  OBVIOUS
<1> DEFINE x == m * (100 + pct)
<1>2. 2 * m * (100 + pct) = 2 * x
  OBVIOUS
<1>3. (2 * x + 100) \div 200 \in Int
  <2> HIDE DEF x
  <2>1. QED
    BY <1>1 DEF x
<1>4. (2 * m * (100 + pct) + 100) \div 200 \in Int
  BY <1>2, <1>3
<1>5. QED
  BY <1>4, MaxOfTwo DEF Percent

LEMMA ResolveType ==
    ASSUME NEW m \in Prices, NEW r, IsRule(r), NEW fixed \in Prices
    PROVE  Resolve(m, r, fixed) \in Prices
BY PercentType DEF Resolve, Prices, NoPrice, IsRule, Modes

\* Unless the rule is a fixed price, the fixed price is not looked at.
LEMMA ResolveIgnores ==
    ASSUME NEW m, NEW r, IsRule(r), r[1] # "fixed", NEW a, NEW b
    PROVE  Resolve(m, r, a) = Resolve(m, r, b)
BY DEF Resolve, IsRule, Modes

\* A floor is one the seller may set, or eBay's least price.
LEMMA FlooredIs ==
    ASSUME seller.floor \in Floors \cup {NoPrice}, NEW p
    PROVE  Floored(p) = NoPrice \/ \E f \in Floors \cup {EbayMin} : Floored(p) = Max({p, f})
<1> DEFINE floor == IF seller.floor > 0 THEN seller.floor ELSE EbayMin
<1>1. floor \in Floors \cup {EbayMin}
  BY DEF NoPrice
<1>2. Floored(p) = IF p = NoPrice THEN NoPrice ELSE Max({p, floor})
  BY DEF Floored
<1> HIDE DEF floor
<1>3. QED
  BY <1>1, <1>2

LEMMA FlooredType ==
    ASSUME seller.floor \in Floors \cup {NoPrice}, NEW p \in Prices
    PROVE  Floored(p) \in Prices
<1>1. CASE Floored(p) = NoPrice
  BY <1>1 DEF Prices
<1>2. CASE p # NoPrice /\ \E f \in Floors \cup {EbayMin} : Floored(p) = Max({p, f})
  <2>1. PICK f \in Floors \cup {EbayMin} : Floored(p) = Max({p, f})
    BY <1>2
  <2>2. f \in Int /\ p \in Nat
    BY <1>2, PricingAssumption DEF Prices, NoPrice, EbayMin
  <2>3. Max({p, f}) \in {p, f} /\ Max({p, f}) >= p
    BY <2>2, MaxOfTwo
  <2>4. Max({p, f}) \in Nat
    BY <2>2, <2>3
  <2>5. QED
    BY <2>1, <2>4 DEF Prices
<1>3. p = NoPrice => Floored(p) = NoPrice
  BY DEF Floored
<1>4. QED
  BY <1>1, <1>2, <1>3, FlooredIs

LEMMA MarketType ==
    ASSUME NEW mk \in [Variants -> [Grades -> Markets \cup {NoPrice}]],
           NEW v \in Variants, NEW g \in Grades
    PROVE  MarketAt(mk, v, g) \in Prices
<1>1. Raw \in Grades /\ Markets \cup {NoPrice} \subseteq Prices
  BY PricingAssumption DEF Grades, Prices
<1>2. mk[v][g] \in Prices /\ mk[v][Raw] \in Prices
  BY <1>1
<1>3. QED
  BY <1>2 DEF MarketAt

-----------------------------------------------------------------------------
(* Type correctness.                                                       *)

LEMMA NoRecIs == NoRec \notin ItemRec /\ NoRec \notin RowRec
<1>1. \A r \in ItemRec : r # NoRec
  <2>1. SUFFICES ASSUME NEW r \in ItemRec, r = NoRec PROVE FALSE
    OBVIOUS
  <2>2. DOMAIN r = {"variant", "grade", "mode", "pct", "price", "over"}
    BY DEF ItemRec
  <2>3. DOMAIN r = {"variant"}
    BY <2>1 DEF NoRec
  <2>4. QED
    BY <2>2, <2>3
<1>2. \A r \in RowRec : r # NoRec
  <2>1. SUFFICES ASSUME NEW r \in RowRec, r = NoRec PROVE FALSE
    OBVIOUS
  <2>2. DOMAIN r = {"variant", "grade", "mode", "pct", "price"}
    BY DEF RowRec
  <2>3. DOMAIN r = {"variant"}
    BY <2>1 DEF NoRec
  <2>4. QED
    BY <2>2, <2>3
<1>3. QED
  BY <1>1, <1>2

LEMMA IdleType ==
    /\ Idle \in ReqRec
    /\ \A known, rowed : Holds(Idle, known, rowed)
    /\ Idle.pc = "idle" /\ Idle.saving = FALSE /\ Idle.price = NoPrice /\ Idle.todo = {}
    /\ Idle.form = NoForm /\ \A i \in Items : Idle.batch[i] = NoRec
<1>1. Idle \in ReqRec
  BY DEF Idle, ReqRec, Forms, Points, NoForm, Prices, Grades
<1>2. QED
  BY <1>1 DEF Idle, Holds

LEMMA TypeInit == Init => TypeInv
<1> SUFFICES ASSUME Init PROVE TypeInv
  OBVIOUS
<1>1. market \in [Variants -> [Grades -> Markets \cup {NoPrice}]]
  BY PricingAssumption DEF Init
<1>2. worth \in [Variants -> [Grades -> SUBSET Prices]]
  <2>1. \A v \in Variants, g \in Grades : MarketAt(market, v, g) \in Prices
    BY <1>1, MarketType
  <2>2. QED
    BY <2>1 DEF Init
<1>3. Tables
  BY <1>1, <1>2, PricingAssumption DEF Init, Tables, Prices
<1>4. sess \in [Sessions -> ReqRec] /\ \A s \in Sessions : sess[s] = Idle
  BY IdleType DEF Init
<1>5. QED
  BY <1>3, <1>4, IdleType DEF Init, TypeInv

\* What is known or filed stays so.
Later == KnownItems \subseteq KnownItems' /\ Rowed \subseteq Rowed'

LEMMA HoldsLater ==
    ASSUME TypeInv, Later, NEW t \in Sessions
    PROVE  Holds(sess[t], KnownItems', Rowed')
BY DEF TypeInv, Later, Holds

\* One request moves on: the others keep what they have.
LEMMA SessionStep ==
    ASSUME TypeInv, Later, NEW s \in Sessions, NEW r \in ReqRec,
           Holds(r, KnownItems', Rowed'), sess' = [sess EXCEPT ![s] = r]
    PROVE  /\ sess' \in [Sessions -> ReqRec]
           /\ \A t \in Sessions : Holds(sess'[t], KnownItems', Rowed')
           /\ sess'[s] = r /\ \A t \in Sessions : t # s => sess'[t] = sess[t]
BY HoldsLater DEF TypeInv

LEMMA NoSessionStep ==
    ASSUME TypeInv, Later, sess' = sess
    PROVE  /\ sess' \in [Sessions -> ReqRec]
           /\ \A t \in Sessions : Holds(sess'[t], KnownItems', Rowed')
BY HoldsLater DEF TypeInv

LEMMA FinishType ==
    ASSUME TypeInv, Later, NEW s \in Sessions, Finish(s)
    PROVE  /\ sess' \in [Sessions -> ReqRec]
           /\ \A t \in Sessions : Holds(sess'[t], KnownItems', Rowed')
           /\ sess'[s] = Idle /\ \A t \in Sessions : t # s => sess'[t] = sess[t]
BY IdleType, SessionStep DEF Finish

LEMMA CountType ==
    ASSUME TypeInv, NEW k, Count(k)
    PROVE  asked' \in 0..MaxAsked
BY PricingAssumption DEF Count, TypeInv, Tables

\* One item is written.
LEMMA ItemStep ==
    ASSUME TypeInv, NEW i \in Items, NEW x \in ItemRec, item' = [item EXCEPT ![i] = x], row' = row
    PROVE  /\ item' \in [Items -> ItemRec \cup {NoRec}]
           /\ item'[i] = x /\ \A j \in Items : j # i => item'[j] = item[j]
           /\ Later
BY NoRecIs DEF TypeInv, Tables, Later, KnownItems, Rowed

\* What Add, a replacement and a save write is an item.
LEMMA ItemIs ==
    ASSUME NEW v \in Variants \cup {NoVariant}, NEW g \in Grades, NEW mode \in Modes,
           NEW pct \in Int, NEW price \in Prices, NEW over \in BOOLEAN
    PROVE  [variant |-> v, grade |-> g, mode |-> mode, pct |-> pct, over |-> over, price |-> price] \in ItemRec
BY DEF ItemRec

\* A price worked out for a printing is a price.
LEMMA AutoPriceType ==
    ASSUME Tables, NEW ruled \in Prices, NEW prev \in Prices
    PROVE  AutoPrice(ruled, prev) \in Prices
<1>1. seller.floor \in Floors \cup {NoPrice}
  BY DEF Tables
<1>2. NoPrice \in Prices
  BY DEF Prices
<1>3. QED
  BY <1>1, <1>2, FlooredType DEF AutoPrice

LEMMA AddType ==
    ASSUME TypeInv, NEW s \in Sessions, NEW i \in Items, NEW v \in Variants \cup {NoVariant},
           NEW g \in Grades, NEW rule \in Rules, NEW start \in Typed \cup {NoPrice},
           Add(s, i, v, g, rule, start)
    PROVE  TypeInv'
<1> DEFINE r == IF start > 0 THEN <<"fixed", 0>> ELSE rule
           ruled == Resolve(MarketAt(market, v, g), r, IF start > 0 THEN start ELSE seller.fixed)
           price == IF v = NoVariant THEN NoPrice ELSE AutoPrice(ruled, history[v][g])
           x == [variant |-> v, grade |-> g, mode |-> r[1], pct |-> r[2], over |-> FALSE, price |-> price]
<1>1. IsRule(r)
  BY RuleType DEF IsRule, Modes
<1>2. start \in Prices /\ seller.fixed \in Prices /\ NoPrice \in Prices
  BY PricingAssumption DEF TypeInv, Tables, Prices
<1>3. price \in Prices
  <2>1. CASE v \in Variants
    <3>1. MarketAt(market, v, g) \in Prices /\ history[v][g] \in Prices
      BY <2>1, MarketType DEF TypeInv, Tables
    <3>2. ruled \in Prices
      BY <1>1, <1>2, <3>1, ResolveType
    <3>3. QED
      BY <1>2, <3>1, <3>2, AutoPriceType DEF TypeInv
  <2>2. CASE v = NoVariant
    BY <1>2, <2>2
  <2>3. QED
    BY <2>1, <2>2
<1>4. x \in ItemRec
  BY <1>1, <1>3, ItemIs DEF IsRule
<1>5. item' = [item EXCEPT ![i] = x]
  BY DEF Add
<1> HIDE DEF x
<1>6. PICK y : y = x
  OBVIOUS
<1>7. item' \in [Items -> ItemRec \cup {NoRec}] /\ Later
  BY <1>4, <1>5, <1>6, ItemStep DEF Add
<1>8. QED
  BY <1>7, NoSessionStep, CountType DEF Add, Ask, TypeInv, Tables, Later

LEMMA ReplacingType ==
    ASSUME TypeInv, NEW i \in KnownItems, NEW v \in Variants
    PROVE  Replacing(i, v) \in Prices
<1>1. item[i] \in ItemRec
  BY DEF TypeInv, Tables, KnownItems
<1>2. IsRule(<<item[i].mode, item[i].pct>>) /\ MarketAt(market, v, item[i].grade) \in Prices
  BY <1>1, MarketType DEF IsRule, ItemRec, TypeInv, Tables
<1>3. NoPrice \in Prices
  BY DEF Prices
<1>4. QED
  BY <1>1, <1>2, <1>3, ResolveType DEF Replacing, ItemRec

LEMMA ReplaceStartIs ==
    ASSUME TypeInv, NEW s \in Sessions, NEW i \in Items, NEW v \in Variants, ReplaceStart(s, i, v)
    PROVE  \E r \in ReqRec :
              /\ r.pc = "replaceWrite" /\ r.i = i /\ r.seen = item[i] /\ r.form.variant = v
              /\ r.price = Replacing(i, v) /\ i \in KnownItems
              /\ Holds(r, KnownItems, Rowed) /\ sess' = [sess EXCEPT ![s] = r]
<1> DEFINE r == [Idle EXCEPT !.pc = "replaceWrite", !.i = i, !.seen = item[i],
                             !.form = [NoForm EXCEPT !.variant = v], !.price = Replacing(i, v)]
<1>1. i \in KnownItems /\ item[i] \in ItemRec
  BY DEF ReplaceStart, Known, KnownItems, TypeInv, Tables
<1>2. Replacing(i, v) \in Prices
  BY <1>1, ReplacingType
<1>3. r \in ReqRec
  BY <1>1, <1>2, IdleType DEF ReqRec, Forms, Points, NoForm
<1>4. /\ r.pc = "replaceWrite" /\ r.i = i /\ r.seen = item[i] /\ r.form.variant = v
      /\ r.price = Replacing(i, v) /\ r.saving = FALSE /\ r.batch = Idle.batch
  BY DEF Idle, NoForm
<1>5. sess' = [sess EXCEPT ![s] = r]
  BY DEF ReplaceStart
<1> HIDE DEF r
<1>6. Holds(r, KnownItems, Rowed)
  BY <1>1, <1>4, NoRecIs, IdleType DEF Holds
<1>7. QED
  BY <1>1, <1>3, <1>4, <1>5, <1>6

\* A request that only reads keeps the tables.
LEMMA ReadType ==
    ASSUME TypeInv, NEW s \in Sessions, NEW r \in ReqRec, Holds(r, KnownItems, Rowed),
           sess' = [sess EXCEPT ![s] = r], asked' \in 0..MaxAsked,
           UNCHANGED <<market, seller, item, row, history, shown, hand, worth, filed>>
    PROVE  TypeInv'
<1>1. Later /\ KnownItems' = KnownItems /\ Rowed' = Rowed
  BY DEF Later, KnownItems, Rowed
<1>2. QED
  BY <1>1, SessionStep DEF TypeInv, Tables

LEMMA SaveStartIs ==
    ASSUME TypeInv, NEW s \in Sessions, NEW i \in Items, NEW v \in Variants \cup {NoVariant},
           NEW g \in Grades, NEW rule \in Rules, NEW typed \in Typed \cup {shown[i], NoPrice},
           SaveStart(s, i, [variant |-> v, grade |-> g, rule |-> rule, typed |-> typed, shown |-> shown[i]])
    PROVE  \E r \in ReqRec :
              /\ r.i = i /\ r.seen = item[i] /\ r.saving /\ i \in KnownItems
              /\ \/ r.pc = "saveWrite"
                 \/ r.pc = "replaceWrite" /\ r.form.variant = v /\ r.price = Replacing(i, v) /\ v \in Variants
              /\ Holds(r, KnownItems, Rowed) /\ sess' = [sess EXCEPT ![s] = r]
<1> DEFINE form == [variant |-> v, grade |-> g, rule |-> rule, typed |-> typed, shown |-> shown[i]]
           q == [Idle EXCEPT !.i = i, !.seen = item[i], !.form = form, !.saving = TRUE]
           other == form.variant \notin {NoVariant, item[i].variant}
           r1 == [q EXCEPT !.pc = "replaceWrite", !.price = Replacing(i, form.variant)]
           r2 == [q EXCEPT !.pc = "saveWrite"]
<1>1. i \in KnownItems /\ item[i] \in ItemRec /\ shown[i] \in Prices
  BY DEF SaveStart, TypeInv, Tables, KnownItems
<1>2. typed \in Prices
  BY <1>1, PricingAssumption DEF Prices
<1>3. /\ form \in Forms
      /\ form.variant = v /\ form.rule = rule
  BY <1>1, <1>2 DEF Forms
<1>4. sess' = [sess EXCEPT ![s] = IF other THEN r1 ELSE r2]
  BY DEF SaveStart
<1> HIDE DEF form
<1>5. /\ q \in ReqRec /\ q.i = i /\ q.seen = item[i] /\ q.saving /\ q.form = form /\ q.batch = Idle.batch
  <2>1. q \in ReqRec
    BY <1>1, <1>3, IdleType DEF ReqRec, Forms
  <2>2. QED
    BY <2>1 DEF Idle
<1> HIDE DEF q
<1>6. CASE other
  <2>1. v \in Variants /\ r1.pc = "replaceWrite" /\ r1.price = Replacing(i, v)
    BY <1>3, <1>5, <1>6 DEF ReqRec, Forms
  <2>2. Replacing(i, v) \in Prices
    BY <1>1, <2>1, ReplacingType
  <2>3. r1 \in ReqRec /\ r1.i = i /\ r1.seen = item[i] /\ r1.saving /\ r1.form = form /\ r1.batch = Idle.batch
    BY <1>3, <1>5, <2>2 DEF ReqRec, Forms, Points
  <2>4. sess' = [sess EXCEPT ![s] = r1]
    BY <1>4, <1>6
  <2> HIDE DEF r1
  <2>5. Holds(r1, KnownItems, Rowed)
    BY <1>1, <1>3, <2>1, <2>3, NoRecIs, IdleType DEF Holds
  <2>6. QED
    BY <1>1, <1>3, <2>1, <2>3, <2>4, <2>5
<1>7. CASE ~other
  <2>1. r2 \in ReqRec /\ r2.pc = "saveWrite" /\ r2.i = i /\ r2.seen = item[i] /\ r2.saving /\ r2.form = form
        /\ r2.batch = Idle.batch
    BY <1>5 DEF ReqRec, Forms, Points
  <2>2. sess' = [sess EXCEPT ![s] = r2]
    BY <1>4, <1>7
  <2> HIDE DEF r2
  <2>3. Holds(r2, KnownItems, Rowed)
    BY <1>1, <1>3, <2>1, NoRecIs, IdleType DEF Holds
  <2>4. QED
    BY <1>1, <2>1, <2>2, <2>3
<1>8. QED
  BY <1>6, <1>7

LEMMA AllStartType ==
    ASSUME TypeInv, NEW s \in Sessions, NEW todo \in SUBSET Items, NEW cents \in Typed, AllStart(s, todo, cents)
    PROVE  \E r \in ReqRec : r.pc = "allItem" /\ Holds(r, KnownItems, Rowed) /\ sess' = [sess EXCEPT ![s] = r]
<1> DEFINE r == [Idle EXCEPT !.pc = "allItem", !.todo = todo, !.price = cents]
<1>1. cents \in Prices /\ todo # {} /\ todo \subseteq KnownItems
  BY PricingAssumption DEF AllStart, Prices, Known, KnownItems
<1>2. r \in ReqRec /\ r.pc = "allItem" /\ r.todo = todo /\ r.saving = FALSE /\ r.batch = Idle.batch
  <2>1. r \in ReqRec
    BY <1>1, IdleType DEF ReqRec, Forms, Points
  <2>2. QED
    BY <2>1 DEF Idle
<1>3. sess' = [sess EXCEPT ![s] = r]
  BY DEF AllStart
<1> HIDE DEF r
<1>4. Holds(r, KnownItems, Rowed)
  BY <1>1, <1>2, IdleType DEF Holds
<1>5. QED
  BY <1>2, <1>3, <1>4

LEMMA CommitStartType ==
    ASSUME TypeInv, NEW s \in Sessions, NEW taken \in SUBSET Items, CommitStart(s, taken)
    PROVE  \E r \in ReqRec : r.pc = "commitTx" /\ Holds(r, KnownItems, Rowed) /\ sess' = [sess EXCEPT ![s] = r]
<1> DEFINE b == [i \in Items |-> IF i \in taken THEN item[i] ELSE NoRec]
           r == [Idle EXCEPT !.pc = "commitTx", !.batch = b]
<1>1. \A i \in taken : item[i] # NoRec /\ item[i].variant # NoVariant
  BY DEF CommitStart, Matched, Known
<1>2. b \in [Items -> ItemRec \cup {NoRec}] /\ \A i \in Items : b[i] # NoRec => b[i].variant \in Variants
  BY <1>1 DEF TypeInv, Tables, ItemRec
<1>3. sess' = [sess EXCEPT ![s] = r]
  BY DEF CommitStart
<1> HIDE DEF b
<1>4. r \in ReqRec /\ r.pc = "commitTx" /\ r.saving = FALSE /\ r.batch = b
  <2>1. r \in ReqRec
    BY <1>2, IdleType DEF ReqRec, Forms, Points
  <2>2. QED
    BY <2>1 DEF Idle
<1> HIDE DEF r
<1>5. Holds(r, KnownItems, Rowed)
  BY <1>2, <1>4 DEF Holds
<1>6. QED
  BY <1>3, <1>4, <1>5

LEMMA BulkStartType ==
    ASSUME TypeInv, NEW s \in Sessions, NEW todo \in SUBSET Items, NEW rule \in Rules, BulkStart(s, todo, rule)
    PROVE  \E r \in ReqRec : r.pc = "bulkRow" /\ Holds(r, KnownItems, Rowed) /\ sess' = [sess EXCEPT ![s] = r]
<1> DEFINE r == [Idle EXCEPT !.pc = "bulkRow", !.todo = todo, !.form = [NoForm EXCEPT !.rule = rule]]
<1>1. todo # {} /\ todo \subseteq Rowed
  BY DEF BulkStart, Rowed
<1>2. r \in ReqRec /\ r.pc = "bulkRow" /\ r.todo = todo /\ r.saving = FALSE /\ r.batch = Idle.batch
      /\ r.form.rule = rule
  <2>1. r \in ReqRec
    BY <1>1, IdleType DEF ReqRec, Forms, Points, NoForm
  <2>2. QED
    BY <2>1 DEF Idle, NoForm
<1>3. sess' = [sess EXCEPT ![s] = r]
  BY DEF BulkStart
<1> HIDE DEF r
<1>4. Holds(r, KnownItems, Rowed)
  BY <1>1, <1>2, IdleType DEF Holds
<1>5. QED
  BY <1>2, <1>3, <1>4

\* A replacement writes the printing, and the price unless the item it read had its own.
LEMMA ReplaceWriteIs ==
    ASSUME TypeInv, NEW s \in Sessions, ReplaceWrite(s)
    PROVE  \E i \in KnownItems, x \in ItemRec, r \in ReqRec :
              /\ i = sess[s].i
              /\ x.variant = sess[s].form.variant /\ x.variant \in Variants
              /\ x.grade = item[i].grade /\ x.mode = item[i].mode /\ x.pct = item[i].pct
              /\ x.over = item[i].over
              /\ x.price = IF sess[s].seen.over THEN item[i].price ELSE sess[s].price
              /\ item' = [item EXCEPT ![i] = x]
              /\ r.pc \in {"saveRead", "idle"} /\ Holds(r, KnownItems, Rowed) /\ sess' = [sess EXCEPT ![s] = r]
<1> DEFINE i == sess[s].i
           x == [item[i] EXCEPT !.variant = sess[s].form.variant,
                                !.price = IF sess[s].seen.over THEN item[i].price ELSE sess[s].price]
           r == [sess[s] EXCEPT !.pc = "saveRead"]
<1>1. sess[s] \in ReqRec /\ Holds(sess[s], KnownItems, Rowed) /\ sess[s].pc = "replaceWrite"
  BY DEF TypeInv, ReplaceWrite
<1>2. i \in KnownItems /\ sess[s].form.variant \in Variants /\ item[i] \in ItemRec /\ sess[s].price \in Prices
  BY <1>1, NoRecIs DEF Holds, KnownItems, TypeInv, Tables, ReqRec, Forms
<1>3. /\ x \in ItemRec /\ x.variant = sess[s].form.variant
      /\ x.grade = item[i].grade /\ x.mode = item[i].mode /\ x.pct = item[i].pct /\ x.over = item[i].over
      /\ x.price = IF sess[s].seen.over THEN item[i].price ELSE sess[s].price
  BY <1>2 DEF ItemRec
<1>4. item' = [item EXCEPT ![i] = x]
  BY DEF ReplaceWrite
<1>5. CASE sess[s].saving
  <2>1. r \in ReqRec /\ r.pc = "saveRead" /\ r.i = i /\ r.saving /\ r.form = sess[s].form /\ r.batch = sess[s].batch
    BY <1>1, <1>5 DEF ReqRec, Forms, Points
  <2>2. sess' = [sess EXCEPT ![s] = r]
    BY <1>5 DEF ReplaceWrite
  <2> HIDE DEF r
  <2>3. Holds(r, KnownItems, Rowed)
    BY <1>1, <1>2, <1>5, <2>1 DEF Holds
  <2> HIDE DEF x
  <2>4. QED
    BY <1>2, <1>3, <1>4, <2>1, <2>2, <2>3
<1>6. CASE ~sess[s].saving
  <2>1. sess' = [sess EXCEPT ![s] = Idle]
    BY <1>6 DEF ReplaceWrite
  <2> HIDE DEF x
  <2>2. QED
    BY <1>2, <1>3, <1>4, <2>1, IdleType
<1>7. QED
  BY <1>5, <1>6

LEMMA SaveReadIs ==
    ASSUME TypeInv, NEW s \in Sessions, SaveRead(s)
    PROVE  \E r \in ReqRec : /\ r.pc = "saveWrite" /\ r.i = sess[s].i /\ r.seen = item[r.i]
                             /\ Holds(r, KnownItems, Rowed) /\ sess' = [sess EXCEPT ![s] = r]
<1> DEFINE r == [sess[s] EXCEPT !.pc = "saveWrite", !.seen = item[sess[s].i]]
<1>1. sess[s] \in ReqRec /\ Holds(sess[s], KnownItems, Rowed) /\ sess[s].pc = "saveRead"
  BY DEF TypeInv, SaveRead
<1>2. sess[s].i \in KnownItems /\ sess[s].saving /\ item[sess[s].i] \in ItemRec
  BY <1>1, NoRecIs DEF Holds, KnownItems, TypeInv, Tables
<1>3. /\ r \in ReqRec /\ r.pc = "saveWrite" /\ r.i = sess[s].i /\ r.seen = item[r.i] /\ r.saving
      /\ r.form = sess[s].form /\ r.batch = sess[s].batch
  BY <1>1, <1>2 DEF ReqRec, Forms, Points
<1>4. sess' = [sess EXCEPT ![s] = r]
  BY DEF SaveRead
<1> HIDE DEF r
<1>5. Holds(r, KnownItems, Rowed)
  BY <1>1, <1>2, <1>3, NoRecIs DEF Holds
<1>6. QED
  BY <1>3, <1>4, <1>5

\* The price a save gives.
Given(seen, f) == IF f.rule[1] = "fixed" \/ Edited(f) THEN f.typed ELSE Ruled(seen.variant, f)

LEMMA GivenType ==
    ASSUME TypeInv, NEW s \in Sessions, sess[s].pc = "saveWrite"
    PROVE  Given(sess[s].seen, sess[s].form) \in Prices
<1> DEFINE f == sess[s].form
           v == sess[s].seen.variant
<1>1. /\ f.typed \in Prices /\ f.rule \in Rules /\ f.grade \in Grades /\ sess[s].seen \in ItemRec
  BY DEF TypeInv, Holds, ReqRec, Forms
<1>2. v \in Variants \cup {NoVariant} /\ NoPrice \in Prices
  BY <1>1 DEF ItemRec, Prices
<1>3. CASE v \in Variants
  <2>1. MarketAt(market, v, f.grade) \in Prices
    BY <1>1, <1>3, MarketType DEF TypeInv, Tables
  <2>2. Resolve(MarketAt(market, v, f.grade), f.rule, NoPrice) \in Prices
    BY <1>1, <1>2, <2>1, RuleType, ResolveType
  <2>3. seller.floor \in Floors \cup {NoPrice}
    BY DEF TypeInv, Tables
  <2>4. Floored(Resolve(MarketAt(market, v, f.grade), f.rule, NoPrice)) \in Prices
    BY <2>2, <2>3, FlooredType
  <2>5. QED
    BY <1>1, <1>2, <2>4 DEF Given, Ruled
<1>4. CASE v = NoVariant
  BY <1>1, <1>2, <1>4 DEF Given, Ruled
<1>5. QED
  BY <1>2, <1>3, <1>4

\* A save writes the form; what was typed is what the seller typed last.
LEMMA SaveWriteIs ==
    ASSUME TypeInv, NEW s \in Sessions, SaveWrite(s)
    PROVE  \E i \in KnownItems, x \in ItemRec, f \in Forms :
              /\ i = sess[s].i /\ f = sess[s].form /\ f.rule \in Rules /\ f.grade \in Grades
              /\ x.variant = item[i].variant /\ x.grade = f.grade
              /\ x.mode = f.rule[1] /\ x.pct = f.rule[2]
              /\ x.price = Given(sess[s].seen, f) /\ (x.over <=> f.rule[1] # "fixed" /\ Edited(f))
              /\ item' = [item EXCEPT ![i] = x]
              /\ hand' = [hand EXCEPT ![i] = IF Edited(f) THEN f.typed ELSE @]
              /\ hand' \in [Items -> Prices]
              /\ Finish(s)
<1> DEFINE i == sess[s].i
           f == sess[s].form
           over == f.rule[1] # "fixed" /\ Edited(f)
           x == [item[i] EXCEPT !.grade = f.grade, !.mode = f.rule[1], !.pct = f.rule[2],
                                !.price = Given(sess[s].seen, f), !.over = over]
<1>1. sess[s] \in ReqRec /\ Holds(sess[s], KnownItems, Rowed) /\ sess[s].pc = "saveWrite"
  BY DEF TypeInv, SaveWrite
<1>2. /\ i \in KnownItems /\ item[i] \in ItemRec /\ f \in Forms
      /\ f.rule \in Rules /\ f.grade \in Grades /\ f.typed \in Prices
  BY <1>1, NoRecIs DEF Holds, KnownItems, TypeInv, Tables, ReqRec, Forms
<1>3. f.rule[1] \in Modes /\ f.rule[2] \in Int
  BY <1>2, RuleType DEF IsRule
<1>4. Given(sess[s].seen, f) \in Prices
  BY <1>1, GivenType
<1>5. PICK o \in BOOLEAN : o = over
  BY DEF Edited
<1>6. PICK y : y = [item[i] EXCEPT !.grade = f.grade, !.mode = f.rule[1], !.pct = f.rule[2],
                                   !.price = Given(sess[s].seen, f), !.over = o]
  OBVIOUS
<1>7. /\ y \in ItemRec /\ y.variant = item[i].variant /\ y.grade = f.grade
      /\ y.mode = f.rule[1] /\ y.pct = f.rule[2] /\ y.price = Given(sess[s].seen, f) /\ y.over = o
  BY <1>2, <1>3, <1>4, <1>6 DEF ItemRec
<1>8. item' = [item EXCEPT ![i] = x] /\ x = y
  BY <1>5, <1>6 DEF SaveWrite, Given
<1>9. hand' = [hand EXCEPT ![i] = IF Edited(f) THEN f.typed ELSE @]
  BY DEF SaveWrite
<1>10. hand' \in [Items -> Prices]
  BY <1>2, <1>9 DEF TypeInv, Tables
<1>11. Finish(s)
  BY DEF SaveWrite
<1> HIDE DEF x
<1>12. QED
  BY <1>2, <1>5, <1>7, <1>8, <1>9, <1>10, <1>11

\* Of a set of items in hand Min takes one.
LEMMA NextItem ==
    ASSUME NEW S \in SUBSET Items, S # {}
    PROVE  Min(S) \in S /\ Max(S) \in S
<1>1. S \subseteq Nat /\ IsFiniteSet(S)
  BY PricingAssumption, FS_Subset
<1>2. QED
  BY <1>1, Extremes

LEMMA AllItemIs ==
    ASSUME TypeInv, NEW s \in Sessions, AllItem(s)
    PROVE  \E i \in KnownItems, x \in ItemRec, r \in ReqRec :
              /\ x.price = sess[s].price /\ x.over = TRUE
              /\ item' = [item EXCEPT ![i] = x]
              /\ hand' = [hand EXCEPT ![i] = x.price] /\ hand' \in [Items -> Prices]
              /\ r.pc \in {"allItem", "idle"} /\ Holds(r, KnownItems, Rowed) /\ sess' = [sess EXCEPT ![s] = r]
<1> DEFINE i == Min(sess[s].todo)
           left == sess[s].todo \ {i}
           x == [item[i] EXCEPT !.price = sess[s].price, !.over = TRUE]
           r == [sess[s] EXCEPT !.todo = left]
<1>1. sess[s] \in ReqRec /\ Holds(sess[s], KnownItems, Rowed) /\ sess[s].pc = "allItem"
  BY DEF TypeInv, AllItem
<1>2. sess[s].todo \in SUBSET Items /\ sess[s].todo # {} /\ sess[s].todo \subseteq KnownItems /\ sess[s].price \in Prices
  BY <1>1 DEF Holds, ReqRec, Forms
<1>3. i \in KnownItems /\ item[i] \in ItemRec
  BY <1>2, NextItem DEF KnownItems, TypeInv, Tables
<1>4. item' = [item EXCEPT ![i] = x]
  BY DEF AllItem
<1>5. hand' = [hand EXCEPT ![i] = sess[s].price]
  BY DEF AllItem
<1>6. sess' = [sess EXCEPT ![s] = IF left = {} THEN Idle ELSE r]
  BY DEF AllItem
<1> HIDE DEF i
<1>7. x \in ItemRec /\ x.price = sess[s].price /\ x.over = TRUE
  BY <1>2, <1>3 DEF ItemRec
<1>8. hand' \in [Items -> Prices]
  BY <1>2, <1>3, <1>5 DEF TypeInv, Tables, KnownItems
<1> HIDE DEF x
<1>9. CASE left = {}
  BY <1>3, <1>4, <1>5, <1>6, <1>7, <1>8, <1>9, IdleType
<1>10. CASE left # {}
  <2>1. /\ r \in ReqRec /\ r.pc = "allItem" /\ r.todo = left /\ r.saving = sess[s].saving
        /\ r.form = sess[s].form /\ r.batch = sess[s].batch
    BY <1>1, <1>2 DEF ReqRec, Forms
  <2>2. sess' = [sess EXCEPT ![s] = r]
    BY <1>6, <1>10
  <2> HIDE DEF r
  <2>3. Holds(r, KnownItems, Rowed)
    BY <1>1, <1>2, <1>10, <2>1 DEF Holds
  <2>4. QED
    BY <1>3, <1>4, <1>5, <1>7, <1>8, <2>1, <2>2, <2>3
<1>11. QED
  BY <1>9, <1>10

\* What a commit files has a printing, and what its history remembers has been filed.
Filing(b, v, g) == {i \in Items : b[i] # NoRec /\ b[i].variant = v /\ b[i].grade = g /\ b[i].price # NoPrice}

LEMMA CommitTxIs ==
    ASSUME TypeInv, NEW s \in Sessions, CommitTx(s)
    PROVE  /\ row' \in [Items -> RowRec \cup {NoRec}] /\ Rowed \subseteq Rowed'
           /\ history' \in [Variants -> [Grades -> Prices]]
           /\ filed' \in [Variants -> [Grades -> SUBSET Prices]]
           /\ \A v \in Variants, g \in Grades :
                 /\ filed[v][g] \subseteq filed'[v][g]
                 /\ history'[v][g] = history[v][g] \/ history'[v][g] \in filed'[v][g]
<1> DEFINE b == sess[s].batch
<1>1. sess[s] \in ReqRec /\ Holds(sess[s], KnownItems, Rowed)
  BY DEF TypeInv
<1>2. /\ b \in [Items -> ItemRec \cup {NoRec}]
      /\ \A i \in Items : b[i] # NoRec => b[i] \in ItemRec /\ b[i].variant \in Variants
  BY <1>1 DEF ReqRec, Forms, Holds
<1>3. /\ row' = [i \in Items |-> IF b[i] = NoRec THEN row[i] ELSE
             [variant |-> b[i].variant, grade |-> b[i].grade,
              mode |-> b[i].mode, pct |-> b[i].pct, price |-> b[i].price]]
      /\ history' = [v \in Variants |-> [g \in Grades |->
             IF Filing(b, v, g) = {} THEN history[v][g] ELSE b[Max(Filing(b, v, g))].price]]
      /\ filed' = [v \in Variants |-> [g \in Grades |->
             filed[v][g] \cup {b[i].price : i \in Filing(b, v, g)}]]
  BY DEF CommitTx, Filing
<1> HIDE DEF b
<1>4. \A i \in Items : b[i] # NoRec =>
          /\ [variant |-> b[i].variant, grade |-> b[i].grade, mode |-> b[i].mode, pct |-> b[i].pct,
              price |-> b[i].price] \in RowRec
          /\ b[i].price \in Prices
  BY <1>2 DEF ItemRec, RowRec
<1>5. row' \in [Items -> RowRec \cup {NoRec}] /\ Rowed \subseteq Rowed'
  BY <1>3, <1>4, NoRecIs DEF TypeInv, Tables, Rowed
<1>6. ASSUME NEW v \in Variants, NEW g \in Grades
      PROVE  /\ {b[i].price : i \in Filing(b, v, g)} \subseteq Prices
             /\ Filing(b, v, g) # {} =>
                   b[Max(Filing(b, v, g))].price \in {b[i].price : i \in Filing(b, v, g)}
  <2>1. Filing(b, v, g) \in SUBSET Items /\ \A i \in Filing(b, v, g) : b[i].price \in Prices
    BY <1>4 DEF Filing
  <2>2. Filing(b, v, g) # {} => Max(Filing(b, v, g)) \in Filing(b, v, g)
    BY <2>1, NextItem
  <2>3. QED
    BY <2>1, <2>2
<1>7. ASSUME NEW v \in Variants, NEW g \in Grades
      PROVE  /\ filed'[v][g] \in SUBSET Prices /\ filed[v][g] \subseteq filed'[v][g]
             /\ history'[v][g] \in Prices
             /\ history'[v][g] = history[v][g] \/ history'[v][g] \in filed'[v][g]
  <2>1. filed[v][g] \subseteq Prices /\ history[v][g] \in Prices
    BY DEF TypeInv, Tables
  <2>2. filed'[v][g] = filed[v][g] \cup {b[i].price : i \in Filing(b, v, g)}
    BY <1>3
  <2>3. history'[v][g] = IF Filing(b, v, g) = {} THEN history[v][g] ELSE b[Max(Filing(b, v, g))].price
    BY <1>3
  <2>4. QED
    BY <1>6, <2>1, <2>2, <2>3
<1>8. history' \in [Variants -> [Grades -> Prices]]
  BY <1>3, <1>7
<1>9. filed' \in [Variants -> [Grades -> SUBSET Prices]]
  BY <1>3, <1>7
<1>10. QED
  BY <1>5, <1>7, <1>8, <1>9

LEMMA BulkRowIs ==
    ASSUME TypeInv, NEW s \in Sessions, BulkRow(s)
    PROVE  \E i \in Rowed, x \in RowRec, r \in ReqRec :
              /\ row' = [row EXCEPT ![i] = x]
              /\ r.pc \in {"bulkRow", "idle"} /\ Holds(r, KnownItems, Rowed) /\ sess' = [sess EXCEPT ![s] = r]
<1> DEFINE i == Min(sess[s].todo)
           left == sess[s].todo \ {i}
           rule == sess[s].form.rule
           p == Resolve(market[row[i].variant][Raw], rule, row[i].price)
           price == IF p = NoPrice THEN row[i].price ELSE p
           x == [row[i] EXCEPT !.mode = rule[1], !.pct = rule[2], !.price = price]
           r == [sess[s] EXCEPT !.todo = left]
<1>1. sess[s] \in ReqRec /\ Holds(sess[s], KnownItems, Rowed) /\ sess[s].pc = "bulkRow"
  BY DEF TypeInv, BulkRow
<1>2. sess[s].todo \in SUBSET Items /\ sess[s].todo # {} /\ sess[s].todo \subseteq Rowed /\ rule \in Rules
  BY <1>1 DEF Holds, ReqRec, Forms
<1>3. i \in Rowed /\ row[i] \in RowRec /\ row[i].variant \in Variants /\ row[i].price \in Prices
  BY <1>2, NextItem DEF Rowed, TypeInv, Tables, RowRec
<1>4. row' = [row EXCEPT ![i] = x]
  BY DEF BulkRow
<1>5. sess' = [sess EXCEPT ![s] = IF left = {} THEN Idle ELSE r]
  BY DEF BulkRow
<1>6. price \in Prices
  <2>1. Raw \in Grades /\ Markets \cup {NoPrice} \subseteq Prices
    BY PricingAssumption DEF Grades, Prices
  <2>2. market[row[i].variant][Raw] \in Prices
    BY <1>3, <2>1 DEF TypeInv, Tables
  <2>3. p \in Prices
    BY <1>2, <1>3, <2>2, RuleType, ResolveType
  <2>4. QED
    BY <1>3, <2>3
<1> HIDE DEF i, price
<1>7. rule[1] \in Modes /\ rule[2] \in Int
  BY <1>2, RuleType DEF IsRule
<1>8. x \in RowRec
  BY <1>3, <1>6, <1>7 DEF RowRec
<1> HIDE DEF x
<1>9. CASE left = {}
  BY <1>3, <1>4, <1>5, <1>8, <1>9, IdleType
<1>10. CASE left # {}
  <2>1. /\ r \in ReqRec /\ r.pc = "bulkRow" /\ r.todo = left /\ r.saving = sess[s].saving
        /\ r.form = sess[s].form /\ r.batch = sess[s].batch
    BY <1>1, <1>2 DEF ReqRec, Forms
  <2>2. sess' = [sess EXCEPT ![s] = r]
    BY <1>5, <1>10
  <2> HIDE DEF r
  <2>3. Holds(r, KnownItems, Rowed)
    BY <1>1, <1>2, <1>10, <2>1 DEF Holds
  <2>4. QED
    BY <1>3, <1>4, <1>8, <2>1, <2>2, <2>3
<1>11. QED
  BY <1>9, <1>10

LEMMA MarketMovesIs ==
    ASSUME TypeInv, NEW v \in Variants, NEW g \in Grades, NEW m \in Markets, MarketMoves(v, g, m)
    PROVE  /\ market' \in [Variants -> [Grades -> Markets \cup {NoPrice}]]
           /\ worth' \in [Variants -> [Grades -> SUBSET Prices]]
           /\ \A u \in Variants, h \in Grades :
                 worth[u][h] \subseteq worth'[u][h] /\ MarketAt(market', u, h) \in worth'[u][h]
<1>1. market' \in [Variants -> [Grades -> Markets \cup {NoPrice}]]
  BY DEF MarketMoves, TypeInv, Tables
<1>2. PICK mk : mk = market'
  OBVIOUS
<1>3. mk \in [Variants -> [Grades -> Markets \cup {NoPrice}]]
  BY <1>1, <1>2
<1>4. worth' = [u \in Variants |-> [h \in Grades |-> worth[u][h] \cup {MarketAt(mk, u, h)}]]
  BY <1>2 DEF MarketMoves
<1>5. ASSUME NEW u \in Variants, NEW h \in Grades
      PROVE  /\ worth'[u][h] \in SUBSET Prices
             /\ worth[u][h] \subseteq worth'[u][h] /\ MarketAt(mk, u, h) \in worth'[u][h]
  <2>1. worth'[u][h] = worth[u][h] \cup {MarketAt(mk, u, h)}
    BY <1>4
  <2>2. MarketAt(mk, u, h) \in Prices
    BY <1>3, MarketType
  <2>3. worth[u][h] \subseteq Prices
    BY DEF TypeInv, Tables
  <2>4. QED
    BY <2>1, <2>2, <2>3
<1>6. worth' \in [Variants -> [Grades -> SUBSET Prices]]
  BY <1>4, <1>5
<1>7. QED
  BY <1>1, <1>2, <1>5, <1>6

\* One request's step, whatever it wrote to the tables.
LEMMA StepType ==
    ASSUME TypeInv, Later, Tables', shown' = shown, NEW s \in Sessions, NEW r \in ReqRec,
           Holds(r, KnownItems, Rowed), sess' = [sess EXCEPT ![s] = r]
    PROVE  TypeInv'
<1>1. Holds(r, KnownItems', Rowed')
  BY DEF Later, Holds
<1>2. QED
  BY <1>1, SessionStep DEF TypeInv, Later

LEMMA RequestTypes ==
    ASSUME TypeInv, NEW s \in Sessions, Requests(s)
    PROVE  TypeInv'
<1>1. ASSUME NEW i \in Items, NEW v \in Variants \cup {NoVariant}, NEW g \in Grades, NEW rule \in Rules,
             NEW start \in Typed \cup {NoPrice}, Add(s, i, v, g, rule, start)
      PROVE  TypeInv'
  BY <1>1, AddType
<1>2. ASSUME NEW i \in Items, NEW v \in Variants, ReplaceStart(s, i, v) PROVE TypeInv'
  BY <1>2, ReplaceStartIs, ReadType, CountType DEF ReplaceStart, Ask
<1>3. ASSUME NEW i \in Items, NEW v \in Variants \cup {NoVariant}, NEW g \in Grades, NEW rule \in Rules,
             NEW typed \in Typed \cup {shown[i], NoPrice},
             SaveStart(s, i, [variant |-> v, grade |-> g, rule |-> rule, typed |-> typed, shown |-> shown[i]])
      PROVE  TypeInv'
  <2>1. /\ asked' \in 0..MaxAsked
        /\ UNCHANGED <<market, seller, item, row, history, shown, hand, worth, filed>>
    BY <1>3, CountType DEF SaveStart, Ask
  <2>2. PICK r \in ReqRec : Holds(r, KnownItems, Rowed) /\ sess' = [sess EXCEPT ![s] = r]
    BY <1>3, SaveStartIs
  <2>3. QED
    BY <2>1, <2>2, ReadType
<1>4. ASSUME NEW todo \in SUBSET Items, NEW cents \in Typed, AllStart(s, todo, cents) PROVE TypeInv'
  BY <1>4, AllStartType, ReadType, CountType DEF AllStart, Ask
<1>5. ASSUME NEW taken \in SUBSET Items, CommitStart(s, taken) PROVE TypeInv'
  BY <1>5, CommitStartType, ReadType, CountType DEF CommitStart, Ask
<1>6. ASSUME NEW todo \in SUBSET Items, NEW rule \in Rules, BulkStart(s, todo, rule) PROVE TypeInv'
  BY <1>6, BulkStartType, ReadType, CountType DEF BulkStart, Ask
<1>7. ASSUME NEW account \in [fixed : Typed \cup {NoPrice}, pref : Prefs, floor : Floors], Settings(s, account)
      PROVE  TypeInv'
  <2>1. Later /\ KnownItems' = KnownItems /\ seller' \in [fixed : Typed \cup {NoPrice}, pref : Prefs, floor : Floors \cup {NoPrice}]
    BY <1>7 DEF Settings, Later, KnownItems, Rowed
  <2>2. asked' \in 0..MaxAsked
    BY <1>7, CountType DEF Settings, Ask
  <2>3. QED
    BY <1>7, <2>1, <2>2, NoSessionStep DEF Settings, TypeInv, Tables
<1>8. QED
  BY <1>1, <1>2, <1>3, <1>4, <1>5, <1>6, <1>7 DEF Requests

LEMMA StepTypes ==
    ASSUME TypeInv, NEW s \in Sessions, Steps(s) \/ Die(s)
    PROVE  TypeInv'
<1>1. CASE ReplaceWrite(s)
  <2>1. PICK i \in KnownItems, x \in ItemRec, r \in ReqRec :
          /\ item' = [item EXCEPT ![i] = x]
          /\ Holds(r, KnownItems, Rowed) /\ sess' = [sess EXCEPT ![s] = r]
    BY <1>1, ReplaceWriteIs
  <2>2. item' \in [Items -> ItemRec \cup {NoRec}] /\ Later
    BY <1>1, <2>1, ItemStep DEF ReplaceWrite, KnownItems
  <2>3. Tables' /\ shown' = shown
    BY <1>1, <2>2 DEF ReplaceWrite, TypeInv, Tables
  <2>4. QED
    BY <2>1, <2>2, <2>3, StepType
<1>2. CASE SaveRead(s)
  <2>1. asked' \in 0..MaxAsked /\ UNCHANGED <<market, seller, item, row, history, shown, hand, worth, filed>>
    BY <1>2 DEF SaveRead, TypeInv, Tables
  <2>2. QED
    BY <1>2, <2>1, SaveReadIs, ReadType
<1>3. CASE SaveWrite(s)
  <2>1. PICK i \in KnownItems, x \in ItemRec :
          item' = [item EXCEPT ![i] = x] /\ hand' \in [Items -> Prices] /\ Finish(s)
    BY <1>3, SaveWriteIs
  <2>2. item' \in [Items -> ItemRec \cup {NoRec}] /\ Later
    BY <1>3, <2>1, ItemStep DEF SaveWrite, KnownItems
  <2>3. Tables' /\ shown' = shown
    BY <1>3, <2>1, <2>2 DEF SaveWrite, TypeInv, Tables
  <2>4. QED
    BY <2>1, <2>2, <2>3, StepType, IdleType DEF Finish
<1>4. CASE AllItem(s)
  <2>1. PICK i \in KnownItems, x \in ItemRec, r \in ReqRec :
          /\ x.price = sess[s].price /\ x.over = TRUE
          /\ item' = [item EXCEPT ![i] = x]
          /\ hand' = [hand EXCEPT ![i] = x.price] /\ hand' \in [Items -> Prices]
          /\ r.pc \in {"allItem", "idle"} /\ Holds(r, KnownItems, Rowed) /\ sess' = [sess EXCEPT ![s] = r]
    BY <1>4, AllItemIs
  <2>2. item' \in [Items -> ItemRec \cup {NoRec}] /\ Later
    BY <1>4, <2>1, ItemStep DEF AllItem, KnownItems
  <2>3. Tables' /\ shown' = shown
    BY <1>4, <2>1, <2>2 DEF AllItem, TypeInv, Tables
  <2>4. QED
    BY <2>1, <2>2, <2>3, StepType
<1>5. CASE CommitTx(s)
  <2>1. KnownItems' = KnownItems /\ shown' = shown /\ Finish(s)
    BY <1>5 DEF CommitTx, KnownItems
  <2>2. Later
    BY <1>5, <2>1, CommitTxIs DEF Later
  <2>3. Tables'
    BY <1>5, CommitTxIs DEF CommitTx, TypeInv, Tables
  <2>4. QED
    BY <2>1, <2>2, <2>3, StepType, IdleType DEF Finish
<1>6. CASE BulkRow(s)
  <2>1. PICK i \in Rowed, x \in RowRec, r \in ReqRec :
          /\ row' = [row EXCEPT ![i] = x]
          /\ Holds(r, KnownItems, Rowed) /\ sess' = [sess EXCEPT ![s] = r]
    BY <1>6, BulkRowIs
  <2>2. row' \in [Items -> RowRec \cup {NoRec}] /\ Rowed \subseteq Rowed' /\ KnownItems' = KnownItems
    <3>1. row \in [Items -> RowRec \cup {NoRec}]
      BY DEF TypeInv, Tables
    <3>2. row' \in [Items -> RowRec \cup {NoRec}]
      BY <2>1, <3>1
    <3>3. \A j \in Rowed : row'[j] # NoRec
      BY <2>1, <3>1, NoRecIs DEF Rowed
    <3>4. KnownItems' = KnownItems
      BY <1>6 DEF BulkRow, KnownItems
    <3>5. QED
      BY <3>2, <3>3, <3>4 DEF Rowed
  <2>3. Tables' /\ shown' = shown /\ Later
    BY <1>6, <2>2 DEF BulkRow, TypeInv, Tables, Later
  <2>4. QED
    BY <2>1, <2>3, StepType
<1>7. CASE Die(s)
  <2>1. asked' \in 0..MaxAsked /\ UNCHANGED <<market, seller, item, row, history, shown, hand, worth, filed>>
    BY <1>7 DEF Die, TypeInv, Tables
  <2>2. sess' = [sess EXCEPT ![s] = Idle]
    BY <1>7 DEF Die, Finish
  <2>3. QED
    BY <2>1, <2>2, ReadType, IdleType
<1>8. QED
  BY <1>1, <1>2, <1>3, <1>4, <1>5, <1>6, <1>7 DEF Steps

LEMMA TypeNext == TypeInv /\ [Next]_vars => TypeInv'
<1> SUFFICES ASSUME TypeInv, [Next]_vars PROVE TypeInv'
  OBVIOUS
<1>1. CASE UNCHANGED vars
  <2>1. Later /\ KnownItems' = KnownItems
    BY <1>1 DEF vars, Later, KnownItems, Rowed
  <2>2. QED
    BY <1>1, <2>1, NoSessionStep DEF vars, TypeInv, Tables
<1>2. ASSUME NEW i \in Items, Open(i) PROVE TypeInv'
  <2>1. i \in KnownItems /\ item[i].price \in Prices
    BY <1>2, NoRecIs DEF Open, Known, KnownItems, TypeInv, Tables, ItemRec
  <2>2. shown' \in [Items -> Prices \cup {NoPage}] /\ \A j \in Items : shown'[j] # NoPage => j \in KnownItems
    BY <1>2, <2>1 DEF Open, TypeInv, Tables
  <2>3. Later /\ KnownItems' = KnownItems
    BY <1>2 DEF Open, Later, KnownItems, Rowed
  <2>4. QED
    BY <1>2, <2>2, <2>3, NoSessionStep DEF Open, TypeInv, Tables
<1>3. ASSUME NEW v \in Variants, NEW g \in Grades, NEW m \in Markets, MarketMoves(v, g, m) PROVE TypeInv'
  <2>1. Later /\ KnownItems' = KnownItems
    BY <1>3 DEF MarketMoves, Later, KnownItems, Rowed
  <2>2. asked' \in 0..MaxAsked
    BY <1>3, CountType DEF MarketMoves
  <2>3. Tables'
    BY <1>3, <2>2, MarketMovesIs DEF MarketMoves, TypeInv, Tables
  <2>4. QED
    BY <1>3, <2>1, <2>3, NoSessionStep DEF MarketMoves, TypeInv
<1>4. QED
  BY <1>1, <1>2, <1>3, RequestTypes, StepTypes DEF Next

\* Whatever sessions overlap or stop, the tables and the requests under way keep their types;
\* an item a request has in hand exists, and a commit files only items with a printing.
THEOREM PricingTypes == Spec => []TypeInv
BY TypeInit, TypeNext, PTL DEF Spec

-----------------------------------------------------------------------------
(* What counts as a printing's price is only added to.                     *)

Added == \A v \in Variants, g \in Grades : worth[v][g] \subseteq worth'[v][g] /\ filed[v][g] \subseteq filed'[v][g]

LEMMA WorthInit == Init => WorthInv /\ FiledInv
BY DEF Init, WorthInv, FiledInv

LEMMA WorthNext ==
    ASSUME TypeInv, [Next]_vars
    PROVE  Added /\ (WorthInv => WorthInv') /\ (FiledInv => FiledInv')
<1>1. CASE UNCHANGED <<market, worth, history, filed>>
  BY <1>1 DEF Added, WorthInv, FiledInv, MarketAt
<1>2. ASSUME NEW v \in Variants, NEW g \in Grades, NEW m \in Markets, MarketMoves(v, g, m)
      PROVE  Added /\ WorthInv' /\ (FiledInv => FiledInv')
  <2>1. history' = history /\ filed' = filed
    BY <1>2 DEF MarketMoves
  <2>2. /\ \A u \in Variants, h \in Grades : worth[u][h] \subseteq worth'[u][h]
        /\ WorthInv'
    BY <1>2, MarketMovesIs DEF WorthInv
  <2>3. QED
    BY <2>1, <2>2 DEF Added, FiledInv
<1>3. ASSUME NEW s \in Sessions, CommitTx(s)
      PROVE  Added /\ (WorthInv => WorthInv') /\ (FiledInv => FiledInv')
  <2>1. market' = market /\ worth' = worth
    BY <1>3 DEF CommitTx
  <2>2. \A v \in Variants, g \in Grades :
           filed[v][g] \subseteq filed'[v][g] /\ (history'[v][g] = history[v][g] \/ history'[v][g] \in filed'[v][g])
    BY <1>3, CommitTxIs
  <2>3. FiledInv => FiledInv'
    BY <2>2 DEF FiledInv
  <2>4. QED
    BY <2>1, <2>2, <2>3 DEF Added, WorthInv, MarketAt
<1>4. ASSUME NEW s \in Sessions, Requests(s) PROVE UNCHANGED <<market, worth, history, filed>>
  <2>1. \A i, v, g, rule, start : Add(s, i, v, g, rule, start) => UNCHANGED <<market, worth, history, filed>>
    BY DEF Add
  <2>2. \A i, v : ReplaceStart(s, i, v) => UNCHANGED <<market, worth, history, filed>>
    BY DEF ReplaceStart
  <2>3. \A i, form : SaveStart(s, i, form) => UNCHANGED <<market, worth, history, filed>>
    BY DEF SaveStart
  <2>4. \A todo, x : AllStart(s, todo, x) \/ CommitStart(s, todo) \/ BulkStart(s, todo, x) \/ Settings(s, x)
                        => UNCHANGED <<market, worth, history, filed>>
    BY DEF AllStart, CommitStart, BulkStart, Settings
  <2>5. QED
    BY <1>4, <2>1, <2>2, <2>3, <2>4 DEF Requests
<1>5. ASSUME NEW s \in Sessions, Steps(s) \/ Die(s), ~CommitTx(s) PROVE UNCHANGED <<market, worth, history, filed>>
  BY <1>5 DEF Steps, Die, ReplaceWrite, SaveRead, SaveWrite, AllItem, BulkRow
<1>6. ASSUME NEW i \in Items, Open(i) PROVE UNCHANGED <<market, worth, history, filed>>
  BY <1>6 DEF Open
<1>7. QED
  BY <1>1, <1>2, <1>3, <1>4, <1>5, <1>6 DEF Next, vars

-----------------------------------------------------------------------------
(* One request at a time.                                                  *)

\* What the properties say of one item.
Fair(q, p) == q \in {p} \cup {Max({p, f}) : f \in Floors \cup {EbayMin}}

Backed(x) ==
    \/ \E m \in worth[x.variant][x.grade] : Fair(x.price, Resolve(m, <<x.mode, x.pct>>, NoPrice))
    \/ \E p \in filed[x.variant][x.grade] : Fair(x.price, p)

Owned(x) == (x.variant # NoVariant /\ ~x.over /\ x.mode # "fixed" /\ x.price # NoPrice) => Backed(x)

OwnedInv == \A i \in KnownItems : Owned(item[i])
TypedInv == \A i \in KnownItems : item[i].over => item[i].price = hand[i]

LEMMA Stated == TypeInv /\ OwnedInv /\ TypedInv => OverrideIsTyped /\ PriceOfPrinting
BY DEF OwnedInv, TypedInv, Owned, Backed, Fair, OverrideIsTyped, PriceOfPrinting, Known, Matched, KnownItems

LEMMA OwnedLater ==
    ASSUME Added, NEW x \in ItemRec, Owned(x)
    PROVE  Owned(x)'
<1>1. ASSUME x.variant # NoVariant PROVE x.variant \in Variants /\ x.grade \in Grades
  BY <1>1 DEF ItemRec
<1>2. QED
  BY <1>1 DEF Added, Owned, Backed

\* A floored price is fair, or there is none.
LEMMA FlooredFair ==
    ASSUME TypeInv, NEW p
    PROVE  Floored(p) = NoPrice \/ Fair(Floored(p), p)
<1>1. seller.floor \in Floors \cup {NoPrice}
  BY DEF TypeInv, Tables
<1>2. QED
  BY <1>1, FlooredIs DEF Fair

\* The automatic price of a new item.
LEMMA AddOwned ==
    ASSUME TypeInv, WorthInv, FiledInv, NEW v \in Variants \cup {NoVariant}, NEW g \in Grades,
           NEW rule \in Rules, NEW start \in Typed \cup {NoPrice}, NEW s \in Sessions, NEW i \in Items,
           Add(s, i, v, g, rule, start)
    PROVE  i \in KnownItems' /\ Owned(item'[i]) /\ ~item'[i].over
<1> DEFINE r == IF start > 0 THEN <<"fixed", 0>> ELSE rule
           ruled == Resolve(MarketAt(market, v, g), r, IF start > 0 THEN start ELSE seller.fixed)
           price == IF v = NoVariant THEN NoPrice ELSE AutoPrice(ruled, history[v][g])
           x == [variant |-> v, grade |-> g, mode |-> r[1], pct |-> r[2], over |-> FALSE, price |-> price]
<1>1. item' = [item EXCEPT ![i] = x] /\ item \in [Items -> ItemRec \cup {NoRec}]
  BY DEF Add, TypeInv, Tables
<1>2. x.variant = v /\ x.grade = g /\ x.mode = r[1] /\ x.pct = r[2] /\ x.over = FALSE /\ x.price = price
  OBVIOUS
<1>3. x # NoRec
  <2>1. DOMAIN x = {"variant", "grade", "mode", "pct", "price", "over"}
    OBVIOUS
  <2> HIDE DEF x
  <2>2. SUFFICES ASSUME x = NoRec PROVE FALSE
    OBVIOUS
  <2>3. DOMAIN x = {"variant"}
    BY <2>2 DEF NoRec
  <2>4. QED
    BY <2>1, <2>3
<1>4. ASSUME v # NoVariant, r[1] # "fixed", price # NoPrice
      PROVE  \/ \E m \in worth[v][g] : Fair(price, Resolve(m, <<r[1], r[2]>>, NoPrice))
             \/ \E p \in filed[v][g] : Fair(price, p)
  <2>1. v \in Variants /\ r = rule /\ IsRule(rule)
    BY <1>4, RuleType
  <2>2. MarketAt(market, v, g) \in worth[v][g] /\ (history[v][g] # NoPrice => history[v][g] \in filed[v][g])
    BY <2>1 DEF WorthInv, FiledInv
  <2>3. ruled = Resolve(MarketAt(market, v, g), rule, NoPrice) /\ rule = <<r[1], r[2]>>
    BY <1>4, <2>1, ResolveIgnores DEF IsRule
  <2>4. price \in {Floored(ruled), Floored(history[v][g])}
    BY <1>4 DEF AutoPrice
  <2>5. Floored(NoPrice) = NoPrice
    BY DEF Floored
  <2> HIDE DEF ruled, price, r
  <2>6. CASE price = Floored(ruled)
    <3>1. Fair(price, ruled)
      BY <1>4, <2>6, FlooredFair
    <3>2. QED
      BY <2>2, <2>3, <3>1
  <2>7. CASE price = Floored(history[v][g])
    <3>1. Fair(price, history[v][g])
      BY <1>4, <2>7, FlooredFair
    <3>2. history[v][g] # NoPrice
      BY <1>4, <2>5, <2>7
    <3>3. QED
      BY <2>2, <3>1, <3>2
  <2>8. QED
    BY <2>4, <2>6, <2>7
<1> HIDE DEF x, price, r
<1>5. Owned(x)
  BY <1>2, <1>4 DEF Owned, Backed
<1>6. item'[i] = x
  BY <1>1
<1>7. QED
  BY <1>1, <1>2, <1>3, <1>5, <1>6 DEF KnownItems

\* The price a replacement works out.
LEMMA ReplacingOwned ==
    ASSUME TypeInv, WorthInv, NEW i \in KnownItems, NEW v \in Variants, ~item[i].over
    PROVE  \E m \in worth[v][item[i].grade] :
              Replacing(i, v) = Resolve(m, <<item[i].mode, item[i].pct>>, NoPrice)
<1>1. item[i].grade \in Grades
  BY DEF TypeInv, Tables, KnownItems, ItemRec
<1>2. QED
  BY <1>1 DEF WorthInv, Replacing

\* The price a save gives to an item whose printing it read.
LEMMA SaveOwned ==
    ASSUME TypeInv, WorthInv, NEW v \in Variants, NEW f, f.rule \in Rules, f.grade \in Grades,
           f.rule[1] # "fixed", ~Edited(f), NEW seen, seen.variant = v, v # NoVariant
    PROVE  Given(seen, f) = NoPrice
           \/ \E m \in worth[v][f.grade] : Fair(Given(seen, f), Resolve(m, f.rule, NoPrice))
<1> DEFINE p == Resolve(MarketAt(market, v, f.grade), f.rule, NoPrice)
<1>1. Given(seen, f) = Floored(p)
  BY DEF Given, Ruled
<1>2. MarketAt(market, v, f.grade) \in worth[v][f.grade]
  BY DEF WorthInv
<1> HIDE DEF p
<1>3. Floored(p) = NoPrice \/ Fair(Floored(p), p)
  BY FlooredFair
<1>4. QED
  BY <1>1, <1>2, <1>3 DEF p

\* The whole invariant of one request at a time.
PriceInv ==
    /\ TypeInv /\ WorthInv /\ FiledInv
    /\ CurrentInv /\ WorkedInv /\ OwnedInv /\ TypedInv

LEMMA PriceInit == Init => PriceInv
<1> SUFFICES ASSUME Init PROVE PriceInv
  OBVIOUS
<1>1. KnownItems = {} /\ \A s \in Sessions : sess[s].pc = "idle"
  BY IdleType DEF Init, KnownItems
<1>2. QED
  BY <1>1, TypeInit, WorthInit DEF PriceInv, CurrentInv, Current, WorkedInv, Worked, OwnedInv, TypedInv

\* Only one item is written, and what was written of it is fair; the others stay as they are.
LEMMA ItemWritten ==
    ASSUME PriceInv, Added, NEW i \in KnownItems', NEW x, item' = [item EXCEPT ![i] = x], Owned(x)',
           x.over => x.price = hand'[i], \A j \in Items : j # i => hand'[j] = hand[j]
    PROVE  OwnedInv' /\ TypedInv'
<1>1. i \in Items /\ item'[i] = x /\ \A j \in Items : j # i => item'[j] = item[j]
  BY DEF KnownItems, PriceInv, TypeInv, Tables
<1>2. ASSUME NEW j \in KnownItems', j # i
      PROVE  j \in KnownItems /\ item'[j] = item[j] /\ item[j] \in ItemRec /\ hand'[j] = hand[j]
  BY <1>1, <1>2 DEF KnownItems, PriceInv, TypeInv, Tables
<1>3. \A j \in KnownItems' : Owned(item[j])'
  <2>1. SUFFICES ASSUME NEW j \in KnownItems' PROVE Owned(item[j])'
    OBVIOUS
  <2>2. CASE j = i
    BY <1>1, <2>2
  <2>3. CASE j # i
    <3>1. PICK y \in ItemRec : y = item[j]
      BY <1>2, <2>3
    <3>2. Owned(y)'
      BY <1>2, <2>3, <3>1, OwnedLater DEF PriceInv, OwnedInv
    <3>3. QED
      BY <1>2, <2>3, <3>1, <3>2
  <2>4. QED
    BY <2>2, <2>3
<1>4. \A j \in KnownItems' : item'[j].over => item'[j].price = hand'[j]
  BY <1>1, <1>2 DEF PriceInv, TypedInv
<1>5. QED
  BY <1>3, <1>4 DEF OwnedInv, TypedInv

LEMMA ItemsKept ==
    ASSUME PriceInv, Added, item' = item, hand' = hand
    PROVE  OwnedInv' /\ TypedInv'
<1>1. KnownItems' = KnownItems
  BY DEF KnownItems
<1>2. ASSUME NEW j \in KnownItems PROVE Owned(item[j])'
  <2>1. PICK y \in ItemRec : y = item[j]
    BY DEF KnownItems, PriceInv, TypeInv, Tables
  <2>2. Owned(y)'
    BY <2>1, OwnedLater DEF PriceInv, OwnedInv
  <2>3. QED
    BY <2>1, <2>2
<1>3. QED
  BY <1>1, <1>2 DEF PriceInv, OwnedInv, TypedInv

\* The one request under way is in step with its item.
LEMMA OneMoves ==
    ASSUME OneRequest, PriceInv, NEW s \in Sessions, NEW r, sess' = [sess EXCEPT ![s] = r],
           r.pc \in {"replaceWrite", "saveWrite"} => item'[r.i] = r.seen,
           Worked(r)'
    PROVE  CurrentInv' /\ WorkedInv'
<1>1. sess'[s] = r /\ \A t \in Sessions : t = s
  BY DEF OneRequest, PriceInv, TypeInv
<1>2. QED
  BY <1>1 DEF CurrentInv, Current, WorkedInv

LEMMA NoneMoves ==
    ASSUME PriceInv, Added, sess' = sess, item' = item
    PROVE  CurrentInv' /\ WorkedInv'
<1>1. CurrentInv'
  BY DEF PriceInv, CurrentInv, Current
<1>2. ASSUME NEW t \in Sessions, sess[t].pc = "replaceWrite", ~sess[t].seen.over PROVE Worked(sess[t])'
  <2>1. /\ sess[t].form.variant \in Variants /\ sess[t].seen.grade \in Grades
    BY <1>2, NoRecIs DEF PriceInv, TypeInv, Holds, ReqRec, Forms, ItemRec
  <2>2. worth[sess[t].form.variant][sess[t].seen.grade] \subseteq worth'[sess[t].form.variant][sess[t].seen.grade]
    BY <2>1 DEF Added
  <2>3. Worked(sess[t])
    BY DEF PriceInv, WorkedInv
  <2>4. PICK m \in worth[sess[t].form.variant][sess[t].seen.grade] :
           sess[t].price = Resolve(m, <<sess[t].seen.mode, sess[t].seen.pct>>, NoPrice)
    BY <1>2, <2>3 DEF Worked
  <2>5. QED
    BY <2>2, <2>4 DEF Worked
<1>3. WorkedInv'
  BY <1>2 DEF WorkedInv, Worked
<1>4. QED
  BY <1>1, <1>3

\* A request that is not about to write an item owes nothing.
LEMMA OthersMove ==
    ASSUME OneRequest, PriceInv, NEW s \in Sessions, NEW r, sess' = [sess EXCEPT ![s] = r],
           r.pc \notin {"replaceWrite", "saveWrite"}
    PROVE  CurrentInv' /\ WorkedInv'
<1>1. Worked(r)'
  BY DEF Worked
<1>2. QED
  BY <1>1, OneMoves

LEMMA PriceRequests ==
    ASSUME OneRequest, PriceInv, Added, NEW s \in Sessions, Requests(s)
    PROVE  CurrentInv' /\ WorkedInv' /\ OwnedInv' /\ TypedInv'
<1>0. TypeInv /\ WorthInv /\ FiledInv
  BY DEF PriceInv
<1>1. ASSUME NEW i \in Items, NEW v \in Variants \cup {NoVariant}, NEW g \in Grades, NEW rule \in Rules,
             NEW start \in Typed \cup {NoPrice}, Add(s, i, v, g, rule, start)
      PROVE  CurrentInv' /\ WorkedInv' /\ OwnedInv' /\ TypedInv'
  <2>1. i \in KnownItems' /\ Owned(item'[i]) /\ ~item'[i].over
    BY <1>0, <1>1, AddOwned
  <2>2. PICK x : item' = [item EXCEPT ![i] = x] /\ item'[i] = x
    <3>1. PICK x : item' = [item EXCEPT ![i] = x]
      BY <1>1 DEF Add
    <3>2. item'[i] = x
      BY <1>0, <3>1 DEF TypeInv, Tables
    <3>3. QED
      BY <3>1, <3>2
  <2>3. hand' = hand /\ sess' = sess /\ sess[s].pc = "idle" /\ UNCHANGED <<worth, filed>>
    BY <1>1 DEF Add, Ask
  <2>4. Owned(x)'
    BY <2>1, <2>2, <2>3 DEF Owned, Backed
  <2>5. OwnedInv' /\ TypedInv'
    BY <2>1, <2>2, <2>3, <2>4, ItemWritten
  <2>6. \A t \in Sessions : sess'[t].pc = "idle"
    BY <2>3 DEF OneRequest
  <2>7. QED
    BY <2>5, <2>6 DEF CurrentInv, Current, WorkedInv, Worked
<1>2. ASSUME NEW i \in KnownItems, NEW v \in Variants, NEW r,
             r.i = i, r.seen = item[i],
             \/ r.pc = "saveWrite"
             \/ r.pc = "replaceWrite" /\ r.form.variant = v /\ r.price = Replacing(i, v),
             sess' = [sess EXCEPT ![s] = r], UNCHANGED <<item, hand, worth>>
      PROVE  CurrentInv' /\ WorkedInv' /\ OwnedInv' /\ TypedInv'
  <2>1. Worked(r)'
    <3>1. SUFFICES ASSUME r.pc = "replaceWrite", ~r.seen.over PROVE Worked(r)'
      BY DEF Worked
    <3>2. PICK m \in worth[v][item[i].grade] : Replacing(i, v) = Resolve(m, <<item[i].mode, item[i].pct>>, NoPrice)
      BY <1>0, <1>2, <3>1, ReplacingOwned
    <3>3. m \in worth'[r.form.variant][r.seen.grade] /\ r.price = Resolve(m, <<r.seen.mode, r.seen.pct>>, NoPrice)
      BY <1>2, <3>1, <3>2
    <3>4. QED
      BY <3>3 DEF Worked
  <2>2. QED
    BY <1>2, <2>1, OneMoves, ItemsKept
<1>3. ASSUME NEW i \in Items, NEW v \in Variants, ReplaceStart(s, i, v)
      PROVE  CurrentInv' /\ WorkedInv' /\ OwnedInv' /\ TypedInv'
  <2>1. UNCHANGED <<item, hand, worth>>
    BY <1>3 DEF ReplaceStart
  <2>2. PICK r \in ReqRec :
           /\ r.pc = "replaceWrite" /\ r.i = i /\ r.seen = item[i] /\ r.form.variant = v
           /\ r.price = Replacing(i, v) /\ i \in KnownItems
           /\ Holds(r, KnownItems, Rowed) /\ sess' = [sess EXCEPT ![s] = r]
    BY <1>0, <1>3, ReplaceStartIs
  <2>3. QED
    BY <1>2, <2>1, <2>2
<1>4. ASSUME NEW i \in Items, NEW v \in Variants \cup {NoVariant}, NEW g \in Grades, NEW rule \in Rules,
             NEW typed \in Typed \cup {shown[i], NoPrice},
             SaveStart(s, i, [variant |-> v, grade |-> g, rule |-> rule, typed |-> typed, shown |-> shown[i]])
      PROVE  CurrentInv' /\ WorkedInv' /\ OwnedInv' /\ TypedInv'
  <2>1. UNCHANGED <<item, hand, worth>>
    BY <1>4 DEF SaveStart
  <2>2. PICK r \in ReqRec :
           /\ r.i = i /\ r.seen = item[i] /\ r.saving /\ i \in KnownItems
           /\ \/ r.pc = "saveWrite"
              \/ r.pc = "replaceWrite" /\ r.form.variant = v /\ r.price = Replacing(i, v) /\ v \in Variants
           /\ Holds(r, KnownItems, Rowed) /\ sess' = [sess EXCEPT ![s] = r]
    BY <1>0, <1>4, SaveStartIs
  <2>3. CASE r.pc = "replaceWrite"
    BY <1>2, <2>1, <2>2, <2>3
  <2>4. CASE r.pc = "saveWrite"
    <3>1. Worked(r)'
      BY <2>4 DEF Worked
    <3>2. QED
      BY <2>1, <2>2, <3>1, OneMoves, ItemsKept
  <2>5. QED
    BY <2>2, <2>3, <2>4
<1>6. ASSUME NEW todo \in SUBSET Items, NEW cents \in Typed, AllStart(s, todo, cents)
      PROVE  CurrentInv' /\ WorkedInv' /\ OwnedInv' /\ TypedInv'
  <2>1. UNCHANGED <<item, hand>>
    BY <1>6 DEF AllStart
  <2>2. PICK r : r.pc = "allItem" /\ sess' = [sess EXCEPT ![s] = r]
    BY <1>0, <1>6, AllStartType
  <2>3. QED
    BY <2>1, <2>2, OthersMove, ItemsKept
<1>7. ASSUME NEW taken \in SUBSET Items, CommitStart(s, taken)
      PROVE  CurrentInv' /\ WorkedInv' /\ OwnedInv' /\ TypedInv'
  <2>1. UNCHANGED <<item, hand>>
    BY <1>7 DEF CommitStart
  <2>2. PICK r : r.pc = "commitTx" /\ sess' = [sess EXCEPT ![s] = r]
    BY <1>0, <1>7, CommitStartType
  <2>3. QED
    BY <2>1, <2>2, OthersMove, ItemsKept
<1>8. ASSUME NEW todo \in SUBSET Items, NEW rule \in Rules, BulkStart(s, todo, rule)
      PROVE  CurrentInv' /\ WorkedInv' /\ OwnedInv' /\ TypedInv'
  <2>1. UNCHANGED <<item, hand>>
    BY <1>8 DEF BulkStart
  <2>2. PICK r : r.pc = "bulkRow" /\ sess' = [sess EXCEPT ![s] = r]
    BY <1>0, <1>8, BulkStartType
  <2>3. QED
    BY <2>1, <2>2, OthersMove, ItemsKept
<1>9. ASSUME NEW account, Settings(s, account)
      PROVE  CurrentInv' /\ WorkedInv' /\ OwnedInv' /\ TypedInv'
  <2>1. UNCHANGED <<item, hand, sess>>
    BY <1>9 DEF Settings
  <2>2. QED
    BY <2>1, ItemsKept, NoneMoves
<1>10. QED
  BY <1>1, <1>3, <1>4, <1>6, <1>7, <1>8, <1>9 DEF Requests

LEMMA PriceSteps ==
    ASSUME OneRequest, PriceInv, Added, NEW s \in Sessions, Steps(s) \/ Die(s), TypeInv'
    PROVE  CurrentInv' /\ WorkedInv' /\ OwnedInv' /\ TypedInv'
<1>0. TypeInv /\ WorthInv /\ FiledInv /\ Current(sess[s]) /\ Worked(sess[s])
  BY DEF PriceInv, CurrentInv, WorkedInv
<1>2. ASSUME Finish(s) PROVE CurrentInv' /\ WorkedInv'
  <2>1. PICK r : r = Idle
    OBVIOUS
  <2>2. sess' = [sess EXCEPT ![s] = r] /\ r.pc = "idle"
    BY <1>2, <2>1, IdleType DEF Finish
  <2>3. QED
    BY <2>2, OthersMove
<1>3. CASE ReplaceWrite(s)
  <2>1. PICK i \in KnownItems, x \in ItemRec, r \in ReqRec :
          /\ i = sess[s].i
          /\ x.variant = sess[s].form.variant /\ x.variant \in Variants
          /\ x.grade = item[i].grade /\ x.mode = item[i].mode /\ x.pct = item[i].pct
          /\ x.over = item[i].over
          /\ x.price = IF sess[s].seen.over THEN item[i].price ELSE sess[s].price
          /\ item' = [item EXCEPT ![i] = x]
          /\ r.pc \in {"saveRead", "idle"} /\ Holds(r, KnownItems, Rowed) /\ sess' = [sess EXCEPT ![s] = r]
    BY <1>0, <1>3, ReplaceWriteIs
  <2>2. item[i] = sess[s].seen /\ sess[s].pc = "replaceWrite" /\ hand' = hand
    BY <1>0, <1>3, <2>1 DEF Current, ReplaceWrite
  <2>3. Owned(x)
    <3>1. CASE x.over
      BY <3>1 DEF Owned
    <3>2. CASE ~x.over
      <4>1. PICK m \in worth[sess[s].form.variant][sess[s].seen.grade] :
               sess[s].price = Resolve(m, <<sess[s].seen.mode, sess[s].seen.pct>>, NoPrice)
        BY <1>0, <2>1, <2>2, <3>2 DEF Worked
      <4>2. m \in worth[x.variant][x.grade] /\ x.price = Resolve(m, <<x.mode, x.pct>>, NoPrice)
        BY <2>1, <2>2, <3>2, <4>1
      <4>3. QED
        BY <4>2 DEF Owned, Backed, Fair
    <3>3. QED
      BY <3>1, <3>2
  <2>4. Owned(x)'
    BY <2>3, OwnedLater
  <2>5. x.over => x.price = hand'[i]
    BY <2>1, <2>2 DEF PriceInv, TypedInv
  <2>6. i \in KnownItems'
    BY <2>1, NoRecIs DEF KnownItems, PriceInv, TypeInv, Tables
  <2>7. OwnedInv' /\ TypedInv'
    BY <2>1, <2>2, <2>4, <2>5, <2>6, ItemWritten
  <2>8. QED
    BY <2>1, <2>7, OthersMove
<1>4. CASE SaveRead(s)
  <2>1. PICK r : r.pc = "saveWrite" /\ r.seen = item[r.i] /\ sess' = [sess EXCEPT ![s] = r]
    BY <1>0, <1>4, SaveReadIs
  <2>2. UNCHANGED <<item, hand>>
    BY <1>4 DEF SaveRead
  <2>3. Worked(r)'
    BY <2>1 DEF Worked
  <2>4. QED
    BY <2>1, <2>2, <2>3, OneMoves, ItemsKept
<1>5. CASE SaveWrite(s)
  <2>1. PICK i \in KnownItems, x \in ItemRec, f \in Forms :
          /\ i = sess[s].i /\ f = sess[s].form /\ f.rule \in Rules /\ f.grade \in Grades
          /\ x.variant = item[i].variant /\ x.grade = f.grade
          /\ x.mode = f.rule[1] /\ x.pct = f.rule[2]
          /\ x.price = Given(sess[s].seen, f) /\ (x.over <=> f.rule[1] # "fixed" /\ Edited(f))
          /\ item' = [item EXCEPT ![i] = x]
          /\ hand' = [hand EXCEPT ![i] = IF Edited(f) THEN f.typed ELSE @]
          /\ hand' \in [Items -> Prices]
          /\ Finish(s)
    BY <1>0, <1>5, SaveWriteIs
  <2>2. item[i] = sess[s].seen
    BY <1>0, <1>5, <2>1 DEF Current, SaveWrite
  <2>3. Owned(x)
    <3>1. SUFFICES ASSUME x.variant # NoVariant, ~x.over, x.mode # "fixed", x.price # NoPrice PROVE Backed(x)
      BY DEF Owned
    <3>2. ~Edited(f) /\ f.rule[1] # "fixed" /\ x.variant \in Variants /\ f.rule = <<x.mode, x.pct>>
      BY <2>1, <3>1, RuleType DEF IsRule, ItemRec
    <3>3. PICK m \in worth[x.variant][x.grade] : Fair(x.price, Resolve(m, f.rule, NoPrice))
      <4>0. PICK v \in Variants : v = x.variant
        BY <3>2
      <4>1. PICK seen : v = x.variant /\ seen = sess[s].seen
        BY <4>0
      <4>2. seen.variant = v /\ v # NoVariant /\ f.rule \in Rules /\ f.grade \in Grades
        BY <2>1, <2>2, <3>1, <4>1
      <4>3. Given(seen, f) = NoPrice \/ \E m \in worth[v][f.grade] : Fair(Given(seen, f), Resolve(m, f.rule, NoPrice))
        BY <1>0, <3>2, <4>2, SaveOwned
      <4>4. QED
        BY <2>1, <3>1, <4>1, <4>3
    <3>4. QED
      BY <3>2, <3>3 DEF Backed
  <2>4. Owned(x)'
    BY <2>3, OwnedLater
  <2>5. i \in Items /\ \A j \in Items : hand'[j] = IF j = i /\ Edited(f) THEN f.typed ELSE hand[j]
    BY <1>0, <2>1 DEF KnownItems, TypeInv, Tables
  <2>6. x.over => x.price = hand'[i]
    BY <2>1, <2>5 DEF Given
  <2>7. i \in KnownItems'
    BY <2>1, NoRecIs DEF KnownItems, PriceInv, TypeInv, Tables
  <2>8. OwnedInv' /\ TypedInv'
    BY <2>1, <2>4, <2>5, <2>6, <2>7, ItemWritten
  <2>9. QED
    BY <1>2, <2>1, <2>8
<1>6. CASE AllItem(s)
  <2>1. PICK i \in KnownItems, x \in ItemRec, r \in ReqRec :
          /\ x.price = sess[s].price /\ x.over = TRUE
          /\ item' = [item EXCEPT ![i] = x]
          /\ hand' = [hand EXCEPT ![i] = x.price] /\ hand' \in [Items -> Prices]
          /\ r.pc \in {"allItem", "idle"} /\ Holds(r, KnownItems, Rowed) /\ sess' = [sess EXCEPT ![s] = r]
    BY <1>0, <1>6, AllItemIs
  <2>2. Owned(x)'
    BY <2>1 DEF Owned
  <2>3. hand'[i] = x.price /\ \A j \in Items : j # i => hand'[j] = hand[j]
    BY <1>0, <2>1 DEF KnownItems, TypeInv, Tables
  <2>4. i \in KnownItems'
    BY <2>1, NoRecIs DEF KnownItems, PriceInv, TypeInv, Tables
  <2>5. OwnedInv' /\ TypedInv'
    BY <2>1, <2>2, <2>3, <2>4, ItemWritten
  <2>6. QED
    BY <2>1, <2>5, OthersMove
<1>7. CASE CommitTx(s) \/ Die(s)
  <2>1. UNCHANGED <<item, hand>> /\ Finish(s)
    BY <1>7 DEF CommitTx, Die
  <2>2. QED
    BY <1>2, <2>1, ItemsKept
<1>8. CASE BulkRow(s)
  <2>1. UNCHANGED <<item, hand>>
    BY <1>8 DEF BulkRow
  <2>2. PICK r : r.pc \in {"bulkRow", "idle"} /\ sess' = [sess EXCEPT ![s] = r]
    BY <1>0, <1>8, BulkRowIs
  <2>3. QED
    BY <2>1, <2>2, OthersMove, ItemsKept
<1>9. QED
  BY <1>3, <1>4, <1>5, <1>6, <1>7, <1>8 DEF Steps

LEMMA PriceNext == OneRequest /\ PriceInv /\ [Next]_vars => PriceInv'
<1> SUFFICES ASSUME OneRequest, PriceInv, [Next]_vars PROVE PriceInv'
  OBVIOUS
<1>1. TypeInv' /\ WorthInv' /\ FiledInv' /\ Added
  BY TypeNext, WorthNext DEF PriceInv
<1>2. ASSUME UNCHANGED <<item, hand, sess>> PROVE CurrentInv' /\ WorkedInv' /\ OwnedInv' /\ TypedInv'
  BY <1>1, <1>2, ItemsKept, NoneMoves
<1>3. UNCHANGED vars => UNCHANGED <<item, hand, sess>>
  BY DEF vars
<1>4. \A i : Open(i) => UNCHANGED <<item, hand, sess>>
  BY DEF Open
<1>5. \A v, g, m : MarketMoves(v, g, m) => UNCHANGED <<item, hand, sess>>
  BY DEF MarketMoves
<1>6. CurrentInv' /\ WorkedInv' /\ OwnedInv' /\ TypedInv'
  BY <1>1, <1>2, <1>3, <1>4, <1>5, PriceRequests, PriceSteps DEF Next
<1>7. QED
  BY <1>1, <1>6 DEF PriceInv

\* Where requests come one at a time, a price flagged as the seller's own is the one they
\* typed last, whatever was replaced, re-ruled, filed or stopped half way since.
THEOREM PricingOverrideIsTyped == OneRequest /\ Spec => []OverrideIsTyped
<1>1. PriceInv => OverrideIsTyped
  BY Stated DEF PriceInv
<1>2. OneRequest => OneRequest'
  BY DEF OneRequest
<1>3. QED
  BY <1>1, <1>2, PriceInit, PriceNext, PTL DEF Spec

\* And an automatic price comes, by the item's own rule, from what its printing was worth at
\* its grade, or is a price that printing was filed at, raised to a floor or not.
THEOREM PricingPriceOfPrinting == OneRequest /\ Spec => []PriceOfPrinting
<1>1. PriceInv => PriceOfPrinting
  BY Stated DEF PriceInv
<1>2. OneRequest => OneRequest'
  BY DEF OneRequest
<1>3. QED
  BY <1>1, <1>2, PriceInit, PriceNext, PTL DEF Spec

-----------------------------------------------------------------------------
(* The public site: the daily price sync and the catalog search over the    *)
(* rows it leaves, at whatever moment a visitor searches.                   *)

\* What the code is run on.
SiteHolds == SyncHolds /\ SearchHolds

LEMMA AsRun == SiteHolds
  BY PriceSyncAssumption, SearchAssumption DEF SiteHolds

Stops == {"idle", "set", "fetch", "card", "price", "delete", "insert", "spread", "demo"}
Writing == {"delete", "insert", "spread", "demo"}
PriceLists == {<<>>} \cup UNION {[ps -> [SubTypes -> Nat]] : ps \in SUBSET Products}
SyncRec ==
    [at : Stops, sets : Seq(AllSets), read : SUBSET {"products", "prices"},
     products : SUBSET Products, prices : PriceLists, day : Nat, cards : SUBSET Cards,
     card : Cards \cup {None}, finishes : SUBSET Finishes, subs : SUBSET SubTypes,
     sub : SubTypes \cup {None}]

\* A sync in a set has that set; one at a card has the card, and one at a price its sub-type.
SyncTypes ==
    /\ day \in Nat /\ mirror \in Mirrors
    /\ group \in [AllSets -> Groups \cup {None}]
    /\ product \in [Cards -> Products \cup {None}]
    /\ finishes \in [Cards -> SUBSET Finishes]
    /\ sync \in SyncRec
    /\ sync.at \notin {"idle", "set"} => sync.sets # <<>>
    /\ sync.at \in Writing \cup {"price"} => sync.card \in Cards
    /\ sync.at \in Writing => sync.sub \in SubTypes

\* The rows of today of the printing the sync is at, and what is there between its statements.
Todays(s, r) == r.card = s.card /\ r.finish = FinishOf[s.sub] /\ r.day = s.day /\ ~r.demo
Between(s, rs, cents) ==
    /\ s.at = "insert" => \A r \in rs : ~Todays(s, r)
    /\ s.at = "spread" => /\ \A r \in rs : Todays(s, r) => r.kind # "spread"
                          /\ \E r \in rs : Todays(s, r) /\ r.kind = "history" /\ r.cents = cents

\* The printing a sub-type stands for has one of the day's prices and no synthetic one.
HasPrice(rs, c, t, list, d) ==
    LET here == {r \in rs : r.card = c /\ r.finish = FinishOf[t] /\ r.kind = "market" /\ r.grade = None}
    IN  /\ \A r \in here : ~r.demo
        /\ \E r \in here : r.day = d /\ \E u \in SubTypes : FinishOf[u] = FinishOf[t] /\ r.cents = list[u]

PricedBy(list) == {u \in SubTypes : list[u] > 0}
OnOffer(s, p) == p \in s.products \cap DOMAIN s.prices

\* The cards of the set the sync has left behind are priced; the one it is at is, but for the
\* sub-types to come and the printing whose rows are being replaced.
Behind(s, rs, pr) ==
    s.at \in Writing \cup {"card", "price"} =>
        \A c \in Cards :
            (SetOf[c] = Head(s.sets) /\ c \notin s.cards /\ (s.at = "card" \/ c # s.card) /\ OnOffer(s, pr[c]))
                => \A t \in PricedBy(s.prices[pr[c]]) : HasPrice(rs, c, t, s.prices[pr[c]], s.day)
AtCard(s, rs, p) ==
    (s.at \in Writing \cup {"price"} /\ OnOffer(s, p)) =>
        \A t \in PricedBy(s.prices[p]) :
            \/ t \in s.subs
            \/ s.at \in Writing /\ FinishOf[t] = FinishOf[s.sub]
            \/ HasPrice(rs, s.card, t, s.prices[p], s.day)
Written(s, rs, cents) ==
    s.at \in {"spread", "demo"} =>
        \E r \in rs : Todays(s, r) /\ r.kind = "market" /\ r.grade = None /\ r.cents = cents

PriceFacts(s, rs, pr) ==
    /\ Between(s, rs, s.prices[pr[s.card]][s.sub])
    /\ Behind(s, rs, pr)
    /\ AtCard(s, rs, pr[s.card])
    /\ Written(s, rs, s.prices[pr[s.card]][s.sub])

SyncInv == SyncTypes /\ Once(rows) /\ PriceFacts(sync, rows, product)

-----------------------------------------------------------------------------
(* A record of the sync, field by field.                                    *)

LEMMA SyncFields ==
    ASSUME NEW w \in SyncRec
    PROVE  w = [at |-> w.at, sets |-> w.sets, read |-> w.read, products |-> w.products,
                prices |-> w.prices, day |-> w.day, cards |-> w.cards, card |-> w.card,
                finishes |-> w.finishes, subs |-> w.subs, sub |-> w.sub]
  BY DEF SyncRec

LEMMA IdleFits == Resting \in SyncRec
<1>1. <<>> \in PriceLists
  BY DEF PriceLists
<1>2. <<>> \in Seq(AllSets)
  OBVIOUS
<1> QED
  BY <1>1, <1>2 DEF Resting, SyncRec, Stops

\* The sync goes on to its next statement, and holds what it held.
Moved(v, w, at) ==
    /\ v.at = at /\ v.sets = w.sets /\ v.read = w.read /\ v.products = w.products
    /\ v.prices = w.prices /\ v.day = w.day /\ v.cards = w.cards /\ v.card = w.card
    /\ v.finishes = w.finishes /\ v.subs = w.subs /\ v.sub = w.sub

LEMMA MovedFits ==
    ASSUME NEW w \in SyncRec, NEW at \in Stops
    PROVE  [w EXCEPT !.at = at] \in SyncRec /\ Moved([w EXCEPT !.at = at], w, at)
  BY DEF SyncRec, Moved

\* One field of the sync at a time.
DayPut(v, w, x) ==
    /\ v.at = w.at /\ v.sets = w.sets /\ v.read = w.read /\ v.products = w.products
    /\ v.prices = w.prices /\ v.day = x /\ v.cards = w.cards /\ v.card = w.card
    /\ v.finishes = w.finishes /\ v.subs = w.subs /\ v.sub = w.sub
CardsPut(v, w, x) ==
    /\ v.at = w.at /\ v.sets = w.sets /\ v.read = w.read /\ v.products = w.products
    /\ v.prices = w.prices /\ v.day = w.day /\ v.cards = x /\ v.card = w.card
    /\ v.finishes = w.finishes /\ v.subs = w.subs /\ v.sub = w.sub
CardPut(v, w, x) ==
    /\ v.at = w.at /\ v.sets = w.sets /\ v.read = w.read /\ v.products = w.products
    /\ v.prices = w.prices /\ v.day = w.day /\ v.cards = w.cards /\ v.card = x
    /\ v.finishes = w.finishes /\ v.subs = w.subs /\ v.sub = w.sub
FinishesPut(v, w, x) ==
    /\ v.at = w.at /\ v.sets = w.sets /\ v.read = w.read /\ v.products = w.products
    /\ v.prices = w.prices /\ v.day = w.day /\ v.cards = w.cards /\ v.card = w.card
    /\ v.finishes = x /\ v.subs = w.subs /\ v.sub = w.sub
SubsPut(v, w, x) ==
    /\ v.at = w.at /\ v.sets = w.sets /\ v.read = w.read /\ v.products = w.products
    /\ v.prices = w.prices /\ v.day = w.day /\ v.cards = w.cards /\ v.card = w.card
    /\ v.finishes = w.finishes /\ v.subs = x /\ v.sub = w.sub
SubPut(v, w, x) ==
    /\ v.at = w.at /\ v.sets = w.sets /\ v.read = w.read /\ v.products = w.products
    /\ v.prices = w.prices /\ v.day = w.day /\ v.cards = w.cards /\ v.card = w.card
    /\ v.finishes = w.finishes /\ v.subs = w.subs /\ v.sub = x

LEMMA DayFits ==
    ASSUME NEW w \in SyncRec, NEW x \in Nat
    PROVE  [w EXCEPT !.day = x] \in SyncRec /\ DayPut([w EXCEPT !.day = x], w, x)
  BY DEF SyncRec, DayPut

LEMMA CardsFits ==
    ASSUME NEW w \in SyncRec, NEW x \in SUBSET Cards
    PROVE  [w EXCEPT !.cards = x] \in SyncRec /\ CardsPut([w EXCEPT !.cards = x], w, x)
  BY DEF SyncRec, CardsPut

LEMMA CardFits ==
    ASSUME NEW w \in SyncRec, NEW x \in Cards \cup {None}
    PROVE  [w EXCEPT !.card = x] \in SyncRec /\ CardPut([w EXCEPT !.card = x], w, x)
  BY DEF SyncRec, CardPut

LEMMA FinishesFits ==
    ASSUME NEW w \in SyncRec, NEW x \in SUBSET Finishes
    PROVE  [w EXCEPT !.finishes = x] \in SyncRec /\ FinishesPut([w EXCEPT !.finishes = x], w, x)
  BY DEF SyncRec, FinishesPut

LEMMA SubsFits ==
    ASSUME NEW w \in SyncRec, NEW x \in SUBSET SubTypes
    PROVE  [w EXCEPT !.subs = x] \in SyncRec /\ SubsPut([w EXCEPT !.subs = x], w, x)
  BY DEF SyncRec, SubsPut

LEMMA SubFits ==
    ASSUME NEW w \in SyncRec, NEW x \in SubTypes \cup {None}
    PROVE  [w EXCEPT !.sub = x] \in SyncRec /\ SubPut([w EXCEPT !.sub = x], w, x)
  BY DEF SyncRec, SubPut

LEMMA SetsLeft ==
    ASSUME NEW ss \in Seq(AllSets), NEW at \in Stops
    PROVE  /\ [Resting EXCEPT !.at = at, !.sets = ss] \in SyncRec
           /\ [Resting EXCEPT !.at = at, !.sets = ss].at = at
           /\ [Resting EXCEPT !.at = at, !.sets = ss].sets = ss
<1>1. PICK w \in SyncRec : w = Resting
  BY IdleFits
<1>2. /\ [w EXCEPT !.at = at, !.sets = ss] \in SyncRec
      /\ [w EXCEPT !.at = at, !.sets = ss].at = at
      /\ [w EXCEPT !.at = at, !.sets = ss].sets = ss
  BY DEF SyncRec
<1> QED
  BY <1>1, <1>2

LEMMA OutsideASet ==
    ASSUME NEW v, NEW rs, NEW pr, v.at \in {"idle", "set", "fetch"}
    PROVE  PriceFacts(v, rs, pr)
  BY DEF PriceFacts, Between, Behind, AtCard, Written, Writing

-----------------------------------------------------------------------------
(* The statements that replace a price.                                     *)

\* The day's rows of the printing go.
LEMMA DeletePriceKeeps ==
    ASSUME NEW w, NEW v, NEW rs, NEW pr, NEW left, w.at = "delete", Moved(v, w, "insert"),
           left = {r \in rs : ~Todays(w, r)}, Once(rs), PriceFacts(w, rs, pr)
    PROVE  Once(left) /\ PriceFacts(v, left, pr)
<1>1. Once(left)
  BY DEF Once, Todays
<1>2. Between(v, left, v.prices[pr[v.card]][v.sub])
  BY DEF Between, Todays, Moved
<1>3. ASSUME NEW c \in Cards, NEW t \in SubTypes, NEW list, HasPrice(rs, c, t, list, w.day),
             c # w.card \/ FinishOf[t] # FinishOf[w.sub]
      PROVE  HasPrice(left, c, t, list, v.day)
  BY <1>3 DEF HasPrice, Todays, Moved
<1>4. Behind(v, left, pr)
  BY <1>3 DEF Behind, PriceFacts, Moved, Writing, PricedBy, OnOffer
<1>5. AtCard(v, left, pr[v.card])
  <2>1. ASSUME NEW t \in SubTypes, NEW list, HasPrice(rs, w.card, t, list, w.day),
               FinishOf[t] # FinishOf[w.sub]
        PROVE  HasPrice(left, w.card, t, list, v.day)
    BY <2>1 DEF HasPrice, Todays, Moved
  <2> QED
    BY <2>1 DEF AtCard, PriceFacts, Moved, Writing, PricedBy, OnOffer
<1>6. Written(v, left, v.prices[pr[v.card]][v.sub])
  BY DEF Written, Moved
<1> QED
  BY <1>1, <1>2, <1>4, <1>5, <1>6 DEF PriceFacts

\* Two rows of a printing and a day that have none yet are each other's pair.
LEMMA WithAPair ==
    ASSUME NEW rs, NEW a, NEW b, Once(rs), ~a.demo, ~b.demo, a.kind = "market", b.kind = "history",
           a.card = b.card, a.finish = b.finish, a.day = b.day, a.cents = b.cents,
           \A r \in rs : ~(r.card = a.card /\ r.finish = a.finish /\ r.day = a.day /\ ~r.demo)
    PROVE  Once(rs \cup {a, b})
<1> DEFINE all == rs \cup {a, b}
<1>1. ASSUME NEW r \in all, ~r.demo, r.day # SeedDay
      PROVE  \A q \in all : (q.card = r.card /\ q.finish = r.finish /\ q.day = r.day
                                /\ q.kind = r.kind /\ ~q.demo) => q = r
  <2>1. CASE r \in rs
    BY <1>1, <2>1 DEF Once
  <2>2. CASE r \in {a, b}
    BY <1>1, <2>2
  <2> QED
    BY <2>1, <2>2
<1>2. ASSUME NEW r \in all, ~r.demo, r.day # SeedDay
      PROVE  \E q \in all : /\ q.kind = (IF r.kind = "history" THEN "market" ELSE "history")
                            /\ q.card = r.card /\ q.finish = r.finish /\ q.day = r.day
                            /\ q.cents = r.cents /\ ~q.demo
  <2>1. CASE r \in rs
    BY <1>2, <2>1 DEF Once
  <2>2. CASE r = a
    BY <2>2
  <2>3. CASE r = b
    BY <2>3
  <2> QED
    BY <2>1, <2>2, <2>3
<1> QED
  BY <1>1, <1>2 DEF Once

\* A row of a kind that is not there yet, with a history row of its cents, may be added.
LEMMA WithARow ==
    ASSUME NEW rs, NEW a, Once(rs), ~a.demo, a.kind # "history",
           \A r \in rs : ~(r.card = a.card /\ r.finish = a.finish /\ r.day = a.day /\ r.kind = a.kind /\ ~r.demo),
           \E r \in rs : r.card = a.card /\ r.finish = a.finish /\ r.day = a.day /\ ~r.demo
                            /\ r.kind = "history" /\ r.cents = a.cents
    PROVE  Once(rs \cup {a})
<1> DEFINE all == rs \cup {a}
<1>1. ASSUME NEW r \in all, ~r.demo, r.day # SeedDay
      PROVE  \A q \in all : (q.card = r.card /\ q.finish = r.finish /\ q.day = r.day
                                /\ q.kind = r.kind /\ ~q.demo) => q = r
  <2>1. CASE r \in rs
    BY <1>1, <2>1 DEF Once
  <2>2. CASE r = a
    BY <1>1, <2>2
  <2> QED
    BY <2>1, <2>2
<1>2. ASSUME NEW r \in all, ~r.demo, r.day # SeedDay
      PROVE  \E q \in all : /\ q.kind = (IF r.kind = "history" THEN "market" ELSE "history")
                            /\ q.card = r.card /\ q.finish = r.finish /\ q.day = r.day
                            /\ q.cents = r.cents /\ ~q.demo
  <2>1. CASE r \in rs
    BY <1>2, <2>1 DEF Once
  <2>2. CASE r = a
    BY <2>2
  <2> QED
    BY <2>1, <2>2
<1> QED
  BY <1>1, <1>2 DEF Once

\* A price is there as long as no synthetic one is added.
LEMMA PriceStays ==
    ASSUME NEW rs, NEW more, NEW c, NEW t, NEW list, NEW d, HasPrice(rs, c, t, list, d), \A r \in more : ~r.demo
    PROVE  HasPrice(rs \cup more, c, t, list, d)
  BY DEF HasPrice

\* The market price and the history observation of the printing are written.
LEMMA InsertPriceKeeps ==
    ASSUME NEW w, NEW v, NEW rs, NEW pr, NEW cents, NEW m, NEW n, w.at = "insert", Moved(v, w, "spread"),
           w.sub \in SubTypes, cents = w.prices[pr[w.card]][w.sub],
           NEW market1, market1 = Row(w.card, FinishOf[w.sub], w.day, "market", cents, m),
           NEW history1, history1 = Row(w.card, FinishOf[w.sub], w.day, "history", cents, n),
           Once(rs), PriceFacts(w, rs, pr)
    PROVE  Once(rs \cup {market1, history1}) /\ PriceFacts(v, rs \cup {market1, history1}, pr)
<1>1. \A r \in rs : ~Todays(w, r)
  BY DEF PriceFacts, Between
<1>2. /\ Todays(w, market1) /\ market1.kind = "market" /\ market1.cents = cents /\ market1.grade = None
      /\ Todays(w, history1) /\ history1.kind = "history" /\ history1.cents = cents
  BY DEF Row, Todays
<1>3. Once(rs \cup {market1, history1})
  <2>1. /\ ~market1.demo /\ ~history1.demo /\ market1.kind = "market" /\ history1.kind = "history"
        /\ market1.card = history1.card /\ market1.finish = history1.finish
        /\ market1.day = history1.day /\ market1.cents = history1.cents
    BY <1>2 DEF Todays
  <2>2. \A r \in rs : ~(r.card = market1.card /\ r.finish = market1.finish /\ r.day = market1.day /\ ~r.demo)
    BY <1>1, <1>2 DEF Todays
  <2> QED
    BY <2>1, <2>2, WithAPair
<1>4. Between(v, rs \cup {market1, history1}, v.prices[pr[v.card]][v.sub])
  <2>1. v.at = "spread" /\ v.prices[pr[v.card]][v.sub] = cents
    BY DEF Moved
  <2>2. \A r : Todays(v, r) <=> Todays(w, r)
    BY DEF Moved, Todays
  <2> QED
    BY <1>1, <1>2, <2>1, <2>2 DEF Between
<1>5. ASSUME NEW c, NEW t \in SubTypes, NEW list, HasPrice(rs, c, t, list, w.day)
      PROVE  HasPrice(rs \cup {market1, history1}, c, t, list, v.day)
  <2>1. v.day = w.day /\ \A r \in {market1, history1} : ~r.demo
    BY <1>2 DEF Moved, Todays
  <2> QED
    BY <1>5, <2>1, PriceStays
<1>6. Behind(v, rs \cup {market1, history1}, pr)
  BY <1>5 DEF Behind, PriceFacts, Moved, Writing, PricedBy, OnOffer
<1>7. AtCard(v, rs \cup {market1, history1}, pr[v.card])
  BY <1>5 DEF AtCard, PriceFacts, Moved, Writing, PricedBy, OnOffer
<1>8. Written(v, rs \cup {market1, history1}, v.prices[pr[v.card]][v.sub])
  BY <1>2 DEF Written, Moved, Todays
<1> QED
  BY <1>3, <1>4, <1>6, <1>7, <1>8 DEF PriceFacts

\* So are its low, mid and high.
LEMMA InsertSpreadKeeps ==
    ASSUME NEW w, NEW v, NEW rs, NEW pr, NEW cents, NEW n, w.at = "spread", Moved(v, w, "demo"),
           w.sub \in SubTypes, cents = w.prices[pr[w.card]][w.sub],
           NEW spread1, spread1 = Row(w.card, FinishOf[w.sub], w.day, "spread", cents, n),
           Once(rs), PriceFacts(w, rs, pr)
    PROVE  Once(rs \cup {spread1}) /\ PriceFacts(v, rs \cup {spread1}, pr)
<1>1. /\ \A r \in rs : Todays(w, r) => r.kind # "spread"
      /\ \E r \in rs : Todays(w, r) /\ r.kind = "history" /\ r.cents = cents
  BY DEF PriceFacts, Between
<1>2. Todays(w, spread1) /\ spread1.kind = "spread" /\ spread1.cents = cents
  BY DEF Row, Todays
<1>3. Once(rs \cup {spread1})
  BY <1>1, <1>2, WithARow DEF Todays
<1>4. Between(v, rs \cup {spread1}, v.prices[pr[v.card]][v.sub])
  BY DEF Between, Moved
<1>5. ASSUME NEW c, NEW t \in SubTypes, NEW list, HasPrice(rs, c, t, list, w.day)
      PROVE  HasPrice(rs \cup {spread1}, c, t, list, v.day)
  <2>1. v.day = w.day /\ \A r \in {spread1} : ~r.demo
    BY <1>2 DEF Moved, Todays
  <2> QED
    BY <1>5, <2>1, PriceStays
<1>6. Behind(v, rs \cup {spread1}, pr)
  BY <1>5 DEF Behind, PriceFacts, Moved, Writing, PricedBy, OnOffer
<1>7. AtCard(v, rs \cup {spread1}, pr[v.card])
  BY <1>5 DEF AtCard, PriceFacts, Moved, Writing, PricedBy, OnOffer
<1>8. Written(v, rs \cup {spread1}, v.prices[pr[v.card]][v.sub])
  BY DEF PriceFacts, Written, Moved, Todays
<1> QED
  BY <1>3, <1>4, <1>6, <1>7, <1>8 DEF PriceFacts

\* The synthetic market price goes: what is left is real.
LEMMA RetireKeeps ==
    ASSUME NEW w, NEW v, NEW rs, NEW pr, w.at = "demo", Moved(v, w, "price"), w.sub \in SubTypes,
           NEW left, left = {r \in rs : ~(/\ r.card = w.card /\ r.finish = FinishOf[w.sub]
                                          /\ r.demo /\ r.kind = "market" /\ r.grade = None)},
           Once(rs), PriceFacts(w, rs, pr)
    PROVE  Once(left) /\ PriceFacts(v, left, pr)
<1> DEFINE list == w.prices[pr[w.card]]
<1>1. Once(left)
  BY DEF Once
<1>2. Between(v, left, v.prices[pr[v.card]][v.sub]) /\ Written(v, left, v.prices[pr[v.card]][v.sub])
  BY DEF Between, Written, Moved
<1>3. ASSUME NEW c, NEW t \in SubTypes, NEW l, HasPrice(rs, c, t, l, w.day)
      PROVE  HasPrice(left, c, t, l, v.day)
  BY <1>3 DEF HasPrice, Moved
<1>4. Behind(v, left, pr)
  BY <1>3 DEF Behind, PriceFacts, Moved, Writing, PricedBy, OnOffer
<1>5. ASSUME NEW t \in SubTypes, FinishOf[t] = FinishOf[w.sub]
      PROVE  HasPrice(left, w.card, t, list, v.day)
  <2>1. PICK r \in rs : Todays(w, r) /\ r.kind = "market" /\ r.grade = None /\ r.cents = list[w.sub]
    BY DEF PriceFacts, Written
  <2> QED
    BY <1>5, <2>1 DEF HasPrice, Todays, Moved
<1>6. AtCard(v, left, pr[v.card])
  BY <1>3, <1>5 DEF AtCard, PriceFacts, Moved, Writing, PricedBy, OnOffer
<1> QED
  BY <1>1, <1>2, <1>4, <1>6 DEF PriceFacts

\* The sync takes the next price of the card.
LEMMA NextPriceKeeps ==
    ASSUME NEW w, NEW v, NEW rs, NEW pr, NEW t \in w.subs, w.at = "price",
           v.at = "delete", v.sub = t, v.subs = w.subs \ {t}, v.sets = w.sets, v.products = w.products,
           v.prices = w.prices, v.day = w.day, v.cards = w.cards, v.card = w.card,
           PriceFacts(w, rs, pr)
    PROVE  PriceFacts(v, rs, pr)
<1>1. Between(v, rs, v.prices[pr[v.card]][v.sub]) /\ Written(v, rs, v.prices[pr[v.card]][v.sub])
  BY DEF Between, Written
<1>2. Behind(v, rs, pr)
  BY DEF Behind, PriceFacts, Writing, OnOffer
<1>3. AtCard(v, rs, pr[v.card])
  BY DEF AtCard, PriceFacts, Writing, OnOffer
<1> QED
  BY <1>1, <1>2, <1>3 DEF PriceFacts

\* A card whose prices are all written is behind the sync.
LEMMA CardDoneKeeps ==
    ASSUME NEW w, NEW v, NEW rs, NEW pr, w.at = "price", w.subs = {}, Moved(v, w, "card"),
           PriceFacts(w, rs, pr)
    PROVE  PriceFacts(v, rs, pr)
<1>1. Between(v, rs, v.prices[pr[v.card]][v.sub]) /\ Written(v, rs, v.prices[pr[v.card]][v.sub])
  BY DEF Between, Written, Moved
<1>2. Behind(v, rs, pr)
  BY DEF Behind, AtCard, PriceFacts, Writing, OnOffer, Moved
<1>3. AtCard(v, rs, pr[v.card])
  BY DEF AtCard, Writing, Moved
<1> QED
  BY <1>1, <1>2, <1>3 DEF PriceFacts

\* A card that matches nothing is passed by: no product of the set is stored on it.
LEMMA SkipKeeps ==
    ASSUME NEW w, NEW v, NEW rs, NEW pr, NEW c \in w.cards, w.at = "card", pr[c] \notin w.products,
           v.at = "card", v.sets = w.sets, v.products = w.products, v.prices = w.prices, v.day = w.day,
           v.cards = w.cards \ {c}, v.card = w.card, PriceFacts(w, rs, pr)
    PROVE  PriceFacts(v, rs, pr)
<1>1. Between(v, rs, v.prices[pr[v.card]][v.sub]) /\ Written(v, rs, v.prices[pr[v.card]][v.sub])
  BY DEF Between, Written
<1>2. Behind(v, rs, pr)
  BY DEF Behind, PriceFacts, OnOffer
<1>3. AtCard(v, rs, pr[v.card])
  BY DEF AtCard, Writing
<1> QED
  BY <1>1, <1>2, <1>3 DEF PriceFacts

\* A card gets its product, and its prices are at hand: none of the cards behind changes.
LEMMA TakeCardKeeps ==
    ASSUME NEW w, NEW v, NEW rs, NEW pr \in [Cards -> Products \cup {None}], NEW c \in w.cards,
           c \in Cards, NEW p \in Products, w.at = "card",
           v.at = "price", v.sets = w.sets, v.products = w.products, v.prices = w.prices, v.day = w.day,
           v.cards = w.cards \ {c}, v.card = c,
           p \in DOMAIN w.prices => v.subs = PricedBy(w.prices[p]), PriceFacts(w, rs, pr),
           NEW pr2, pr2 = [pr EXCEPT ![c] = p]
    PROVE  PriceFacts(v, rs, pr2)
<1>1. Between(v, rs, v.prices[pr2[v.card]][v.sub]) /\ Written(v, rs, v.prices[pr2[v.card]][v.sub])
  BY DEF Between, Written
<1>2. Behind(v, rs, pr2)
  BY DEF Behind, PriceFacts, OnOffer
<1>3. pr2[v.card] = p
  OBVIOUS
<1>4. AtCard(v, rs, pr2[v.card])
  BY <1>3 DEF AtCard, Writing, OnOffer
<1> QED
  BY <1>1, <1>2, <1>4 DEF PriceFacts

-----------------------------------------------------------------------------
(* Steps.                                                                   *)

\* The fields of the sync when it moves on, and the types they have.
LEMMA SyncMoves ==
    ASSUME SyncTypes, NEW at \in Stops, sync' = [sync EXCEPT !.at = at]
    PROVE  sync' \in SyncRec /\ Moved(sync', sync, at)
<1>1. PICK w \in SyncRec : w = sync
  BY DEF SyncTypes
<1> QED
  BY <1>1, MovedFits

LEMMA StartKeeps == ASSUME SiteHolds, SyncInv, Start PROVE SyncInv'
<1>0. SetOrder \in Seq(AllSets)
  BY DEF SiteHolds, SyncHolds
<1>1. /\ sync' \in SyncRec /\ sync'.at = "set"
  BY <1>0, SetsLeft DEF Start, Stops
<1>2. PriceFacts(sync', rows', product')
  BY <1>1, OutsideASet
<1> QED
  BY <1>1, <1>2 DEF SyncInv, SyncTypes, Start, Writing

LEMMA OnToTheNextSet ==
    ASSUME SyncInv, sync.sets # <<>>, sync' = NextSet, rows' = rows, day' = day, mirror' = mirror,
           group' = group, product' = product, finishes' = finishes
    PROVE  SyncInv'
<1>1. Tail(sync.sets) \in Seq(AllSets)
  BY HeadTailProperties, SyncFields DEF SyncInv, SyncTypes, SyncRec
<1>2. sync' \in SyncRec /\ sync'.at = "set"
  BY <1>1, SetsLeft DEF NextSet, Stops
<1>3. PriceFacts(sync', rows', product')
  BY <1>2, OutsideASet
<1> QED
  BY <1>2, <1>3 DEF SyncInv, SyncTypes, Writing

LEMMA IdleKeeps ==
    ASSUME SyncInv, sync' = Resting, rows' = rows, day' = day, mirror' = mirror,
           group' = group, product' = product, finishes' = finishes
    PROVE  SyncInv'
<1>1. sync' \in SyncRec /\ sync'.at = "idle"
  BY IdleFits DEF Resting
<1>2. PriceFacts(sync', rows', product')
  BY <1>1, OutsideASet
<1> QED
  BY <1>1, <1>2 DEF SyncInv, SyncTypes, Writing

LEMMA ResolveGroupKeeps == ASSUME SyncInv, ResolveGroup PROVE SyncInv'
<1>1. CASE sync' = NextSet /\ UNCHANGED group
  BY <1>1, OnToTheNextSet DEF ResolveGroup
<1>2. CASE Goto("fetch") /\ group' \in [AllSets -> Groups \cup {None}]
  <2>1. sync' \in SyncRec /\ Moved(sync', sync, "fetch")
    BY <1>2, SyncMoves DEF Goto, SyncInv, Stops
  <2>2. PriceFacts(sync', rows', product')
    BY <2>1, OutsideASet DEF Moved
  <2> QED
    BY <1>2, <2>1, <2>2 DEF SyncInv, SyncTypes, ResolveGroup, Writing, Moved
<1>3. ASSUME NEW g \in Shortest(Candidates(TheSet))
      PROVE  [group EXCEPT ![TheSet] = g] \in [AllSets -> Groups \cup {None}]
  <2>1. g \in Groups
    BY DEF Shortest, Candidates
  <2> QED
    BY <2>1 DEF SyncInv, SyncTypes
<1> QED
  BY <1>1, <1>2, <1>3 DEF ResolveGroup, SyncInv, SyncTypes

LEMMA ReadProductsKeeps == ASSUME SyncInv, ReadProducts PROVE SyncInv'
<1>1. PICK w \in SyncRec : w = sync
  BY DEF SyncInv, SyncTypes
<1>2. Listed \subseteq Products
  BY DEF Listed
<1>3. /\ sync' \in SyncRec /\ sync'.at = "fetch" /\ sync'.sets = sync.sets
  BY <1>1, <1>2 DEF SyncRec, ReadProducts, At
<1>4. PriceFacts(sync', rows', product')
  BY <1>3, OutsideASet
<1> QED
  BY <1>3, <1>4 DEF SyncInv, SyncTypes, ReadProducts, At, Writing

LEMMA ReadPricesKeeps == ASSUME SiteHolds, SyncInv, ReadPrices PROVE SyncInv'
<1>1. PICK w \in SyncRec : w = sync
  BY DEF SyncInv, SyncTypes
<1>2. [p \in Listed |-> mirror[p]] \in [Listed -> [SubTypes -> Nat]] /\ Listed \in SUBSET Products
  BY DEF Listed, SiteHolds, SyncHolds, SyncInv, SyncTypes
<1>3. [p \in Listed |-> mirror[p]] \in PriceLists
  BY <1>2 DEF PriceLists
<1>4. /\ sync' \in SyncRec /\ sync'.at = "fetch" /\ sync'.sets = sync.sets
  BY <1>1, <1>3 DEF SyncRec, ReadPrices, At
<1>5. PriceFacts(sync', rows', product')
  BY <1>4, OutsideASet
<1> QED
  BY <1>4, <1>5 DEF SyncInv, SyncTypes, ReadPrices, At, Writing

\* None of the set's cards is behind.
LEMMA ReadCardsKeeps == ASSUME SyncInv, ReadCards PROVE SyncInv'
<1> DEFINE here == {c \in Cards : SetOf[c] = TheSet}
<1>1. PICK w \in SyncRec, d \in Nat, cs \in SUBSET Cards : w = sync /\ d = day /\ cs = here
  BY DEF SyncInv, SyncTypes
<1>2. sync' = [w EXCEPT !.at = "card", !.day = d, !.cards = cs]
  BY <1>1 DEF ReadCards
<1>3. PICK r1 \in SyncRec : r1 = [w EXCEPT !.at = "card"] /\ Moved(r1, w, "card")
  BY MovedFits DEF Stops
<1>4. sync' \in SyncRec /\ sync'.at = "card" /\ sync'.sets = sync.sets /\ sync'.cards = here
  <2>1. sync' = [[r1 EXCEPT !.day = d] EXCEPT !.cards = cs]
    BY <1>2, <1>3
  <2>2. PICK r2 \in SyncRec : r2 = [r1 EXCEPT !.day = d] /\ DayPut(r2, r1, d)
    BY DayFits
  <2>3. sync' = [r2 EXCEPT !.cards = cs]
    BY <2>1, <2>2
  <2>4. sync' \in SyncRec /\ CardsPut(sync', r2, cs)
    BY <2>3, CardsFits
  <2> QED
    BY <1>1, <1>3, <2>2, <2>4 DEF Moved, DayPut, CardsPut
<1>5. PriceFacts(sync', rows', product')
  BY <1>4 DEF PriceFacts, Between, Behind, AtCard, Written, Writing, TheSet
<1> QED
  BY <1>1, <1>4, <1>5 DEF SyncInv, SyncTypes, ReadCards, At, Writing

\* What a card may match is a product of the set; one that is stored on it and listed is it.
LEMMA MatchesOffered ==
    ASSUME NEW c \in Cards
    PROVE  /\ Matches(c) \subseteq sync.products
           /\ Matches(c) = {} => product[c] \notin sync.products
  BY DEF Matches

LEMMA NextCardKeeps == ASSUME SyncInv, NextCard PROVE SyncInv'
<1>1. PICK w \in SyncRec : w = sync
  BY DEF SyncInv, SyncTypes
<1>2. PICK c \in sync.cards :
         \/ /\ Matches(c) = {} /\ sync' = [sync EXCEPT !.cards = @ \ {c}] /\ UNCHANGED product
         \/ \E p \in Matches(c) :
               /\ product' = [product EXCEPT ![c] = p]
               /\ sync' = [sync EXCEPT !.at = "price", !.cards = @ \ {c}, !.card = c,
                              !.finishes = finishes[c],
                              !.subs = IF p \in DOMAIN sync.prices
                                       THEN {t \in SubTypes : sync.prices[p][t] > 0} ELSE {}]
  BY DEF NextCard
<1>3. c \in Cards /\ sync.at = "card" /\ sync.products \subseteq Products
  BY <1>1 DEF SyncRec, NextCard, At
<1>4. CASE Matches(c) = {} /\ sync' = [sync EXCEPT !.cards = @ \ {c}] /\ UNCHANGED product
  <2>1. /\ sync' \in SyncRec /\ sync'.at = "card" /\ sync'.sets = w.sets /\ sync'.products = w.products
        /\ sync'.prices = w.prices /\ sync'.day = w.day /\ sync'.cards = w.cards \ {c} /\ sync'.card = w.card
    BY <1>1, <1>3, <1>4 DEF SyncRec
  <2>2. PriceFacts(w, rows, product) /\ c \in w.cards /\ w.at = "card" /\ product[c] \notin w.products
    BY <1>1, <1>3, <1>4, MatchesOffered DEF SyncInv
  <2>3. PriceFacts(sync', rows, product)
    BY <2>1, <2>2, SkipKeeps
  <2> QED
    BY <1>1, <1>3, <1>4, <2>1, <2>3 DEF SyncInv, SyncTypes, NextCard, Writing
<1>5. ASSUME NEW p \in Matches(c), product' = [product EXCEPT ![c] = p],
             sync' = [sync EXCEPT !.at = "price", !.cards = @ \ {c}, !.card = c,
                              !.finishes = finishes[c],
                              !.subs = IF p \in DOMAIN sync.prices
                                       THEN {t \in SubTypes : sync.prices[p][t] > 0} ELSE {}]
      PROVE  SyncInv'
  <2>1. PICK fs \in SUBSET Finishes, ts \in SUBSET SubTypes :
            fs = finishes[c] /\ ts = IF p \in DOMAIN sync.prices THEN PricedBy(sync.prices[p]) ELSE {}
    BY <1>3 DEF SyncInv, SyncTypes, PricedBy
  <2>2. sync' = [w EXCEPT !.at = "price", !.cards = w.cards \ {c}, !.card = c, !.finishes = fs, !.subs = ts]
    BY <1>1, <1>5, <2>1 DEF PricedBy
  <2>3. PICK r1 \in SyncRec : r1 = [w EXCEPT !.at = "price"] /\ Moved(r1, w, "price")
    BY MovedFits DEF Stops
  <2>4. /\ sync' \in SyncRec /\ sync'.at = "price" /\ sync'.sets = w.sets /\ sync'.products = w.products
        /\ sync'.prices = w.prices /\ sync'.day = w.day /\ sync'.cards = w.cards \ {c} /\ sync'.card = c
        /\ sync'.subs = ts
    <3>1. sync' = [[[[r1 EXCEPT !.cards = w.cards \ {c}] EXCEPT !.card = c] EXCEPT !.finishes = fs] EXCEPT !.subs = ts]
      BY <2>2, <2>3
    <3>2. PICK r2 \in SyncRec : r2 = [r1 EXCEPT !.cards = w.cards \ {c}] /\ CardsPut(r2, r1, w.cards \ {c})
      <4>1. w.cards \ {c} \in SUBSET Cards
        BY DEF SyncRec
      <4> QED
        BY <4>1, CardsFits
    <3>3. PICK r3 \in SyncRec : r3 = [r2 EXCEPT !.card = c] /\ CardPut(r3, r2, c)
      BY <1>3, CardFits
    <3>4. PICK r4 \in SyncRec : r4 = [r3 EXCEPT !.finishes = fs] /\ FinishesPut(r4, r3, fs)
      BY FinishesFits
    <3>5. PICK r5 \in SyncRec : r5 = [r4 EXCEPT !.subs = ts] /\ SubsPut(r5, r4, ts)
      BY SubsFits
    <3>6. sync' = r5
      BY <3>1, <3>2, <3>3, <3>4, <3>5
    <3> QED
      BY <2>3, <3>2, <3>3, <3>4, <3>5, <3>6 DEF Moved, CardsPut, CardPut, FinishesPut, SubsPut
  <2>5. p \in Products
    BY <1>3, MatchesOffered
  <2>6. PriceFacts(w, rows, product) /\ product \in [Cards -> Products \cup {None}]
    BY <1>1 DEF SyncInv, SyncTypes
  <2>7. PriceFacts(sync', rows, product')
    <3>1. p \in DOMAIN w.prices => sync'.subs = PricedBy(w.prices[p])
      BY <1>1, <2>1, <2>4
    <3>2. c \in w.cards /\ w.at = "card"
      BY <1>1, <1>3
    <3>3. /\ sync'.at = "price" /\ sync'.sets = w.sets /\ sync'.products = w.products
          /\ sync'.prices = w.prices /\ sync'.day = w.day /\ sync'.cards = w.cards \ {c} /\ sync'.card = c
          /\ c \in Cards /\ product' = [product EXCEPT ![c] = p]
          /\ PriceFacts(w, rows, product) /\ product \in [Cards -> Products \cup {None}]
      BY <1>3, <1>5, <2>4, <2>6
    <3> QED
      BY <2>5, <3>1, <3>2, <3>3, TakeCardKeeps, Zenon
  <2> QED
    BY <1>1, <1>3, <1>5, <2>4, <2>5, <2>7 DEF SyncInv, SyncTypes, NextCard, Writing
<1> QED
  BY <1>2, <1>4, <1>5

LEMMA CardDoneInv == ASSUME SyncInv, CardDone PROVE SyncInv'
<1>1. sync' \in SyncRec /\ Moved(sync', sync, "card")
  BY SyncMoves DEF CardDone, Goto, SyncInv, Stops
<1>2. PriceFacts(sync', rows', product')
  BY <1>1, CardDoneKeeps DEF CardDone, At, SyncInv
<1> QED
  BY <1>1, <1>2 DEF SyncInv, SyncTypes, CardDone, At, Writing, Moved

LEMMA NextPriceInv == ASSUME SyncInv, NextPrice PROVE SyncInv'
<1>1. PICK t \in sync.subs :
          /\ sync' = [sync EXCEPT !.at = "delete", !.subs = @ \ {t}, !.sub = t,
                                  !.finishes = @ \cup {FinishOf[t]}]
          /\ finishes' = [finishes EXCEPT ![sync.card] = @ \cup {FinishOf[t]}]
  BY DEF NextPrice
<1>2. PICK w \in SyncRec : w = sync
  BY DEF SyncInv, SyncTypes
<1>3. t \in SubTypes /\ FinishOf[t] \in Finishes /\ sync.at = "price" /\ w.card \in Cards
  BY <1>2 DEF SyncRec, NextPrice, At, Finishes, SyncInv, SyncTypes
<1>4. PICK r1 \in SyncRec : r1 = [w EXCEPT !.at = "delete"] /\ Moved(r1, w, "delete")
  BY MovedFits DEF Stops
<1>5. /\ sync' \in SyncRec /\ sync'.at = "delete" /\ sync'.sets = w.sets /\ sync'.products = w.products
      /\ sync'.prices = w.prices /\ sync'.day = w.day /\ sync'.cards = w.cards /\ sync'.card = w.card
      /\ sync'.subs = w.subs \ {t} /\ sync'.sub = t
  <2>1. sync' = [[[r1 EXCEPT !.subs = w.subs \ {t}] EXCEPT !.sub = t] EXCEPT !.finishes = w.finishes \cup {FinishOf[t]}]
    BY <1>1, <1>2, <1>4
  <2>2. PICK r2 \in SyncRec : r2 = [r1 EXCEPT !.subs = w.subs \ {t}] /\ SubsPut(r2, r1, w.subs \ {t})
    <3>1. w.subs \ {t} \in SUBSET SubTypes
      BY DEF SyncRec
    <3> QED
      BY <3>1, SubsFits
  <2>3. PICK r3 \in SyncRec : r3 = [r2 EXCEPT !.sub = t] /\ SubPut(r3, r2, t)
    BY <1>3, SubFits
  <2>4. PICK r4 \in SyncRec : /\ r4 = [r3 EXCEPT !.finishes = w.finishes \cup {FinishOf[t]}]
                              /\ FinishesPut(r4, r3, w.finishes \cup {FinishOf[t]})
    <3>1. w.finishes \cup {FinishOf[t]} \in SUBSET Finishes
      BY <1>3 DEF SyncRec
    <3> QED
      BY <3>1, FinishesFits
  <2>5. sync' = r4
    BY <2>1, <2>2, <2>3, <2>4
  <2> QED
    BY <1>4, <2>2, <2>3, <2>4, <2>5 DEF Moved, SubsPut, SubPut, FinishesPut
<1>6. PriceFacts(sync', rows', product')
  <2>1. PriceFacts(w, rows, product)
    BY <1>2 DEF SyncInv
  <2>2. rows' = rows /\ product' = product /\ t \in w.subs /\ w.at = "price"
    BY <1>2, <1>3 DEF NextPrice
  <2> QED
    BY <1>5, <2>1, <2>2, NextPriceKeeps
<1>7. finishes' \in [Cards -> SUBSET Finishes]
  BY <1>1, <1>2, <1>3 DEF SyncInv, SyncTypes
<1> QED
  BY <1>2, <1>3, <1>5, <1>6, <1>7 DEF SyncInv, SyncTypes, NextPrice, Writing

\* Where a statement is next: the sync, and the facts about it, as values.
LEMMA WritingFacts ==
    ASSUME SyncInv, sync.at \in Writing, NEW at \in Stops, sync' = [sync EXCEPT !.at = at]
    PROVE  /\ sync' \in SyncRec /\ Moved(sync', sync, at) /\ sync.sub \in SubTypes
           /\ Once(rows) /\ PriceFacts(sync, rows, product)
  BY SyncMoves DEF SyncInv, SyncTypes

\* The types, after a step that only moves the sync on and writes rows.
LEMMA WritingTypes ==
    ASSUME SyncInv, sync.at \in Writing, NEW at \in Writing \cup {"price"}, sync' \in SyncRec,
           Moved(sync', sync, at), UNCHANGED <<day, mirror, group, product, finishes>>
    PROVE  SyncTypes'
  BY DEF SyncInv, SyncTypes, Moved, Writing

LEMMA DeleteTodayInv == ASSUME SyncInv, DeleteToday PROVE SyncInv'
<1>1. sync.at = "delete" /\ sync' = [sync EXCEPT !.at = "insert"]
  BY DEF DeleteToday, At, Goto
<1>2. /\ sync' \in SyncRec /\ Moved(sync', sync, "insert") /\ sync.sub \in SubTypes
      /\ Once(rows) /\ PriceFacts(sync, rows, product)
  BY <1>1, WritingFacts DEF Writing, Stops
<1>3. rows' = {r \in rows : ~Todays(sync, r)}
  BY DEF DeleteToday, OfPrinting, Printing, Todays
<1>4. Once(rows') /\ PriceFacts(sync', rows', product)
  BY <1>1, <1>2, <1>3, DeletePriceKeeps
<1>5. SyncTypes'
  BY <1>1, <1>2, WritingTypes DEF DeleteToday, Writing
<1> QED
  BY <1>4, <1>5 DEF SyncInv, DeleteToday

LEMMA InsertPriceInv == ASSUME SyncInv, InsertPrice PROVE SyncInv'
<1>1. sync.at = "insert" /\ sync' = [sync EXCEPT !.at = "spread"]
  BY DEF InsertPrice, At, Goto
<1>2. /\ sync' \in SyncRec /\ Moved(sync', sync, "spread") /\ sync.sub \in SubTypes
      /\ Once(rows) /\ PriceFacts(sync, rows, product)
  BY <1>1, WritingFacts DEF Writing, Stops
<1> DEFINE a == NewRow("market")
           b == NewRow("history")
<1>3. /\ a = Row(sync.card, FinishOf[sync.sub], sync.day, "market", Cents, NrOf("market"))
      /\ b = Row(sync.card, FinishOf[sync.sub], sync.day, "history", Cents, NrOf("history"))
      /\ Cents = sync.prices[product[sync.card]][sync.sub]
  BY DEF NewRow, Printing, Cents
<1>4. rows' = rows \cup {a, b}
  BY DEF InsertPrice
<1>5. Once(rows \cup {a, b}) /\ PriceFacts(sync', rows \cup {a, b}, product)
  <2> HIDE DEF a, b
  <2> QED
    BY <1>1, <1>2, <1>3, InsertPriceKeeps
<1>6. SyncTypes'
  BY <1>1, <1>2, WritingTypes DEF InsertPrice, Writing
<1> QED
  BY <1>4, <1>5, <1>6 DEF SyncInv, InsertPrice

LEMMA InsertSpreadInv == ASSUME SyncInv, InsertSpread PROVE SyncInv'
<1>1. sync.at = "spread" /\ sync' = [sync EXCEPT !.at = "demo"]
  BY DEF InsertSpread, At, Goto
<1>2. /\ sync' \in SyncRec /\ Moved(sync', sync, "demo") /\ sync.sub \in SubTypes
      /\ Once(rows) /\ PriceFacts(sync, rows, product)
  BY <1>1, WritingFacts DEF Writing, Stops
<1> DEFINE a == NewRow("spread")
<1>3. /\ a = Row(sync.card, FinishOf[sync.sub], sync.day, "spread", Cents, NrOf("spread"))
      /\ Cents = sync.prices[product[sync.card]][sync.sub]
  BY DEF NewRow, Printing, Cents
<1>4. rows' = rows \cup {a}
  BY DEF InsertSpread
<1>5. Once(rows \cup {a}) /\ PriceFacts(sync', rows \cup {a}, product)
  <2> HIDE DEF a
  <2> QED
    BY <1>1, <1>2, <1>3, InsertSpreadKeeps
<1>6. SyncTypes'
  BY <1>1, <1>2, WritingTypes DEF InsertSpread, Writing
<1> QED
  BY <1>4, <1>5, <1>6 DEF SyncInv, InsertSpread

LEMMA RetireDemoInv == ASSUME SyncInv, RetireDemo PROVE SyncInv'
<1>1. sync.at = "demo" /\ sync' = [sync EXCEPT !.at = "price"]
  BY DEF RetireDemo, At, Goto
<1>2. /\ sync' \in SyncRec /\ Moved(sync', sync, "price") /\ sync.sub \in SubTypes
      /\ Once(rows) /\ PriceFacts(sync, rows, product)
  BY <1>1, WritingFacts DEF Writing, Stops
<1>3. rows' = {r \in rows : ~(/\ r.card = sync.card /\ r.finish = FinishOf[sync.sub]
                              /\ r.demo /\ r.kind = "market" /\ r.grade = None)}
  BY DEF RetireDemo, OfPrinting, Printing
<1>4. Once(rows') /\ PriceFacts(sync', rows', product)
  BY <1>1, <1>2, <1>3, RetireKeeps
<1>5. SyncTypes'
  BY <1>1, <1>2, WritingTypes DEF RetireDemo, Writing
<1> QED
  BY <1>4, <1>5 DEF SyncInv, RetireDemo

LEMMA WorldKeeps == ASSUME SyncInv, DayPasses \/ MirrorMoves PROVE SyncInv'
<1>1. UNCHANGED <<sync, rows, product, group, finishes>> /\ day' \in Nat /\ mirror' \in Mirrors
  BY DEF SyncInv, SyncTypes, DayPasses, MirrorMoves
<1> QED
  BY <1>1 DEF SyncInv, SyncTypes

\* The sync keeps its invariant, statement by statement.
LEMMA SyncStep == ASSUME SiteHolds, SyncInv, MarketNext PROVE SyncInv'
<1>1. CASE DayPasses \/ MirrorMoves
  BY <1>1, WorldKeeps
<1>2. CASE Start
  BY <1>2, StartKeeps
<1>3. CASE ResolveGroup
  BY <1>3, ResolveGroupKeeps
<1>4. CASE ReadProducts \/ ReadPrices \/ ReadCards
  BY <1>4, ReadProductsKeeps, ReadPricesKeeps, ReadCardsKeeps
<1>5. CASE NextCard \/ NextPrice \/ CardDone
  BY <1>5, NextCardKeeps, NextPriceInv, CardDoneInv
<1>6. CASE DeleteToday \/ InsertPrice \/ InsertSpread \/ RetireDemo
  BY <1>6, DeleteTodayInv, InsertPriceInv, InsertSpreadInv, RetireDemoInv
<1>7. CASE SetDone
  <2>1. sync.sets # <<>>
    BY <1>7 DEF SyncInv, SyncTypes, SetDone, At
  <2> QED
    BY <1>7, <2>1, OnToTheNextSet DEF SetDone
<1>8. CASE SetFails
  BY <1>8, OnToTheNextSet DEF SetFails
<1>9. CASE Finished \/ SyncDies
  BY <1>9, IdleKeeps DEF Finished, SyncDies
<1> QED
  BY <1>1, <1>2, <1>3, <1>4, <1>5, <1>6, <1>7, <1>8, <1>9 DEF MarketNext

LEMMA SyncStarts == ASSUME SiteHolds, MarketInit PROVE SyncInv
<1>1. sync \in SyncRec /\ sync.at = "idle"
  BY IdleFits DEF MarketInit, Resting
<1>2. PriceFacts(sync, rows, product)
  BY <1>1, OutsideASet
<1>3. finishes \in [Cards -> SUBSET Finishes] /\ product \in [Cards -> Products \cup {None}]
  BY DEF SiteHolds, SyncHolds, MarketInit
<1> QED
  BY <1>1, <1>2, <1>3 DEF SyncInv, Once, SyncTypes, MarketInit, Writing, SiteHolds, SyncHolds

\* A visitor's step changes the address alone.
LEMMA SiteStep == ASSUME SiteHolds, SyncInv, [SiteNext]_<<syncVars, address>> PROVE SyncInv'
<1>1. CASE MarketNext
  BY <1>1, SyncStep
<1>2. CASE UNCHANGED syncVars
  <2>1. UNCHANGED <<day, mirror, group, product, finishes, rows, sync>>
    BY <1>2 DEF syncVars
  <2> QED
    BY <2>1 DEF SyncInv, SyncTypes
<1>3. CASE SearchNext
  BY <1>2, <1>3 DEF SearchNext, TypeText, FollowFacet, RemoveChip, RemovePriceChip,
         SetRange, ClearAll, TurnPage, DidYouMean, Visit
<1> QED
  BY <1>1, <1>2, <1>3 DEF SiteNext

\* The types of the price sync, which the properties below rest on.
THEOREM SyncKeepsItsInvariant == SiteSpec => []SyncInv
<1>1. SiteInit => SyncInv
  BY SyncStarts, AsRun DEF SiteInit
<1>2. SyncInv /\ [SiteNext]_<<syncVars, address>> => SyncInv'
  BY SiteStep, AsRun
<1> QED
  BY <1>1, <1>2, PTL DEF SiteSpec

\* "Re-runnable: same-day rows are replaced, not duplicated" (sync-tcgcsv.ts): wherever syncs
\* were stopped or sets failed, a printing has one price of each kind a day, and the day's
\* history says what its market price says.
THEOREM PricesAreOncePerDay == SiteSpec => []OncePerDay
<1>1. SyncInv => OncePerDay
  BY DEF SyncInv, Once, OncePerDay
<1> QED
  BY <1>1, SyncKeepsItsInvariant, PTL

\* A set that was synced with no failure leaves every printing the mirror prices with one of
\* the day's prices, and no synthetic market price beside it.
THEOREM SyncedSetsArePriced == SiteSpec => []SetPriced
<1>1. SyncInv => SetPriced
  BY DEF SyncInv, PriceFacts, Behind, OnOffer, PricedBy, HasPrice, SetPriced, At, TheSet
<1> QED
  BY <1>1, SyncKeepsItsInvariant, PTL

-----------------------------------------------------------------------------
(* The facets of a search.                                                  *)

DimValues == {GameOf[s] : s \in AllSets} \cup AllSets \cup {RarityOf[c] : c \in Cards} \cup Finishes
Bounds == {NoBound} \cup {r[1] : r \in Ranges} \cup {r[2] : r \in Ranges}
AddressRec ==
    [q : Queries \cup {NoQuery}, game : DimValues \cup {Blank}, set : DimValues \cup {Blank},
     rarity : DimValues \cup {Blank}, finish : DimValues \cup {Blank},
     min : Bounds, max : Bounds, page : Int]

\* What an address says of a dimension once the text of the query has filled it in.
Says(p, d) ==
    IF d = "rarity" \/ p[d] # Blank THEN p[d] ELSE p.q[d]

LEMMA EffectiveSays ==
    ASSUME NEW p \in AddressRec, NEW d \in Dims
    PROVE  Effective(p)[d] = Says(p, d)
<1> DEFINE g == IF p.game = Blank THEN p.q.game ELSE p.game
           s == IF p.set = Blank THEN p.q.set ELSE p.set
           f == IF p.finish = Blank THEN p.q.finish ELSE p.finish
<1>1. Effective(p) = [[[p EXCEPT !.game = g] EXCEPT !.set = s] EXCEPT !.finish = f]
  <2>1. /\ [p EXCEPT !.game = g].set = p.set
        /\ [[p EXCEPT !.game = g] EXCEPT !.set = s].finish = p.finish
    BY DEF AddressRec
  <2> QED
    BY <2>1 DEF Effective
<1>2. /\ Effective(p).game = g /\ Effective(p).set = s
      /\ Effective(p).finish = f /\ Effective(p).rarity = p.rarity
  <2> HIDE DEF g, s, f
  <2> QED
    BY <1>1 DEF AddressRec
<1> QED
  BY <1>2 DEF Says, Dims

\* A followed facet is what the new address says of its dimension, and nothing else changes.
LEMMA FollowSays ==
    ASSUME NEW p \in AddressRec, NEW dim \in Dims, NEW k \in DimValues, k # Says(p, dim)
    PROVE  /\ Follow(p, dim, k) \in AddressRec
           /\ Follow(p, dim, k)[dim] = k
           /\ \A d \in Dims \ {dim} : Follow(p, dim, k)[d] = p[d]
           /\ Follow(p, dim, k).q = p.q
           /\ Follow(p, dim, k).min = p.min /\ Follow(p, dim, k).max = p.max
<1>1. Follow(p, dim, k) = [[p EXCEPT ![dim] = k] EXCEPT !.page = 1]
  BY EffectiveSays DEF Follow
<1>2. PICK r : r = [p EXCEPT ![dim] = k]
  OBVIOUS
<1>3. /\ r \in AddressRec /\ r[dim] = k /\ r.q = p.q /\ r.min = p.min /\ r.max = p.max
      /\ \A d \in Dims \ {dim} : r[d] = p[d]
  <2>1. CASE dim = "game"
    BY <1>2, <2>1 DEF AddressRec, Dims
  <2>2. CASE dim = "set"
    BY <1>2, <2>2 DEF AddressRec, Dims
  <2>3. CASE dim = "rarity"
    BY <1>2, <2>3 DEF AddressRec, Dims
  <2>4. CASE dim = "finish"
    BY <1>2, <2>4 DEF AddressRec, Dims
  <2> QED
    BY <2>1, <2>2, <2>3, <2>4 DEF Dims
<1>4. PICK n : n = [r EXCEPT !.page = 1]
  OBVIOUS
<1>5. /\ n \in AddressRec /\ n.q = r.q /\ n.min = r.min /\ n.max = r.max
      /\ n.game = r.game /\ n.set = r.set /\ n.rarity = r.rarity /\ n.finish = r.finish
  BY <1>3, <1>4 DEF AddressRec
<1>6. \A d \in Dims : n[d] = r[d]
  BY <1>5 DEF Dims
<1>7. n = Follow(p, dim, k)
  BY <1>1, <1>2, <1>4
<1> QED
  BY <1>3, <1>5, <1>6, <1>7

\* The value of a dimension of a card is the name of something, not "any".
LEMMA ValuesNamed ==
    ASSUME SiteHolds, SyncInv, NEW c \in Cards, NEW d \in Dims
    PROVE  ValuesOf(c, d) \subseteq DimValues
<1>1. SetOf[c] \in AllSets /\ finishes[c] \subseteq Finishes
  BY DEF SiteHolds, SyncHolds, SyncInv, SyncTypes
<1>2. CASE d = "game"
  BY <1>1, <1>2 DEF ValuesOf, DimValues
<1>3. CASE d = "set"
  BY <1>1, <1>3 DEF ValuesOf, DimValues
<1>4. CASE d = "rarity"
  BY <1>1, <1>4 DEF ValuesOf, DimValues
<1>5. CASE d = "finish"
  BY <1>1, <1>5 DEF ValuesOf, DimValues
<1> QED
  BY <1>2, <1>3, <1>4, <1>5 DEF Dims

LEMMA BlankIsNoName == ASSUME SiteHolds PROVE Blank \notin DimValues
  BY DEF SiteHolds, SyncHolds, SearchHolds, DimValues

\* What an address says of a dimension decides which cards it shows.
LEMMA WhereSays ==
    ASSUME NEW p \in AddressRec, NEW without, NEW fuzzy
    PROVE  Where(p, without, fuzzy) =
             {c \in Cards : /\ HasText(p, c, fuzzy) /\ InRange(p, c)
                            /\ \A d \in Dims \ {without} : Says(p, d) = Blank \/ Says(p, d) \in ValuesOf(c, d)}
  BY EffectiveSays DEF Where

\* A facet's link leads to the cards the facet counted.
LEMMA FollowShows ==
    ASSUME SiteHolds, NEW p \in AddressRec, NEW dim \in Dims, NEW k \in DimValues,
           k # Says(p, dim), NEW fuzzy
    PROVE  Where(Follow(p, dim, k), None, fuzzy) =
             {c \in Where(p, dim, fuzzy) : k \in ValuesOf(c, dim)}
<1> DEFINE n == Follow(p, dim, k)
<1>1. /\ n \in AddressRec /\ n[dim] = k /\ n.q = p.q /\ n.min = p.min /\ n.max = p.max
      /\ \A d \in Dims \ {dim} : n[d] = p[d]
  BY FollowSays
<1>2. k # Blank
  BY BlankIsNoName
<1>3. Dims \ {None} = Dims
  BY DEF Dims, None
<1> HIDE DEF n
<1>4. Says(n, dim) = k /\ \A d \in Dims \ {dim} : Says(n, d) = Says(p, d)
  BY <1>1, <1>2 DEF Says
<1>5. ASSUME NEW c \in Cards
      PROVE  /\ HasText(n, c, fuzzy) <=> HasText(p, c, fuzzy)
             /\ InRange(n, c) <=> InRange(p, c)
  BY <1>1 DEF HasText, InRange
<1>6. ASSUME NEW c \in Cards
      PROVE  (\A d \in Dims : Says(n, d) = Blank \/ Says(n, d) \in ValuesOf(c, d))
               <=> /\ \A d \in Dims \ {dim} : Says(p, d) = Blank \/ Says(p, d) \in ValuesOf(c, d)
                   /\ k \in ValuesOf(c, dim)
  BY <1>2, <1>4
<1>7. Where(n, None, fuzzy) =
        {c \in Cards : /\ HasText(n, c, fuzzy) /\ InRange(n, c)
                       /\ \A d \in Dims : Says(n, d) = Blank \/ Says(n, d) \in ValuesOf(c, d)}
  BY <1>1, <1>3, WhereSays
<1>8. Where(p, dim, fuzzy) =
        {c \in Cards : /\ HasText(p, c, fuzzy) /\ InRange(p, c)
                       /\ \A d \in Dims \ {dim} : Says(p, d) = Blank \/ Says(p, d) \in ValuesOf(c, d)}
  BY WhereSays
<1> QED
  BY <1>5, <1>6, <1>7, <1>8 DEF n

LEMMA DimFits ==
    ASSUME NEW p \in AddressRec, NEW dim \in Dims, NEW x \in DimValues \cup {Blank}
    PROVE  [p EXCEPT ![dim] = x, !.page = 1] \in AddressRec
<1>1. [p EXCEPT ![dim] = x] \in AddressRec
  <2>1. CASE dim = "game"
    BY <2>1 DEF AddressRec, Dims
  <2>2. CASE dim = "set"
    BY <2>2 DEF AddressRec, Dims
  <2>3. CASE dim = "rarity"
    BY <2>3 DEF AddressRec, Dims
  <2>4. CASE dim = "finish"
    BY <2>4 DEF AddressRec, Dims
  <2> QED
    BY <2>1, <2>2, <2>3, <2>4 DEF Dims
<1>2. ASSUME NEW r \in AddressRec
      PROVE  [r EXCEPT !.page = 1] \in AddressRec
  BY DEF AddressRec
<1> QED
  BY <1>1, <1>2

\* The address is an address, whatever the visitor follows.
LEMMA AddressStep ==
    ASSUME SiteHolds, SyncInv, address \in AddressRec, SearchNext
    PROVE  address' \in AddressRec
<1>1. PICK p \in AddressRec : p = address
  OBVIOUS
<1>2. ASSUME NEW q \in Queries \cup {NoQuery}, address' = AskFor(q)
      PROVE  address' \in AddressRec
  BY <1>2 DEF AskFor, AddressRec, Bounds
<1>3. CASE TypeText \/ DidYouMean \/ ClearAll
  BY <1>1, <1>2, <1>3 DEF TypeText, DidYouMean, ClearAll, Visit, AddressRec
<1>4. CASE FollowFacet
  <2>1. PICK dim \in Dims : \E k \in Facet(address, dim) : address' = Follow(address, dim, k)
    BY <1>4 DEF FollowFacet, Visit
  <2>2. PICK k \in Facet(address, dim) : address' = Follow(address, dim, k)
    BY <2>1
  <2>3. k \in DimValues
    BY ValuesNamed DEF Facet, Where
  <2> QED
    BY <1>1, <2>2, <2>3, DimFits DEF Follow
<1>5. CASE RemoveChip
  <2>1. PICK dim \in Dims : address' = [address EXCEPT ![dim] = Blank, !.page = 1]
    BY <1>5 DEF RemoveChip, Visit
  <2> QED
    BY <2>1, DimFits
<1>6. CASE RemovePriceChip
  BY <1>1, <1>6 DEF RemovePriceChip, Visit, AddressRec
<1>7. CASE SetRange
  <2>1. PICK r \in Ranges : address' = [p EXCEPT !.min = r[1], !.max = r[2], !.page = 1]
    BY <1>1, <1>7 DEF SetRange, Visit
  <2>2. PICK a \in Bounds, b \in Bounds : a = r[1] /\ b = r[2]
    BY DEF Bounds
  <2>3. address' = [[[p EXCEPT !.min = a] EXCEPT !.max = b] EXCEPT !.page = 1]
    BY <2>1, <2>2
  <2>4. \A x \in AddressRec : [x EXCEPT !.min = a] \in AddressRec
    BY DEF AddressRec
  <2>5. \A x \in AddressRec : [x EXCEPT !.max = b] \in AddressRec
    BY DEF AddressRec
  <2>6. \A x \in AddressRec : [x EXCEPT !.page = 1] \in AddressRec
    BY DEF AddressRec
  <2> QED
    BY <2>3, <2>4, <2>5, <2>6
<1>8. CASE TurnPage
  <2>1. PICK n \in Int : address' = [p EXCEPT !.page = n]
    BY <1>1, <1>8 DEF TurnPage, Visit
  <2> QED
    BY <2>1 DEF AddressRec
<1> QED
  BY <1>3, <1>4, <1>5, <1>6, <1>7, <1>8 DEF SearchNext

LEMMA FacetsCount ==
    ASSUME SiteHolds, SyncInv, address \in AddressRec
    PROVE  FacetsHonest
<1> SUFFICES ASSUME ~Fuzzy(address), NEW dim \in Dims,
                    NEW k \in Facet(address, dim) \ {Effective(address)[dim]}
             PROVE  Cardinality(Found(Follow(address, dim, k))) = Counted(address, dim, k)
  BY DEF FacetsHonest
<1>1. PICK p \in AddressRec : p = address
  OBVIOUS
<1>0. PICK no : no = FALSE
  OBVIOUS
<1> DEFINE n == Follow(p, dim, k)
           there == {c \in Where(p, dim, no) : k \in ValuesOf(c, dim)}
<1>2. Where(p, dim, Fuzzy(p)) = Where(p, dim, no)
  BY <1>0, <1>1 DEF Where, HasText
<1>3. k \in DimValues /\ k # Says(p, dim)
  BY <1>1, ValuesNamed, EffectiveSays DEF Facet, Where
<1>4. Where(n, None, no) = there
  BY <1>3, FollowShows
<1>5. there # {}
  BY <1>1, <1>2 DEF Facet
<1>6. ~Fuzzy(n)
  <2>1. Where(n, None, no) = Where(n, None, FALSE)
    BY <1>0 DEF Where, HasText
  <2> QED
    BY <1>4, <1>5, <2>1 DEF Fuzzy
<1>7. Found(n) = Where(n, None, no)
  BY <1>0, <1>6 DEF Found, Where, HasText
<1> QED
  BY <1>1, <1>2, <1>4, <1>7 DEF Counted

\* "Each dimension counted with its own filter removed" (search.ts): whatever text, chips and
\* price range are in force, and whatever part of a sync was done, the number beside a facet
\* option is the number of cards its link leads to, unless close matches are there.
THEOREM FacetsCountTheirCards == SiteSpec => []FacetsHonest
<1> DEFINE Inv == SyncInv /\ address \in AddressRec
<1>1. SiteInit => Inv
  BY SyncStarts, AsRun DEF SiteInit, SearchInit, AskFor, AddressRec, Bounds
<1>2. Inv /\ [SiteNext]_<<syncVars, address>> => Inv'
  BY SiteStep, AddressStep, AsRun DEF SiteNext
<1>3. Inv => FacetsHonest
  BY FacetsCount, AsRun
<1> QED
  BY <1>1, <1>2, <1>3, PTL DEF SiteSpec

=============================================================================
