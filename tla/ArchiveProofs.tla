---------------------------- MODULE ArchiveProofs ----------------------------
(***************************************************************************)
(* Theorems about Archive for every number of sellers, orders, sessions    *)
(* and days.  The point is the watermark: what a harvest has read of it,   *)
(* and what it may still overlook when it writes it.  And about the other  *)
(* import, of the catalog, with the photo-ID index built beside it: what   *)
(* is recorded as imported is whole, and what is recorded as missing is    *)
(* missing.                                                                *)
(***************************************************************************)
EXTENDS Archive, PhotoIndex, NaturalsInduction, WellFoundedInduction, TLAPS

\* A nonempty set of seller ids has a least one, which the timer takes.
LEMMA LeastSeller ==
    ASSUME NEW todo, todo \subseteq Sellers, todo # {}
    PROVE  (CHOOSE y \in todo : \A z \in todo : y <= z) \in todo
<1> DEFINE R == {ss \in Nat \X Nat : ss[1] < ss[2]}
<1>1. IsWellFoundedOn(R, Nat)
  BY NatLessThanWellFounded DEF OpToRel
<1>2. todo \subseteq Nat
  BY ArchiveAssumption
<1>3. PICK x \in todo : \A y \in todo : ~ (<<y, x>> \in R)
  BY <1>1, <1>2, WFMin
<1>4. \A y \in Nat : x \in Nat /\ ~ (<<y, x>> \in R) => x <= y
  OBVIOUS
<1>5. \A y \in todo : x <= y
  BY <1>2, <1>3, <1>4
<1>6. QED
  BY <1>5

-----------------------------------------------------------------------------
(* Type correctness.                                                       *)

\* Beside the types: who a harvest is for, and that a row to insert is a sale.
LocalOK(r) ==
    /\ r.pc \in {"begin", "fetch"} => r.who \in Sellers
    /\ r.pc = "insert" => r.row \in Sales

TypeInv == TypeOK /\ \A s \in Sessions : LocalOK(sess[s])

LEMMA IdleType == Idle \in Locals /\ LocalOK(Idle)
BY ArchiveAssumption DEF Idle, Locals, LocalOK, Days

LEMMA RestType ==
    ASSUME TypeInv, NEW todo \in SUBSET Sellers
    PROVE  Rest(todo) \in Locals /\ LocalOK(Rest(todo))
<1>1. CASE todo = {}
  BY <1>1, IdleType DEF Rest
<1>2. CASE todo # {}
  <2> DEFINE x == CHOOSE y \in todo : \A z \in todo : y <= z
  <2>1. x \in todo
    BY <1>2, LeastSeller
  <2> HIDE DEF x
  <2>2. Begin(x, todo \ {x}) \in Locals /\ LocalOK(Begin(x, todo \ {x}))
    BY <2>1, IdleType DEF Begin, Idle, Locals, LocalOK, TypeInv, TypeOK
  <2>3. Rest(todo) = Begin(x, todo \ {x})
    BY <1>2 DEF Rest, x
  <2>4. QED
    BY <2>2, <2>3
<1>3. QED
  BY <1>1, <1>2

LEMMA BeginType ==
    ASSUME TypeInv, NEW x \in Sellers
    PROVE  Begin(x, {}) \in Locals /\ LocalOK(Begin(x, {}))
BY IdleType DEF Begin, Idle, Locals, LocalOK, TypeInv, TypeOK

\* One session moves on: the others keep their types.
LEMMA SessionStep ==
    ASSUME TypeInv, NEW s \in Sessions, NEW r \in Locals, LocalOK(r),
           sess' = [sess EXCEPT ![s] = r]
    PROVE  sess' \in [Sessions -> Locals] /\ \A t \in Sessions : LocalOK(sess'[t])
BY DEF TypeInv, TypeOK

LEMMA ChargeType ==
    ASSUME TypeInv, NEW k \in Kinds, Charge(k)
    PROVE  asked' \in [Kinds -> Nat]
BY DEF Charge, TypeInv, TypeOK

LEMMA OverType ==
    ASSUME TypeInv, NEW s \in Sessions, Over(s)
    PROVE  sess' \in [Sessions -> Locals] /\ \A t \in Sessions : LocalOK(sess'[t])
<1>1. sess[s].todo \in SUBSET Sellers
  BY DEF TypeInv, TypeOK, Locals
<1>2. QED
  BY <1>1, RestType, SessionStep DEF Over

LEMMA TypeInit == Init => TypeInv
BY IdleType, ArchiveAssumption
   DEF Init, TypeInv, TypeOK, OrderRec, ConnRec, Off, Days, Kinds

\* The steps of requests and of the timer's tick.
LEMMA TypeRequests ==
    ASSUME TypeInv, NEW s \in Sessions, Tick(s) \/ Requests(s)
    PROVE  TypeInv'
<1> USE DEF TypeInv, TypeOK
<1>1. CASE Tick(s)
  <2>1. {x \in Sellers : Connected(x)} \in SUBSET Sellers
    OBVIOUS
  <2>2. QED
    BY <1>1, <2>1, RestType, SessionStep DEF Tick
<1>2. ASSUME NEW x \in Sellers, FetchButton(s, x) PROVE TypeInv'
  BY <1>2, BeginType, SessionStep, ChargeType DEF FetchButton, Ask, Kinds
<1>3. ASSUME NEW x \in Sellers, Disconnect(s, x) PROVE TypeInv'
  <2>1. Off \in ConnRec
    BY DEF Off, ConnRec
  <2>2. QED
    BY <1>3, <2>1, ChargeType DEF Disconnect, Ask, Kinds
<1>4. ASSUME NEW x \in Sellers, NEW a \in Accounts, Connect(s, x, a) PROVE TypeInv'
  <2>1. conn' \in [Sellers -> ConnRec]
    BY <1>4 DEF Connect, ConnRec
  <2>2. QED
    BY <1>4, <2>1, BeginType, SessionStep, ChargeType DEF Connect, Ask, Kinds
<1>5. ASSUME NEW rows \in SUBSET Sales,
             sess' = [sess EXCEPT ![s] = [Idle EXCEPT !.pc = "import", !.rows = rows]],
             Charge("owner"), UNCHANGED <<today, order, conn, archive, removed>>
      PROVE  TypeInv'
  <2> DEFINE r == [Idle EXCEPT !.pc = "import", !.rows = rows]
  <2>1. r \in Locals /\ LocalOK(r)
    BY IdleType DEF Idle, Locals, LocalOK
  <2>2. QED
    BY <1>5, <2>1, SessionStep, ChargeType DEF Kinds
<1>6. ASSUME NEW source \in Sources, Import(s, source) PROVE TypeInv'
  <2>1. {f \in Feed : SourceOf[f] = source} \in SUBSET Sales
    BY DEF Sales
  <2>2. QED
    BY <1>5, <1>6, <2>1 DEF Import, Ask
<1>7. CASE BootSample(s)
  <2>1. {f \in Feed : SourceOf[f] = Sample} \in SUBSET Sales
    BY DEF Sales
  <2>2. QED
    BY <1>5, <1>7, <2>1 DEF BootSample, Ask
<1>8. ASSUME NEW source \in Sources, RemoveSource(s, source) PROVE TypeInv'
  <2>1. archive' \in [Sales -> Nat] /\ removed' \subseteq Orders
    BY <1>8 DEF RemoveSource
  <2>2. QED
    BY <1>8, <2>1, ChargeType DEF RemoveSource, Ask, Kinds
<1>9. CASE RemoveSample(s)
  <2>1. archive' \in [Sales -> Nat]
    BY <1>9 DEF RemoveSample
  <2>2. QED
    BY <1>9, <2>1, ChargeType DEF RemoveSample, Ask, Kinds
<1>10. QED
  BY <1>1, <1>2, <1>3, <1>4, <1>6, <1>7, <1>8, <1>9 DEF Requests

\* The statements and calls of a harvest or an import, and a stop between them.
LEMMA TypeSteps ==
    ASSUME TypeInv, NEW s \in Sessions, Steps(s) \/ Die(s)
    PROVE  TypeInv'
<1> USE DEF TypeInv, TypeOK
<1>0. sess[s] \in Locals
  OBVIOUS
<1>1. CASE ReadMark(s)
  <2>1. CASE Connected(sess[s].who)
    <3> DEFINE since == Since(conn[sess[s].who].mark)
               r == [sess[s] EXCEPT !.pc = "fetch", !.since = since]
    <3>1. since \in Int
      BY <1>1, ArchiveAssumption DEF ReadMark, LocalOK, Since, ConnRec, Days, Never
    <3> HIDE DEF since
    <3>2. r \in Locals /\ LocalOK(r)
      BY <1>0, <1>1, <3>1 DEF ReadMark, Locals, LocalOK
    <3>3. sess' = [sess EXCEPT ![s] = r]
      BY <1>1, <2>1 DEF ReadMark, since
    <3>4. QED
      BY <1>1, <3>2, <3>3, SessionStep DEF ReadMark
  <2>2. CASE ~Connected(sess[s].who)
    BY <1>1, <2>2, OverType DEF ReadMark
  <2>3. QED
    BY <2>1, <2>2
<1>2. CASE Fetch(s)
  <2>1. CASE Over(s)
    BY <1>2, <2>1, OverType, ChargeType DEF Fetch, Kinds
  <2>2. CASE ~Over(s)
    <3> DEFINE rows == SoldLines(conn[sess[s].who].account, sess[s].since)
               r == [sess[s] EXCEPT !.pc = "import", !.rows = rows]
    <3>1. rows \in SUBSET Sales
      BY DEF SoldLines, Sales
    <3> HIDE DEF rows
    <3>2. r \in Locals /\ LocalOK(r)
      BY <1>0, <3>1 DEF Locals, LocalOK
    <3>3. sess' = [sess EXCEPT ![s] = r] /\ UNCHANGED asked
      BY <1>2, <2>2 DEF Fetch, rows
    <3>4. QED
      BY <1>2, <3>2, <3>3, SessionStep DEF Fetch
  <2>3. QED
    BY <2>1, <2>2
<1>3. CASE ImportRow(s)
  <2>1. PICK q \in sess[s].rows :
          IF q \in Orders \cup Keyed
          THEN /\ archive' = [archive EXCEPT ![q] = 1]
               /\ removed' = removed \ {q}
               /\ sess' = [sess EXCEPT ![s].rows = @ \ {q}]
          ELSE /\ sess' = IF archive[q] > 0
                          THEN [sess EXCEPT ![s].rows = @ \ {q}]
                          ELSE [sess EXCEPT ![s].rows = @ \ {q}, ![s].pc = "insert", ![s].row = q]
               /\ UNCHANGED <<archive, removed>>
    BY <1>3 DEF ImportRow
  <2>2. q \in Sales
    BY <1>0 DEF Locals
  <2> DEFINE r1 == [sess[s] EXCEPT !.rows = @ \ {q}]
             r2 == [sess[s] EXCEPT !.rows = @ \ {q}, !.pc = "insert", !.row = q]
  <2>3. r1 \in Locals /\ LocalOK(r1) /\ r2 \in Locals /\ LocalOK(r2)
    BY <1>0, <1>3, <2>2 DEF Locals, LocalOK, ImportRow
  <2>4. sess' = [sess EXCEPT ![s] = r1] \/ sess' = [sess EXCEPT ![s] = r2]
    BY <2>1
  <2>5. archive' \in [Sales -> Nat] /\ removed' \subseteq Orders
    BY <2>1, <2>2
  <2> HIDE DEF r1, r2
  <2>6. sess' \in [Sessions -> Locals] /\ \A t \in Sessions : LocalOK(sess'[t])
    BY <2>3, <2>4, SessionStep
  <2>7. QED
    BY <1>3, <2>5, <2>6 DEF ImportRow
<1>4. CASE InsertRow(s)
  <2> DEFINE r == [sess[s] EXCEPT !.pc = "import", !.row = NoSale]
  <2>1. r \in Locals /\ LocalOK(r) /\ sess' = [sess EXCEPT ![s] = r]
    BY <1>0, <1>4 DEF Locals, LocalOK, InsertRow
  <2>2. archive' \in [Sales -> Nat]
    BY <1>4 DEF InsertRow, LocalOK
  <2>3. QED
    BY <1>4, <2>1, <2>2, SessionStep DEF InsertRow
<1>5. CASE ImportDone(s)
  BY <1>5, IdleType, SessionStep DEF ImportDone
<1>6. CASE Mark(s)
  <2>1. conn' \in [Sellers -> ConnRec]
    BY <1>6 DEF Mark, ConnRec
  <2>2. QED
    BY <1>6, <2>1, OverType DEF Mark
<1>7. CASE Die(s)
  BY <1>7, IdleType, SessionStep, ChargeType DEF Die, Kinds
<1>8. QED
  BY <1>1, <1>2, <1>3, <1>4, <1>5, <1>6, <1>7 DEF Steps

LEMMA TypeNext == TypeInv /\ [Next]_vars => TypeInv'
<1> SUFFICES ASSUME TypeInv, [Next]_vars PROVE TypeInv'
  OBVIOUS
<1>1. ASSUME NEW o \in Orders, NEW st \in {"unpaid", "paid", "cancelled", "refunded"}, Buyer(o, st)
      PROVE  TypeInv'
  <2>1. order' \in [Orders -> OrderRec]
    BY <1>1 DEF Buyer, TypeInv, TypeOK, OrderRec
  <2>2. QED
    BY <1>1, <2>1 DEF Buyer, TypeInv, TypeOK
<1>2. CASE DayPasses
  BY <1>2, ArchiveAssumption DEF DayPasses, TypeInv, TypeOK, Days
<1>3. CASE UNCHANGED vars
  BY <1>3 DEF vars, TypeInv, TypeOK
<1>4. QED
  BY <1>1, <1>2, <1>3, TypeRequests, TypeSteps DEF Next

\* The state keeps its types.
THEOREM ArchiveTypes == Spec => []TypeOK
<1>1. TypeInv => TypeOK
  BY DEF TypeInv
<1>2. QED
  BY TypeInit, TypeNext, <1>1, PTL DEF Spec

-----------------------------------------------------------------------------
(* Only paid orders are archived.                                          *)

Sold(o) == order[o].state \in {"paid", "refunded"}

\* What a harvest holds in hand has been paid too.
PaidInv ==
    /\ OnlyPaid
    /\ \A s \in Sessions : \A o \in Orders : o \in sess[s].rows \/ o = sess[s].row => Sold(o)

LEMMA PaidInit == Init => PaidInv
BY ArchiveAssumption DEF Init, PaidInv, OnlyPaid, Idle, Sold, Sales

\* An order is only changed by its buyer, one stage at a time.
LEMMA OrderStep ==
    ASSUME TypeInv, [Next]_vars, NEW o \in Orders
    PROVE  \/ order'[o] = order[o]
           \/ order[o].state = "none" /\ order'[o].state = "unpaid" /\ order'[o].placed = today'
           \/ /\ order[o].state = "unpaid" /\ order'[o].state = "paid"
              /\ order'[o].placed = order[o].placed /\ today' - order'[o].placed <= Late
              /\ today' = today
           \/ /\ order[o].state = "unpaid" /\ order'[o].state = "cancelled"
              /\ order'[o].placed = order[o].placed
           \/ /\ order[o].state = "paid" /\ order'[o].state = "refunded"
              /\ order'[o].placed = order[o].placed
<1>1. ASSUME NEW p \in Orders, NEW st \in {"unpaid", "paid", "cancelled", "refunded"}, Buyer(p, st)
      PROVE  \/ order'[o] = order[o]
             \/ order[o].state = "none" /\ order'[o].state = "unpaid" /\ order'[o].placed = today'
             \/ /\ order[o].state = "unpaid" /\ order'[o].state = "paid"
                /\ order'[o].placed = order[o].placed /\ today' - order'[o].placed <= Late
                /\ today' = today
             \/ /\ order[o].state = "unpaid" /\ order'[o].state = "cancelled"
                /\ order'[o].placed = order[o].placed
             \/ /\ order[o].state = "paid" /\ order'[o].state = "refunded"
                /\ order'[o].placed = order[o].placed
  BY <1>1 DEF Buyer, TypeInv, TypeOK
<1>2. CASE DayPasses
  BY <1>2 DEF DayPasses
<1>3. ASSUME NEW s \in Sessions, Tick(s) \/ Requests(s) PROVE order' = order
  BY <1>3 DEF Tick, Requests, FetchButton, Disconnect, Connect, Import, RemoveSource, BootSample,
              RemoveSample
<1>4. ASSUME NEW s \in Sessions, Steps(s) \/ Die(s) PROVE order' = order
  BY <1>4 DEF Steps, Die, ReadMark, Fetch, ImportRow, InsertRow, ImportDone, Mark
<1>5. CASE UNCHANGED vars
  BY <1>5 DEF vars
<1>6. QED
  BY <1>1, <1>2, <1>3, <1>4, <1>5 DEF Next

\* A session that starts or ends something holds no order's line.
LEMMA RestRows ==
    ASSUME NEW todo \in SUBSET Sellers
    PROVE  Rest(todo).rows = {} /\ Rest(todo).row = NoSale
BY DEF Rest, Begin, Idle

\* Session t holds order o's line.
Holds(t, o) == o \in sess[t].rows \/ o = sess[t].row

\* A session only comes to hold lines of orders that are paid by then.
LEMMA RowsStep ==
    ASSUME TypeInv, [Next]_vars, NEW t \in Sessions, NEW o \in Orders, Holds(t, o)'
    PROVE  Holds(t, o) \/ order[o].state = "paid"
<1> USE DEF Holds
<1>0. sess \in [Sessions -> Locals] /\ o # NoSale /\ o \notin Feed
  BY ArchiveAssumption DEF TypeInv, TypeOK, Sales
<1>1. CASE UNCHANGED sess
  BY <1>1
<1>2. ASSUME NEW s \in Sessions, Tick(s) \/ Requests(s) \/ Steps(s) \/ Die(s), ~ UNCHANGED sess
      PROVE  Holds(t, o) \/ order[o].state = "paid"
  <2> USE <1>0
  <2>1. CASE s # t
    <3>1. sess'[t] = sess[t]
      BY <1>2, <2>1 DEF Tick, Requests, FetchButton, Disconnect, Connect, Import, RemoveSource, BootSample,
              RemoveSample, Steps, Die, ReadMark, Fetch, ImportRow, InsertRow, ImportDone, Mark, Over
    <3>2. QED
      BY <3>1
  <2>2. CASE s = t
    <3> USE <2>2
    <3>1. CASE Over(s)
      <4>1. sess[s].todo \in SUBSET Sellers
        BY DEF Locals
      <4>2. QED
        BY <3>1, <4>1, RestRows DEF Over
    <3>2. CASE Tick(s)
      <4>1. {x \in Sellers : Connected(x)} \in SUBSET Sellers
        OBVIOUS
      <4>2. QED
        BY <3>2, <4>1, RestRows DEF Tick
    <3>3. CASE Requests(s)
      <4>1. ASSUME NEW x \in Sellers, sess' = [sess EXCEPT ![s] = Begin(x, {})] PROVE FALSE
        BY <4>1 DEF Begin, Idle
      <4>2. ASSUME NEW source, sess' = [sess EXCEPT ![s] = [Idle EXCEPT !.pc = "import",
                                                    !.rows = {f \in Feed : SourceOf[f] = source}]]
            PROVE  FALSE
        BY <4>2 DEF Idle
      <4>3. ASSUME NEW x \in Sellers, FetchButton(s, x) \/ \E a \in Accounts : Connect(s, x, a)
            PROVE  FALSE
        BY <4>1, <4>3 DEF FetchButton, Connect
      <4>4. ASSUME NEW source \in Sources, Import(s, source) PROVE FALSE
        BY <4>2, <4>4 DEF Import
      <4>5. CASE BootSample(s)
        BY <4>2, <4>5 DEF BootSample
      <4>6. ASSUME NEW x \in Sellers, Disconnect(s, x) PROVE FALSE
        BY <1>2, <4>6 DEF Disconnect
      <4>7. ASSUME NEW source \in Sources, RemoveSource(s, source) PROVE FALSE
        BY <1>2, <4>7 DEF RemoveSource
      <4>8. ~RemoveSample(s)
        BY <1>2 DEF RemoveSample
      <4>9. QED
        BY <3>3, <4>3, <4>4, <4>5, <4>6, <4>7, <4>8 DEF Requests
    <3>4. CASE Die(s) \/ ImportDone(s)
      <4>1. sess' = [sess EXCEPT ![s] = Idle]
        BY <3>4 DEF Die, ImportDone
      <4>2. QED
        BY <4>1 DEF Idle
    <3>5. CASE Fetch(s) /\ ~Over(s)
      <4> DEFINE rows == SoldLines(conn[sess[s].who].account, sess[s].since)
      <4>1. \A p \in rows : order[p].state = "paid"
        BY DEF SoldLines
      <4> HIDE DEF rows
      <4>2. sess' = [sess EXCEPT ![s] = [sess[s] EXCEPT !.pc = "import", !.rows = rows]]
        BY <3>5 DEF Fetch, rows
      <4>3. sess'[s].rows = rows /\ sess'[s].row = sess[s].row
        BY <4>2 DEF Locals
      <4>4. QED
        BY <4>1, <4>3
    <3>6. CASE ReadMark(s) /\ ~Over(s)
      <4>1. sess'[s].rows = sess[s].rows /\ sess'[s].row = sess[s].row
        BY <3>6 DEF ReadMark, Locals
      <4>2. QED
        BY <4>1
    <3>7. CASE ImportRow(s)
      <4>1. PICK q \in sess[s].rows :
               \/ sess' = [sess EXCEPT ![s].rows = @ \ {q}]
               \/ sess' = [sess EXCEPT ![s].rows = @ \ {q}, ![s].pc = "insert", ![s].row = q]
        BY <3>7 DEF ImportRow
      <4>2. sess'[s].rows \subseteq sess[s].rows /\ sess'[s].row \in {sess[s].row, q}
        BY <4>1 DEF Locals
      <4>3. QED
        BY <4>2
    <3>8. CASE InsertRow(s)
      <4>1. sess'[s].rows = sess[s].rows /\ sess'[s].row = NoSale
        BY <3>8 DEF InsertRow, Locals
      <4>2. QED
        BY <4>1
    <3>9. QED
      BY <1>2, <3>1, <3>2, <3>3, <3>4, <3>5, <3>6, <3>7, <3>8 DEF Steps, Mark
  <2>3. QED
    BY <2>1, <2>2
<1>3. QED
  BY <1>1, <1>2 DEF Next, Buyer, DayPasses, vars

\* A row of the archive is written by a session that holds its line.
LEMMA ArchiveStep ==
    ASSUME TypeInv, [Next]_vars, NEW o \in Orders, archive'[o] > 0
    PROVE  archive[o] > 0 \/ \E s \in Sessions : Holds(s, o)
<1>0. archive \in [Sales -> Nat] /\ o \in Sales
  BY DEF TypeInv, TypeOK, Sales
<1>1. CASE UNCHANGED archive
  BY <1>1
<1>2. ASSUME NEW s \in Sessions, ImportRow(s) \/ InsertRow(s)
      PROVE  archive[o] > 0 \/ Holds(s, o)
  BY <1>0, <1>2 DEF ImportRow, InsertRow, Holds
<1>3. ASSUME NEW s \in Sessions, RemoveSample(s) \/ \E source \in Sources : RemoveSource(s, source)
      PROVE  archive[o] > 0
  BY <1>0, <1>3 DEF RemoveSample, RemoveSource
<1>4. ASSUME NEW s \in Sessions, Tick(s) \/ Requests(s) \/ Steps(s) \/ Die(s), ~ UNCHANGED archive
      PROVE  ImportRow(s) \/ InsertRow(s) \/ RemoveSample(s) \/ \E source \in Sources : RemoveSource(s, source)
  BY <1>4 DEF Tick, Requests, FetchButton, Disconnect, Connect, Import, BootSample,
              Steps, Die, ReadMark, Fetch, ImportDone, Mark
<1>5. QED
  BY <1>1, <1>2, <1>3, <1>4 DEF Next, Buyer, DayPasses, vars

LEMMA PaidNext == TypeInv /\ PaidInv /\ [Next]_vars => PaidInv'
<1> SUFFICES ASSUME TypeInv, PaidInv, [Next]_vars PROVE PaidInv'
  OBVIOUS
<1>1. \A o \in Orders : Sold(o) => Sold(o)'
  BY OrderStep DEF Sold
<1>2. \A s \in Sessions, o \in Orders : Holds(s, o) => Sold(o)
  BY DEF PaidInv, Holds
<1>3. \A o \in Orders : archive'[o] > 0 => Sold(o)'
  BY <1>1, <1>2, ArchiveStep DEF PaidInv, OnlyPaid, Sold
<1>4. \A s \in Sessions, o \in Orders : Holds(s, o)' => Sold(o)'
  BY <1>1, <1>2, RowsStep DEF Sold
<1>5. QED
  BY <1>3, <1>4 DEF PaidInv, OnlyPaid, Sold, Holds

\* Whatever the archive holds of eBay's orders has been paid.
THEOREM PaidOnly == Spec => []OnlyPaid
<1>1. PaidInv => OnlyPaid
  BY DEF PaidInv
<1>2. QED
  BY TypeInit, TypeNext, PaidInit, PaidNext, <1>1, PTL DEF Spec

-----------------------------------------------------------------------------
(* No paid order gets out of the harvest's reach.                          *)

\* Buyers pay soon enough, and a harvest is quick enough, for the overlap.
Punctual == Late + Slow <= Overlap

\* A seller signs in with one eBay account only.
OneAccountEach == \A x \in Sellers : \A a, b \in MayConnect[x] : a = b

\* A paid order that is not in the archive though nobody took it out.
Missing(o) == order[o].state = "paid" /\ archive[o] = 0 /\ o \notin removed

\* The days that are written down are not in the future, and harvests end in time.
CalendarInv ==
    /\ \A x \in Sellers : conn[x].mark <= today
    /\ \A o \in Orders : order[o].placed <= today
    /\ \A s \in Sessions : sess[s].who # NoSeller => /\ sess[s].began <= today
                                                     /\ today <= sess[s].began + Slow

AccountInv ==
    \A x \in Sellers : \/ conn[x] = Off
                       \/ conn[x].account \in MayConnect[x]

\* Before eBay has answered, every missing order is among those asked for, and will be.
FetchOK(r) ==
    r.pc = "fetch" =>
        /\ r.since <= 0 \/ r.since + Late <= r.began
        /\ \A o \in Orders : AccountOf[o] \in MayConnect[r.who] /\ Missing(o) => order[o].placed >= r.since

\* After that, what is missing and not in hand was paid too late to be in the answer.
ImportOK(r) ==
    r.pc \in {"import", "insert"} /\ r.who # NoSeller =>
        \A o \in Orders : AccountOf[o] \in MayConnect[r.who] /\ Missing(o) /\ o \notin r.rows
                             => order[o].placed + Late >= r.began

ReachInv == /\ CalendarInv /\ AccountInv /\ NoneOutOfReach
            /\ \A s \in Sessions : FetchOK(sess[s]) /\ ImportOK(sess[s])

LEMMA ReachInit == Init => ReachInv
BY ArchiveAssumption
   DEF Init, ReachInv, CalendarInv, AccountInv, NoneOutOfReach, FetchOK, ImportOK, Idle, Off, Connected, Never

\* An order that is missing after a step was missing before, or has just been paid.
LEMMA MissingStep ==
    ASSUME TypeInv, [Next]_vars, NEW o \in Orders, Missing(o)'
    PROVE  \/ Missing(o) /\ order'[o].placed = order[o].placed
           \/ order'[o].placed + Late >= today' /\ today' = today
<1>0. /\ archive \in [Sales -> Nat] /\ o \in Sales
      /\ order \in [Orders -> OrderRec] /\ order' \in [Orders -> OrderRec]
      /\ today \in Days /\ today' \in Days
  BY TypeNext DEF TypeInv, TypeOK, Sales
<1>1. archive[o] = 0 /\ o \notin removed
  <2>1. CASE UNCHANGED <<archive, removed>>
    BY <2>1 DEF Missing
  <2>2. ASSUME NEW s \in Sessions, ImportRow(s) \/ InsertRow(s) \/ RemoveSample(s)
                 \/ \E source \in Sources : RemoveSource(s, source)
        PROVE  archive[o] = 0 /\ o \notin removed
    <3>1. CASE ImportRow(s)
      <4>1. PICK q \in sess[s].rows :
              \/ archive' = [archive EXCEPT ![q] = 1] /\ removed' = removed \ {q}
              \/ UNCHANGED <<archive, removed>>
        BY <3>1 DEF ImportRow
      <4>2. QED
        BY <1>0, <4>1 DEF Missing
    <3>2. CASE InsertRow(s)
      <4>1. archive' = [archive EXCEPT ![sess[s].row] = @ + 1] /\ removed' = removed
        BY <3>2 DEF InsertRow
      <4>2. QED
        BY <1>0, <4>1 DEF Missing
    <3>3. CASE RemoveSample(s)
      BY <1>0, <3>3, ArchiveAssumption DEF RemoveSample, Missing
    <3>4. ASSUME NEW source \in Sources, RemoveSource(s, source) PROVE archive[o] = 0 /\ o \notin removed
      BY <1>0, <3>4, ArchiveAssumption DEF RemoveSource, Missing
    <3>5. QED
      BY <2>2, <3>1, <3>2, <3>3, <3>4
  <2>3. ASSUME NEW s \in Sessions, Tick(s) \/ Requests(s) \/ Steps(s) \/ Die(s),
               ~ UNCHANGED <<archive, removed>>
        PROVE  ImportRow(s) \/ InsertRow(s) \/ RemoveSample(s)
                 \/ \E source \in Sources : RemoveSource(s, source)
    BY <2>3 DEF Tick, Requests, FetchButton, Disconnect, Connect, Import, BootSample,
                Steps, Die, ReadMark, Fetch, ImportDone, Mark
  <2>4. QED
    BY <2>1, <2>2, <2>3 DEF Next, Buyer, DayPasses, vars
<1>2. QED
  BY <1>0, <1>1, OrderStep, ArchiveAssumption DEF Missing, OrderRec, Days

\* What becomes of a connection in one step.
LEMMA ConnStep ==
    ASSUME TypeInv, [Next]_vars, NEW x \in Sellers
    PROVE  \/ conn'[x] = conn[x]
           \/ conn'[x] = Off
           \/ \E a \in MayConnect[x] : conn'[x] = [conn[x] EXCEPT !.account = a]
           \/ \E s \in Sessions : /\ Mark(s) /\ sess[s].who = x /\ Connected(x)
                                 /\ conn'[x] = [conn[x] EXCEPT !.mark = today]
<1> USE DEF TypeInv, TypeOK
<1>1. ASSUME NEW s \in Sessions, NEW y \in Sellers, NEW a \in Accounts, Connect(s, y, a)
      PROVE  conn'[x] = conn[x] \/ \E b \in MayConnect[x] : conn'[x] = [conn[x] EXCEPT !.account = b]
  BY <1>1 DEF Connect
<1>2. ASSUME NEW s \in Sessions, NEW y \in Sellers, Disconnect(s, y)
      PROVE  conn'[x] = conn[x] \/ conn'[x] = Off
  BY <1>2 DEF Disconnect
<1>3. ASSUME NEW s \in Sessions, Mark(s)
      PROVE  \/ conn'[x] = conn[x]
             \/ sess[s].who = x /\ Connected(x) /\ conn'[x] = [conn[x] EXCEPT !.mark = today]
  BY <1>3 DEF Mark
<1>4. ASSUME NEW s \in Sessions, Tick(s) \/ Requests(s) \/ Steps(s) \/ Die(s), ~ UNCHANGED conn
      PROVE  Mark(s) \/ (\E y \in Sellers : Disconnect(s, y) \/ \E a \in Accounts : Connect(s, y, a))
  BY <1>4 DEF Tick, Requests, FetchButton, Import, RemoveSource, BootSample,
          RemoveSample, Steps, Die, ReadMark, Fetch, ImportRow, InsertRow, ImportDone
<1>5. CASE UNCHANGED conn
  BY <1>5
<1>6. QED
  BY <1>1, <1>2, <1>3, <1>4, <1>5 DEF Next, Buyer, DayPasses, vars

LEMMA MarkStep ==
    ASSUME TypeInv, [Next]_vars, NEW x \in Sellers
    PROVE  \/ conn'[x].mark = conn[x].mark
           \/ conn'[x].mark = Never
           \/ conn'[x].mark = today /\ \E s \in Sessions : Mark(s) /\ sess[s].who = x
<1>1. conn[x] \in ConnRec
  BY DEF TypeInv, TypeOK
<1>2. CASE conn'[x] = conn[x] \/ conn'[x] = Off
  BY <1>2 DEF Off
<1>3. ASSUME NEW a \in MayConnect[x], conn'[x] = [conn[x] EXCEPT !.account = a]
      PROVE  conn'[x].mark = conn[x].mark
  BY <1>1, <1>3 DEF ConnRec
<1>4. ASSUME conn'[x] = [conn[x] EXCEPT !.mark = today] PROVE conn'[x].mark = today
  BY <1>1, <1>4 DEF ConnRec
<1>5. QED
  BY <1>2, <1>3, <1>4, ConnStep

\* What session t's record may become: the same, a fresh start, or one statement further.
Unmoved(t) == sess'[t] = sess[t]
Started(t) == /\ sess'[t].pc \in {"idle", "begin", "import"}
              /\ sess'[t].pc = "import" => sess'[t].who = NoSeller
              /\ sess'[t].who # NoSeller => sess'[t].began = today
Kept(t) == sess'[t].who = sess[t].who /\ sess'[t].began = sess[t].began /\ UNCHANGED <<order, archive, removed>>
Asking(t) == /\ Kept(t) /\ Connected(sess[t].who) /\ sess[t].who \in Sellers
             /\ sess'[t].pc = "fetch"
             /\ sess'[t].since = Since(conn[sess[t].who].mark)
Answered(t) == /\ Kept(t) /\ Connected(sess[t].who) /\ sess[t].who \in Sellers
               /\ sess[t].pc = "fetch" /\ sess'[t].pc = "import"
               /\ sess'[t].rows = SoldLines(conn[sess[t].who].account, sess[t].since)
Filing(t) == /\ sess'[t].who = sess[t].who /\ sess'[t].began = sess[t].began
             /\ sess[t].pc \in {"import", "insert"} /\ sess'[t].pc \in {"import", "insert"}
             /\ \A o \in Orders : o \in sess[t].rows /\ o \notin sess'[t].rows => ~Missing(o)'

LEMMA RestStarts ==
    ASSUME NEW todo \in SUBSET Sellers
    PROVE  Rest(todo).pc \in {"idle", "begin"} /\ (Rest(todo).who # NoSeller => Rest(todo).began = today)
BY DEF Rest, Begin, Idle

LEMMA RecordStep ==
    ASSUME TypeInv, [Next]_vars, NEW t \in Sessions
    PROVE  \/ Unmoved(t)
           \/ today' = today /\ (Started(t) \/ Asking(t) \/ Answered(t) \/ Filing(t))
<1>0. sess \in [Sessions -> Locals] /\ LocalOK(sess[t])
  BY DEF TypeInv, TypeOK
<1>1. CASE UNCHANGED sess
  BY <1>1 DEF Unmoved
<1>2. ASSUME NEW s \in Sessions, Tick(s) \/ Requests(s) \/ Steps(s) \/ Die(s), ~ UNCHANGED sess
      PROVE  Unmoved(t) \/ Started(t) \/ Asking(t) \/ Answered(t) \/ Filing(t)
  <2> USE <1>0
  <2>1. CASE s # t
    BY <1>2, <2>1 DEF Tick, Requests, FetchButton, Disconnect, Connect, Import, RemoveSource, BootSample,
            RemoveSample, Steps, Die, ReadMark, Fetch, ImportRow, InsertRow, ImportDone, Mark, Over, Unmoved
  <2>2. CASE s = t
    <3> USE <2>2
    <3>1. CASE Over(s)
      <4>1. sess[s].todo \in SUBSET Sellers
        BY DEF Locals
      <4>2. sess'[t] = Rest(sess[s].todo)
        BY <3>1 DEF Over
      <4>3. QED
        BY <4>1, <4>2, RestStarts DEF Started
    <3>2. CASE Tick(s)
      <4>1. {x \in Sellers : Connected(x)} \in SUBSET Sellers
        OBVIOUS
      <4>2. sess'[t] = Rest({x \in Sellers : Connected(x)})
        BY <3>2 DEF Tick
      <4>3. QED
        BY <4>1, <4>2, RestStarts DEF Started
    <3>3. CASE Requests(s)
      <4>1. ASSUME NEW x \in Sellers, sess' = [sess EXCEPT ![s] = Begin(x, {})] PROVE Started(t)
        BY <4>1 DEF Begin, Idle, Started
      <4>2. ASSUME NEW rows, sess' = [sess EXCEPT ![s] = [Idle EXCEPT !.pc = "import", !.rows = rows]]
            PROVE  Started(t)
        BY <4>2 DEF Idle, Started
      <4>3. ASSUME NEW x \in Sellers, FetchButton(s, x) \/ \E a \in Accounts : Connect(s, x, a)
            PROVE  Started(t)
        BY <4>1, <4>3 DEF FetchButton, Connect
      <4>4. ASSUME NEW source \in Sources, Import(s, source) PROVE Started(t)
        BY <4>2, <4>4 DEF Import
      <4>5. CASE BootSample(s)
        BY <4>2, <4>5 DEF BootSample
      <4>6. ASSUME NEW x \in Sellers, Disconnect(s, x) PROVE FALSE
        BY <1>2, <4>6 DEF Disconnect
      <4>7. ASSUME NEW source \in Sources, RemoveSource(s, source) PROVE FALSE
        BY <1>2, <4>7 DEF RemoveSource
      <4>8. ~RemoveSample(s)
        BY <1>2 DEF RemoveSample
      <4>9. QED
        BY <3>3, <4>3, <4>4, <4>5, <4>6, <4>7, <4>8 DEF Requests
    <3>4. CASE Die(s) \/ ImportDone(s)
      <4>1. sess'[t] = Idle
        BY <3>4 DEF Die, ImportDone
      <4>2. QED
        BY <4>1 DEF Idle, Started
    <3>5. CASE ReadMark(s) /\ ~Over(s)
      <4> DEFINE since == Since(conn[sess[s].who].mark)
      <4> HIDE DEF since
      <4>1. sess' = [sess EXCEPT ![s].pc = "fetch", ![s].since = since]
            /\ Connected(sess[s].who) /\ sess[s].pc = "begin" /\ UNCHANGED <<order, archive, removed>>
        BY <3>5 DEF ReadMark, since
      <4>2. /\ sess'[t].pc = "fetch" /\ sess'[t].since = since
            /\ sess'[t].who = sess[t].who /\ sess'[t].began = sess[t].began
        BY <4>1 DEF Locals
      <4>3. QED
        BY <4>1, <4>2 DEF Asking, Kept, LocalOK, since
    <3>6. CASE Fetch(s) /\ ~Over(s)
      <4> DEFINE rows == SoldLines(conn[sess[s].who].account, sess[s].since)
      <4> HIDE DEF rows
      <4>1. sess' = [sess EXCEPT ![s] = [sess[s] EXCEPT !.pc = "import", !.rows = rows]]
            /\ Connected(sess[s].who) /\ sess[s].pc = "fetch" /\ UNCHANGED <<order, archive, removed>>
        BY <3>6 DEF Fetch, rows
      <4>2. /\ sess'[t].pc = "import" /\ sess'[t].rows = rows
            /\ sess'[t].who = sess[t].who /\ sess'[t].began = sess[t].began
        BY <4>1 DEF Locals
      <4>3. QED
        BY <4>1, <4>2 DEF Answered, Kept, LocalOK, rows
    <3>7. CASE ImportRow(s)
      <4>1. PICK q \in sess[s].rows :
               \/ /\ q \in Orders \cup Keyed
                  /\ archive' = [archive EXCEPT ![q] = 1]
                  /\ sess' = [sess EXCEPT ![s].rows = @ \ {q}]
               \/ /\ q \notin Orders
                  /\ \/ sess' = [sess EXCEPT ![s].rows = @ \ {q}]
                     \/ sess' = [sess EXCEPT ![s].rows = @ \ {q}, ![s].pc = "insert", ![s].row = q]
        BY <3>7 DEF ImportRow
      <4>2. /\ sess'[t].rows = sess[t].rows \ {q}
            /\ sess[t].pc = "import" /\ sess'[t].pc \in {"import", "insert"}
            /\ sess'[t].who = sess[t].who /\ sess'[t].began = sess[t].began
        BY <3>7, <4>1 DEF Locals, ImportRow
      <4>3. q \in Orders => archive'[q] = 1
        BY <4>1 DEF TypeInv, TypeOK, Sales
      <4>4. QED
        BY <4>2, <4>3 DEF Filing, Missing
    <3>8. CASE InsertRow(s)
      <4>1. /\ sess'[t].rows = sess[t].rows
            /\ sess[t].pc = "insert" /\ sess'[t].pc = "import"
            /\ sess'[t].who = sess[t].who /\ sess'[t].began = sess[t].began
        BY <3>8 DEF InsertRow, Locals
      <4>2. QED
        BY <4>1 DEF Filing
    <3>9. QED
      BY <1>2, <3>1, <3>2, <3>3, <3>4, <3>5, <3>6, <3>7, <3>8 DEF Steps, Mark
  <2>3. QED
    BY <2>1, <2>2
<1>3. ASSUME NEW s \in Sessions, Tick(s) \/ Requests(s) \/ Steps(s) \/ Die(s) PROVE today' = today
  BY <1>3 DEF Tick, Requests, FetchButton, Disconnect, Connect, Import, RemoveSource, BootSample,
              RemoveSample, Steps, Die, ReadMark, Fetch, ImportRow, InsertRow, ImportDone, Mark
<1>4. QED
  BY <1>1, <1>2, <1>3 DEF Next, Buyer, DayPasses, vars

LEMMA CalendarNext == TypeInv /\ CalendarInv /\ [Next]_vars => CalendarInv'
<1> SUFFICES ASSUME TypeInv, CalendarInv, [Next]_vars PROVE CalendarInv'
  OBVIOUS
<1>0. /\ today \in Int /\ Slow \in Nat /\ TypeOK
      /\ \A o \in Orders : order[o].placed \in Int
      /\ \A x \in Sellers : conn[x] \in ConnRec /\ conn[x].mark \in Int
      /\ \A s \in Sessions : sess[s].began \in Int
  BY ArchiveAssumption DEF TypeInv, TypeOK, OrderRec, ConnRec, Locals, Days, Never
<1> USE <1>0
<1>1. DayPasses \/ today' = today
  BY DEF Next, Buyer, Tick, Requests, FetchButton, Disconnect, Connect, Import, RemoveSource,
         BootSample, RemoveSample, Steps, Die, ReadMark, Fetch, ImportRow, InsertRow, ImportDone, Mark, vars
<1>2. CASE DayPasses
  BY <1>2 DEF DayPasses, CalendarInv
<1>3. CASE today' = today
  <2>1. \A o \in Orders : order'[o].placed <= today'
    <3> TAKE o \in Orders
    <3>1. order'[o] = order[o] \/ order'[o].placed = today' \/ order'[o].placed = order[o].placed
      BY OrderStep
    <3>2. QED
      BY <1>3, <3>1 DEF CalendarInv
  <2>2. \A x \in Sellers : conn'[x].mark <= today'
    <3> TAKE x \in Sellers
    <3>1. conn'[x].mark = conn[x].mark \/ conn'[x].mark = Never \/ conn'[x].mark = today
      BY MarkStep
    <3>2. QED
      BY <1>3, <3>1, ArchiveAssumption DEF CalendarInv, Never, TypeOK, Days
  <2>3. \A t \in Sessions : sess'[t].who # NoSeller => /\ sess'[t].began <= today'
                                                      /\ today' <= sess'[t].began + Slow
    <3> TAKE t \in Sessions
    <3>1. \/ sess'[t].who = sess[t].who /\ sess'[t].began = sess[t].began
          \/ sess'[t].who # NoSeller => sess'[t].began = today
      BY RecordStep DEF Unmoved, Started, Asking, Answered, Kept, Filing
    <3>2. QED
      BY <1>3, <3>1 DEF CalendarInv
  <2>4. QED
    BY <2>1, <2>2, <2>3 DEF CalendarInv
<1>4. QED
  BY <1>1, <1>2, <1>3

LEMMA AccountNext == TypeInv /\ AccountInv /\ [Next]_vars => AccountInv'
<1> SUFFICES ASSUME TypeInv, AccountInv, [Next]_vars, NEW x \in Sellers
             PROVE  conn'[x] = Off \/ conn'[x].account \in MayConnect[x]
  BY DEF AccountInv
<1>1. conn[x] \in ConnRec
  BY DEF TypeInv, TypeOK
<1>2. QED
  BY <1>1, ConnStep DEF AccountInv, ConnRec, Connected

LEMMA ReachNext ==
    ASSUME Punctual, OneAccountEach
    PROVE  TypeInv /\ ReachInv /\ [Next]_vars => ReachInv'
<1> SUFFICES ASSUME TypeInv, ReachInv, [Next]_vars PROVE ReachInv'
  OBVIOUS
<1>1. CalendarInv' /\ AccountInv' /\ TypeInv'
  BY CalendarNext, AccountNext, TypeNext DEF ReachInv
<1>2. /\ today \in Nat /\ today' \in Nat /\ today' <= LastDay
      /\ \A o \in Orders : order[o].placed \in Nat /\ order'[o].placed \in Nat /\ AccountOf[o] \in Accounts
      /\ \A x \in Sellers : conn[x] \in ConnRec /\ conn'[x] \in ConnRec
      /\ \A s \in Sessions : sess[s] \in Locals /\ sess'[s] \in Locals
      /\ {Overlap, Backfill, Late, Slow, LastDay} \subseteq Nat /\ Backfill >= LastDay
      /\ Late + Slow <= Overlap
  BY <1>1, ArchiveAssumption DEF TypeInv, TypeOK, OrderRec, Days, Punctual
<1> USE <1>2
<1>3. NoneOutOfReach'
  <2> SUFFICES ASSUME NEW x \in Sellers, NEW o \in Orders,
                      Connected(x)', conn'[x].account = AccountOf[o], Missing(o)'
               PROVE  order'[o].placed >= IF conn'[x].mark = Never THEN today' - Backfill
                                          ELSE conn'[x].mark - Overlap
    BY DEF NoneOutOfReach, Missing
  <2>1. CASE conn'[x].mark = Never
    BY <2>1
  <2>2. CASE conn'[x].mark # Never
    <3>1. conn'[x].mark \in Nat /\ conn'[x].mark <= today'
      BY <1>1, <2>2 DEF CalendarInv, ConnRec, Days
    <3>2. CASE order'[o].placed + Late >= today'
      BY <2>2, <3>1, <3>2
    <3>3. CASE Missing(o) /\ order'[o].placed = order[o].placed
      <4>1. CASE conn'[x].mark = conn[x].mark
        <5>1. conn[x] # Off /\ conn[x].account \in MayConnect[x] /\ conn'[x].account \in MayConnect[x]
          BY <1>1, <2>2, <4>1 DEF Off, AccountInv, ReachInv, Connected, Never
        <5>2. conn[x].account = AccountOf[o]
          BY <5>1 DEF OneAccountEach
        <5>3. order[o].placed >= conn[x].mark - Overlap
          BY <2>2, <3>3, <4>1, <5>1, <5>2 DEF ReachInv, NoneOutOfReach, Missing, Connected
        <5>4. QED
          BY <2>2, <3>3, <4>1, <5>3
      <4>2. ASSUME NEW s \in Sessions, Mark(s), sess[s].who = x, conn'[x].mark = today
            PROVE  order[o].placed >= today - Overlap
        <5>1. sess[s].pc = "import" /\ sess[s].rows = {} /\ sess[s].who # NoSeller
          BY <4>2 DEF Mark
        <5>2. AccountOf[o] \in MayConnect[x]
          BY <1>1 DEF AccountInv, Connected
        <5>3. order[o].placed + Late >= sess[s].began
          BY <3>3, <4>2, <5>1, <5>2 DEF ReachInv, ImportOK
        <5>4. sess[s].began \in Nat /\ today <= sess[s].began + Slow
          BY <5>1 DEF ReachInv, CalendarInv, Locals, Days
        <5>5. QED
          BY <5>3, <5>4
      <4>3. \/ conn'[x].mark = conn[x].mark
            \/ conn'[x].mark = Never
            \/ \E s \in Sessions : Mark(s) /\ sess[s].who = x /\ conn'[x].mark = today
        BY MarkStep
      <4>4. QED
        BY <2>2, <3>3, <4>1, <4>2, <4>3
    <3>4. QED
      BY <3>2, <3>3, MissingStep
  <2>3. QED
    BY <2>1, <2>2
<1>4. ASSUME NEW t \in Sessions PROVE FetchOK(sess[t])' /\ ImportOK(sess[t])'
  <2>0. FetchOK(sess[t]) /\ ImportOK(sess[t]) /\ sess[t].began \in Nat /\ sess[t].since \in Int
        /\ (sess[t].who # NoSeller => sess[t].began <= today /\ today <= sess[t].began + Slow)
    BY DEF ReachInv, CalendarInv, Locals, Days
  <2>1. CASE Unmoved(t)
    <3>1. ASSUME sess[t].pc = "fetch", NEW o \in Orders, AccountOf[o] \in MayConnect[sess[t].who], Missing(o)'
          PROVE  order'[o].placed >= sess[t].since
      <4>1. sess[t].who # NoSeller
        BY <3>1, ArchiveAssumption DEF TypeInv, LocalOK
      <4>2. QED
        BY <2>0, <3>1, <4>1, MissingStep DEF FetchOK
    <3>2. ASSUME sess[t].pc \in {"import", "insert"}, sess[t].who # NoSeller, NEW o \in Orders,
                 AccountOf[o] \in MayConnect[sess[t].who], Missing(o)', o \notin sess[t].rows
          PROVE  order'[o].placed + Late >= sess[t].began
      BY <2>0, <3>2, MissingStep DEF ImportOK
    <3>3. QED
      BY <2>0, <2>1, <3>1, <3>2 DEF Unmoved, FetchOK, ImportOK, Missing
  <2>2. CASE Started(t)
    BY <2>2 DEF Started, FetchOK, ImportOK
  <2>3. CASE Asking(t)
    <3> DEFINE x == sess[t].who
    <3>1. x \in Sellers /\ Connected(x) /\ x # NoSeller
      BY <2>3, ArchiveAssumption DEF Asking
    <3>2. sess'[t].since <= 0 \/ sess'[t].since + Late <= sess'[t].began
      <4>1. CASE conn[x].mark = Never
        <5>1. sess'[t].since = today - Backfill
          BY <2>3, <4>1 DEF Asking, Since
        <5>2. today <= LastDay
          BY DEF TypeInv, TypeOK, Days
        <5>3. QED
          BY <5>1, <5>2
      <4>2. CASE conn[x].mark # Never
        <5>1. conn[x].mark \in Nat /\ conn[x].mark <= today
          BY <3>1, <4>2 DEF ReachInv, CalendarInv, ConnRec, Days
        <5>2. sess'[t].since = conn[x].mark - Overlap /\ sess'[t].began = sess[t].began
          BY <2>3, <4>2 DEF Asking, Since, Kept
        <5>3. QED
          BY <2>0, <3>1, <5>1, <5>2
      <4>3. QED
        BY <4>1, <4>2
    <3>3. ASSUME NEW o \in Orders, AccountOf[o] \in MayConnect[x], Missing(o)
          PROVE  order[o].placed >= sess'[t].since
      <4>1. conn[x].account = AccountOf[o]
        BY <3>1, <3>3 DEF ReachInv, AccountInv, Connected, OneAccountEach
      <4>2. order[o].placed >= Since(conn[x].mark)
        BY <3>1, <3>3, <4>1 DEF ReachInv, NoneOutOfReach, Missing, Since
      <4>3. QED
        BY <2>3, <4>2 DEF Asking
    <3>4. QED
      BY <2>3, <3>2, <3>3 DEF Asking, Kept, FetchOK, ImportOK, Missing
  <2>4. CASE Answered(t)
    <3> DEFINE x == sess[t].who
    <3>1. ASSUME NEW o \in Orders, AccountOf[o] \in MayConnect[x], Missing(o) PROVE o \in sess'[t].rows
      <4>1. conn[x].account = AccountOf[o]
        BY <2>4, <3>1 DEF Answered, ReachInv, AccountInv, Connected, OneAccountEach
      <4>2. order[o].placed >= sess[t].since
        BY <2>0, <2>4, <3>1 DEF Answered, FetchOK
      <4>3. QED
        BY <2>4, <3>1, <4>1, <4>2 DEF Answered, SoldLines, Missing
    <3>2. QED
      BY <2>4, <3>1 DEF Answered, Kept, FetchOK, ImportOK, Missing
  <2>5. CASE Filing(t)
    <3>1. ASSUME sess[t].who # NoSeller, NEW o \in Orders, AccountOf[o] \in MayConnect[sess[t].who],
                 Missing(o)', o \notin sess'[t].rows
          PROVE  order'[o].placed + Late >= sess[t].began
      <4>1. o \notin sess[t].rows
        BY <2>5, <3>1 DEF Filing
      <4>2. QED
        BY <2>0, <2>5, <3>1, <4>1, MissingStep DEF ImportOK, Filing
    <3>2. QED
      BY <2>5, <3>1 DEF Filing, FetchOK, ImportOK, Missing
  <2>6. QED
    BY <2>1, <2>2, <2>3, <2>4, <2>5, RecordStep
<1>5. QED
  BY <1>1, <1>3, <1>4 DEF ReachInv

\* With a seller who keeps to one eBay account, buyers who pay within Late days and
\* harvests shorter than Slow days, Late + Slow within OVERLAP_DAYS: no paid order ever
\* falls behind the watermark unarchived, whatever harvests overlap, fail or stop.
THEOREM NoSaleMissed ==
    ASSUME Punctual, OneAccountEach
    PROVE  Spec => []NoneOutOfReach
<1>1. ReachInv => NoneOutOfReach
  BY DEF ReachInv
<1>2. TypeInv /\ ReachInv /\ [Next]_vars => ReachInv'
  BY ReachNext
<1>3. QED
  BY TypeInit, TypeNext, ReachInit, <1>1, <1>2, PTL DEF Spec

-----------------------------------------------------------------------------
(* A sale is archived once.                                                *)

\* The owner's requests are served one at a time.
OneOwner == \A s, t \in Sessions : "owner" \in Serves[s] /\ "owner" \in Serves[t] => s = t

\* Only the owner's request holds a feed's lines, and a row it is about to insert is not there.
OnceInv ==
    /\ SameSaleOnce
    /\ \A s \in Sessions :
          /\ sess[s].rows \cap Feed # {} \/ sess[s].pc = "insert" => "owner" \in Serves[s]
          /\ sess[s].pc = "insert" => sess[s].row \in Feed \ Keyed /\ archive[sess[s].row] = 0

LEMMA OnceInit == Init => OnceInv
BY DEF Init, OnceInv, SameSaleOnce, Idle, Sales

\* A session comes to hold a feed's lines by the owner's import, and to insert a row by
\* finding it is not there.
LEMMA HandStep ==
    ASSUME TypeInv, [Next]_vars, NEW t \in Sessions
    PROVE  \/ sess'[t] = sess[t] /\ ~ InsertRow(t)
           \/ /\ sess'[t].pc # "insert"
              /\ sess'[t].rows \cap Feed \subseteq sess[t].rows \/ "owner" \in Serves[t]
           \/ /\ sess'[t].pc = "insert" /\ sess'[t].rows \subseteq sess[t].rows
              /\ sess'[t].row \in sess[t].rows \cap (Feed \ Keyed)
              /\ archive' = archive /\ archive[sess'[t].row] = 0
<1> DEFINE Still == sess'[t] = sess[t] /\ ~ InsertRow(t)
           Ready == /\ sess'[t].pc # "insert"
                    /\ sess'[t].rows \cap Feed \subseteq sess[t].rows \/ "owner" \in Serves[t]
           Match == /\ sess'[t].pc = "insert" /\ sess'[t].rows \subseteq sess[t].rows
                    /\ sess'[t].row \in sess[t].rows \cap (Feed \ Keyed)
                    /\ archive' = archive /\ archive[sess'[t].row] = 0
<1>0. /\ sess \in [Sessions -> Locals] /\ archive \in [Sales -> Nat] /\ Orders \cap Feed = {}
      /\ sess[t].rows \subseteq Sales /\ sess[t].todo \in SUBSET Sellers
  BY ArchiveAssumption DEF TypeInv, TypeOK, Locals
<1>1. ASSUME NEW r, sess' = [sess EXCEPT ![t] = r], r.pc # "insert", r.rows = {} PROVE Ready
  BY <1>0, <1>1
<1>2. ASSUME NEW todo \in SUBSET Sellers PROVE Rest(todo).pc # "insert" /\ Rest(todo).rows = {}
  BY DEF Rest, Begin, Idle
<1>3. Over(t) => Ready
  BY <1>0, <1>1, <1>2 DEF Over
<1>4. ASSUME NEW x \in Sellers, sess' = [sess EXCEPT ![t] = Begin(x, {})] PROVE Ready
  <2>1. Begin(x, {}).pc # "insert" /\ Begin(x, {}).rows = {}
    BY DEF Begin, Idle
  <2>2. QED
    BY <1>1, <1>4, <2>1
<1>5. Tick(t) => Ready
  <2>1. {x \in Sellers : Connected(x)} \in SUBSET Sellers
    OBVIOUS
  <2>2. QED
    BY <1>1, <1>2, <2>1 DEF Tick
<1>6. Die(t) \/ ImportDone(t) => Ready
  <2>1. Idle.pc # "insert" /\ Idle.rows = {}
    BY DEF Idle
  <2>2. QED
    BY <1>1, <2>1 DEF Die, ImportDone
<1>7. ASSUME NEW source, Import(t, source) \/ BootSample(t) PROVE Ready
  <2>1. PICK rows : sess' = [sess EXCEPT ![t] = [Idle EXCEPT !.pc = "import", !.rows = rows]]
    BY <1>7 DEF Import, BootSample
  <2>2. sess'[t].pc = "import"
    BY <1>0, <2>1 DEF Idle
  <2>3. QED
    BY <1>7, <2>2 DEF Import, BootSample, Ask
<1>8. Fetch(t) => Ready
  <2>1. ASSUME ~ Over(t), Fetch(t) PROVE Ready
    <3> DEFINE rows == SoldLines(conn[sess[t].who].account, sess[t].since)
    <3>1. rows \cap Feed = {}
      BY <1>0 DEF SoldLines
    <3>2. sess' = [sess EXCEPT ![t] = [sess[t] EXCEPT !.pc = "import", !.rows = rows]]
      BY <2>1 DEF Fetch
    <3> HIDE DEF rows
    <3>3. sess'[t].rows = rows /\ sess'[t].pc = "import"
      BY <1>0, <3>2 DEF Locals
    <3>4. QED
      BY <3>1, <3>3
  <2>2. QED
    BY <1>3, <2>1
<1>9. ReadMark(t) => Ready
  <2>1. ASSUME ~ Over(t), ReadMark(t) PROVE sess'[t].pc = "fetch" /\ sess'[t].rows = sess[t].rows
    BY <1>0, <2>1 DEF ReadMark, Locals
  <2>2. QED
    BY <1>3, <2>1
<1>10. Mark(t) => Ready
  BY <1>3 DEF Mark
<1>11. InsertRow(t) => Ready
  <2>1. InsertRow(t) => sess'[t].pc = "import" /\ sess'[t].rows = sess[t].rows
    BY <1>0 DEF InsertRow, Locals
  <2>2. QED
    BY <2>1
<1>12. ImportRow(t) => Ready \/ Match
  <2> SUFFICES ASSUME ImportRow(t) PROVE Ready \/ Match
    OBVIOUS
  <2>1. PICK q \in sess[t].rows :
           \/ sess' = [sess EXCEPT ![t].rows = @ \ {q}]
           \/ /\ sess' = [sess EXCEPT ![t].rows = @ \ {q}, ![t].pc = "insert", ![t].row = q]
              /\ q \notin Orders \cup Keyed /\ archive' = archive /\ ~ archive[q] > 0
    BY DEF ImportRow
  <2>2. CASE sess' = [sess EXCEPT ![t].rows = @ \ {q}]
    <3>1. sess'[t].rows = sess[t].rows \ {q} /\ sess'[t].pc = "import"
      BY <1>0, <2>2 DEF Locals, ImportRow
    <3>2. QED
      BY <3>1
  <2>3. CASE /\ sess' = [sess EXCEPT ![t].rows = @ \ {q}, ![t].pc = "insert", ![t].row = q]
             /\ q \notin Orders \cup Keyed /\ archive' = archive /\ ~ archive[q] > 0
    <3>1. sess'[t].rows = sess[t].rows \ {q} /\ sess'[t].pc = "insert" /\ sess'[t].row = q
      BY <1>0, <2>3 DEF Locals
    <3>2. q \in Feed \ Keyed /\ archive[q] = 0
      BY <1>0, <2>1, <2>3 DEF Sales
    <3>3. QED
      BY <2>1, <2>3, <3>1, <3>2
  <2>4. QED
    BY <2>1, <2>2, <2>3
<1>13. ASSUME NEW s \in Sessions, s # t, Tick(s) \/ Requests(s) \/ Steps(s) \/ Die(s) PROVE sess'[t] = sess[t]
  BY <1>0, <1>13 DEF Tick, Requests, FetchButton, Disconnect, Connect, Import, RemoveSource, BootSample,
            RemoveSample, Steps, Die, ReadMark, Fetch, ImportRow, InsertRow, ImportDone, Mark, Over
<1>14. ASSUME Requests(t), sess' # sess PROVE Ready
  <2>1. ASSUME NEW x \in Sellers, FetchButton(t, x) \/ \E a \in Accounts : Connect(t, x, a) PROVE Ready
    BY <1>4, <2>1 DEF FetchButton, Connect
  <2>2. ~ RemoveSample(t) /\ ~ (\E source \in Sources : RemoveSource(t, source)) /\ ~ \E x \in Sellers : Disconnect(t, x)
    BY <1>14 DEF RemoveSample, RemoveSource, Disconnect
  <2>3. QED
    BY <1>7, <1>14, <2>1, <2>2 DEF Requests
<1>15. CASE Tick(t) \/ Requests(t) \/ Steps(t) \/ Die(t)
  <2>1. Steps(t) => Ready \/ Match
    BY <1>6, <1>8, <1>9, <1>10, <1>11, <1>12 DEF Steps
  <2>2. ASSUME InsertRow(t) PROVE Ready
    BY <1>11, <2>2
  <2>3. CASE sess' = sess
    BY <2>2, <2>3
  <2>4. QED
    BY <1>5, <1>6, <1>14, <1>15, <2>1, <2>3
<1>16. CASE ~ (Tick(t) \/ Requests(t) \/ Steps(t) \/ Die(t))
  <2>1. ~ InsertRow(t)
    BY <1>16 DEF Steps
  <2>2. sess'[t] = sess[t]
    BY <1>13, <1>16 DEF Next, Buyer, DayPasses, vars
  <2>3. QED
    BY <2>1, <2>2
<1>17. QED
  BY <1>15, <1>16

\* How a sale comes to have more rows: its one row is put there, or another is inserted.
LEMMA RowsGrow ==
    ASSUME TypeInv, [Next]_vars, NEW r \in Sales
    PROVE  \/ archive'[r] <= archive[r]
           \/ archive'[r] = 1 /\ r \in Orders \cup Keyed
           \/ \E s \in Sessions : InsertRow(s) /\ r = sess[s].row /\ archive'[r] = archive[r] + 1
<1>0. archive \in [Sales -> Nat]
  BY DEF TypeInv, TypeOK
<1>1. CASE UNCHANGED archive
  BY <1>0, <1>1
<1>2. ASSUME NEW s \in Sessions, ImportRow(s)
      PROVE  archive'[r] = archive[r] \/ (archive'[r] = 1 /\ r \in Orders \cup Keyed)
  BY <1>0, <1>2 DEF ImportRow
<1>3. ASSUME NEW s \in Sessions, InsertRow(s)
      PROVE  archive'[r] = archive[r] \/ (r = sess[s].row /\ archive'[r] = archive[r] + 1)
  BY <1>0, <1>3 DEF InsertRow
<1>4. ASSUME NEW s \in Sessions, RemoveSample(s) \/ \E source \in Sources : RemoveSource(s, source)
      PROVE  archive'[r] <= archive[r]
  BY <1>0, <1>4 DEF RemoveSample, RemoveSource
<1>5. ASSUME NEW s \in Sessions, Tick(s) \/ Requests(s) \/ Steps(s) \/ Die(s), ~ UNCHANGED archive
      PROVE  ImportRow(s) \/ InsertRow(s) \/ RemoveSample(s) \/ \E source \in Sources : RemoveSource(s, source)
  BY <1>5 DEF Tick, Requests, FetchButton, Disconnect, Connect, Import, BootSample,
              Steps, Die, ReadMark, Fetch, ImportDone, Mark
<1>6. archive[r] \in Nat
  BY <1>0
<1>7. QED
  BY <1>1, <1>2, <1>3, <1>4, <1>5, <1>6 DEF Next, Buyer, DayPasses, vars

LEMMA OnceNext == OneOwner /\ TypeInv /\ OnceInv /\ [Next]_vars => OnceInv'
<1> SUFFICES ASSUME OneOwner, TypeInv, TypeInv', OnceInv, [Next]_vars PROVE OnceInv'
  BY TypeNext
<1>0. archive \in [Sales -> Nat] /\ archive' \in [Sales -> Nat] /\ Feed \subseteq Sales /\ Orders \cap Feed = {}
  BY ArchiveAssumption DEF TypeInv, TypeOK, Sales
<1>1. ASSUME NEW r \in Sales PROVE archive'[r] <= 1
  <2>1. archive[r] <= 1 /\ archive[r] \in Nat /\ archive'[r] \in Nat
    BY <1>0 DEF OnceInv, SameSaleOnce
  <2>2. ASSUME NEW s \in Sessions, InsertRow(s), r = sess[s].row PROVE archive[r] = 0
    BY <2>2 DEF OnceInv, InsertRow
  <2>3. QED
    BY <2>1, <2>2, RowsGrow
<1>2. ASSUME NEW t \in Sessions, sess'[t].rows \cap Feed # {} \/ sess'[t].pc = "insert" PROVE "owner" \in Serves[t]
  BY <1>2, HandStep DEF OnceInv
<1>3. ASSUME NEW t \in Sessions, sess'[t].pc = "insert"
      PROVE  sess'[t].row \in Feed \ Keyed /\ archive'[sess'[t].row] = 0
  <2>1. CASE sess'[t] = sess[t] /\ ~ InsertRow(t)
    <3> DEFINE r == sess[t].row
    <3>1. sess[t].pc = "insert" /\ r \in Feed \ Keyed /\ archive[r] = 0 /\ "owner" \in Serves[t] /\ r \in Sales
      BY <1>0, <1>3, <2>1 DEF OnceInv
    <3>2. ASSUME NEW s \in Sessions, InsertRow(s) PROVE FALSE
      BY <2>1, <3>1, <3>2 DEF OnceInv, InsertRow, OneOwner
    <3>3. archive'[r] \in Nat
      BY <1>0, <3>1
    <3>4. archive'[r] <= archive[r] \/ r \in Orders \cup Keyed
      BY <3>1, <3>2, RowsGrow
    <3>5. archive'[r] = 0
      BY <1>0, <3>1, <3>3, <3>4
    <3>6. QED
      BY <2>1, <3>1, <3>5
  <2>2. CASE ~ (sess'[t] = sess[t] /\ ~ InsertRow(t))
    BY <1>3, <2>2, HandStep
  <2>3. QED
    BY <2>1, <2>2
<1>4. QED
  BY <1>1, <1>2, <1>3 DEF OnceInv, SameSaleOnce

\* A sale has one row however often its feed or its seller's orders are read and wherever an
\* earlier import stopped, where the owner's requests come one at a time; the harvests beside
\* them overlap as they like.
THEOREM SaleArchivedOnce == OneOwner /\ Spec => []SameSaleOnce
<1>1. OnceInv => SameSaleOnce
  BY DEF OnceInv
<1>2. OneOwner => OneOwner'
  BY DEF OneOwner
<1>3. QED
  BY TypeInit, TypeNext, OnceInit, OnceNext, <1>1, <1>2, PTL DEF Spec

-----------------------------------------------------------------------------
(* The catalog import and the photo-ID index beside it.                     *)

\* What the code is run on.
IndexHolds == CatalogHolds /\ PhotoHolds

LEMMA AsRun == IndexHolds
  BY CatalogAssumption, PhotoIndexAssumption DEF IndexHolds

JobStages == {"idle", "groups", "group", "fetch", "set", "card", "write", "print", "default", "record", "hash"}
Printing == {"none", "plain", "default"}
ListingOf == ListingRec \cup {NotListed}

\* A product of the mirror has its card, with those printings and a default one.
Filed(p, fs, cs, ps) ==
    \E c \in Ids : /\ cs[c] # NoCard /\ cs[c].product = p
                   /\ fs \subseteq Have(ps[c])
                   /\ \E f \in Finishes : ps[c][f] = "default"

\* No product has two cards, no card two default printings.
Single(cs, ps) ==
    /\ \A c, d \in Ids : (cs[c] # NoCard /\ cs[d] # NoCard /\ cs[c].product = cs[d].product
                             /\ cs[c].product \in Products) => c = d
    /\ \A c \in Ids : \A f, g \in Finishes : (ps[c][f] = "default" /\ ps[c][g] = "default") => f = g

\* What is recorded is whole.
Recorded(rec, wh, cs, ps) ==
    \A g \in rec : \A p \in Singles(wh[g]) : Filed(p, wh[g][p].finishes, cs, ps)

\* The card the import is at: found for its product, or none there; written; printed.
AtProduct(j, cs, ps) ==
    /\ j.pc = "write" => j.product \in Singles(j.listing)
    /\ j.pc = "write" =>
          \A c \in Ids : cs[c] # NoCard => (cs[c].product = j.product => c = j.card)
    /\ j.pc = "write" /\ j.card # NoId =>
          cs[j.card] # NoCard /\ cs[j.card].product \in {j.product, NoProduct}
    /\ j.pc \in {"print", "default"} =>
          /\ j.card \in Ids /\ cs[j.card] # NoCard /\ cs[j.card].product = j.product
          /\ j.variants = ps[j.card]
          /\ j.listing[j.product].finishes \subseteq
                Have(j.variants) \cup (IF j.pc = "print" THEN j.subtypes ELSE {})

\* The products of the group the import has left behind are filed.
BehindIt(j, cs, ps) ==
    j.pc \in {"card", "write", "print", "default"} =>
        /\ j.left \subseteq Singles(j.listing)
        /\ \A p \in Singles(j.listing) \ j.left :
              (j.pc = "card" \/ p # j.product) => Filed(p, j.listing[p].finishes, cs, ps)

ImportFacts(j, cs, ps) ==
    /\ j.pc = "set" => j.left = Singles(j.listing)
    /\ AtProduct(j, cs, ps) /\ BehindIt(j, cs, ps)

ImportInv ==
    /\ CatalogTypes
    /\ Single(cards, printings)
    /\ Recorded(recorded, whole, cards, printings)
    /\ ImportFacts(job, cards, printings)

-----------------------------------------------------------------------------
(* The import's variables, one at a time.                                   *)

Beside(v, w, f) ==
    /\ f # "pc" => v.pc = w.pc
    /\ f # "force" => v.force = w.force
    /\ f # "todo" => v.todo = w.todo
    /\ f # "group" => v.group = w.group
    /\ f # "listing" => v.listing = w.listing
    /\ f # "adopted" => v.adopted = w.adopted
    /\ f # "left" => v.left = w.left
    /\ f # "product" => v.product = w.product
    /\ f # "card" => v.card = w.card
    /\ f # "variants" => v.variants = w.variants
    /\ f # "subtypes" => v.subtypes = w.subtypes
    /\ f # "added" => v.added = w.added
    /\ f # "cardsAdded" => v.cardsAdded = w.cardsAdded
Put(v, w, f, x) == v \in Job /\ v[f] = x /\ Beside(v, w, f)

LEMMA PutFits ==
    ASSUME NEW w \in Job
    PROVE  /\ \A x \in JobStages : Put([w EXCEPT !.pc = x], w, "pc", x)
           /\ \A x \in BOOLEAN : Put([w EXCEPT !.force = x], w, "force", x)
           /\ \A x \in SUBSET Groups : Put([w EXCEPT !.todo = x], w, "todo", x)
           /\ \A x \in Groups : Put([w EXCEPT !.group = x], w, "group", x)
           /\ \A x \in [Products -> ListingOf] : Put([w EXCEPT !.listing = x], w, "listing", x)
           /\ \A x \in BOOLEAN : Put([w EXCEPT !.adopted = x], w, "adopted", x)
           /\ \A x \in SUBSET Products : Put([w EXCEPT !.left = x], w, "left", x)
           /\ \A x \in Products : Put([w EXCEPT !.product = x], w, "product", x)
           /\ \A x \in Ids \cup {NoId} : Put([w EXCEPT !.card = x], w, "card", x)
           /\ \A x \in [Finishes -> Printing] : Put([w EXCEPT !.variants = x], w, "variants", x)
           /\ \A x \in SUBSET Finishes : Put([w EXCEPT !.subtypes = x], w, "subtypes", x)
           /\ \A x \in BOOLEAN : Put([w EXCEPT !.added = x], w, "added", x)
           /\ \A x \in BOOLEAN : Put([w EXCEPT !.cardsAdded = x], w, "cardsAdded", x)
<1>1. \A x \in JobStages : Put([w EXCEPT !.pc = x], w, "pc", x)
  BY DEF Put, Beside, Job, JobStages, Printing, ListingOf
<1>2. \A x \in BOOLEAN : Put([w EXCEPT !.force = x], w, "force", x)
  BY DEF Put, Beside, Job, JobStages, Printing, ListingOf
<1>3. \A x \in SUBSET Groups : Put([w EXCEPT !.todo = x], w, "todo", x)
  BY DEF Put, Beside, Job, JobStages, Printing, ListingOf
<1>4. \A x \in Groups : Put([w EXCEPT !.group = x], w, "group", x)
  BY DEF Put, Beside, Job, JobStages, Printing, ListingOf
<1>5. \A x \in [Products -> ListingOf] : Put([w EXCEPT !.listing = x], w, "listing", x)
  BY DEF Put, Beside, Job, JobStages, Printing, ListingOf
<1>6. \A x \in BOOLEAN : Put([w EXCEPT !.adopted = x], w, "adopted", x)
  BY DEF Put, Beside, Job, JobStages, Printing, ListingOf
<1>7. \A x \in SUBSET Products : Put([w EXCEPT !.left = x], w, "left", x)
  BY DEF Put, Beside, Job, JobStages, Printing, ListingOf
<1>8. \A x \in Products : Put([w EXCEPT !.product = x], w, "product", x)
  BY DEF Put, Beside, Job, JobStages, Printing, ListingOf
<1>9. \A x \in Ids \cup {NoId} : Put([w EXCEPT !.card = x], w, "card", x)
  BY DEF Put, Beside, Job, JobStages, Printing, ListingOf
<1>10. \A x \in [Finishes -> Printing] : Put([w EXCEPT !.variants = x], w, "variants", x)
  BY DEF Put, Beside, Job, JobStages, Printing, ListingOf
<1>11. \A x \in SUBSET Finishes : Put([w EXCEPT !.subtypes = x], w, "subtypes", x)
  BY DEF Put, Beside, Job, JobStages, Printing, ListingOf
<1>12. \A x \in BOOLEAN : Put([w EXCEPT !.added = x], w, "added", x)
  BY DEF Put, Beside, Job, JobStages, Printing, ListingOf
<1>13. \A x \in BOOLEAN : Put([w EXCEPT !.cardsAdded = x], w, "cardsAdded", x)
  BY DEF Put, Beside, Job, JobStages, Printing, ListingOf
<1> QED
  BY <1>1, <1>2, <1>3, <1>4, <1>5, <1>6, <1>7, <1>8, <1>9, <1>10, <1>11, <1>12, <1>13

LEMMA IdleIsJob == ASSUME IndexHolds PROVE NoJob \in Job
  BY DEF IndexHolds, CatalogHolds, NoJob, Job, Nothing, NoPrintings, NotListed, NoId

-----------------------------------------------------------------------------
(* What each step does to the facts.                                        *)

Cardfile == [Ids -> CardRec \cup {NoCard}]
Prints == [Ids -> [Finishes -> Printing]]

\* Nothing is in hand between two groups, and before a group's products are gone through.
LEMMA NoneInHand ==
    ASSUME NEW j, NEW cs, NEW ps, j.pc \in {"idle", "groups", "group", "fetch", "hash"}
    PROVE  ImportFacts(j, cs, ps)
  BY DEF ImportFacts, AtProduct, BehindIt

\* Cards keep their products, and printings are only added.
Richer(cs, ps, cs2, ps2) ==
    \A c \in Ids : (cs[c] # NoCard /\ cs[c].product \in Products) =>
        /\ cs2[c] # NoCard /\ cs2[c].product = cs[c].product
        /\ \A f \in Finishes : (ps[c][f] # "none" => ps2[c][f] # "none")
                                  /\ (ps[c][f] = "default" => ps2[c][f] = "default")

\* A product once filed stays filed when cards keep their products and printings are added.
LEMMA FiledStays ==
    ASSUME NEW cs, NEW ps, NEW cs2, NEW ps2, NEW p \in Products, NEW fs, Filed(p, fs, cs, ps),
           Richer(cs, ps, cs2, ps2)
    PROVE  Filed(p, fs, cs2, ps2)
  BY DEF Filed, Richer, Have

\* Then what was recorded stays whole.
LEMMA RecordedStays ==
    ASSUME NEW cs, NEW ps, NEW cs2, NEW ps2, NEW rec, NEW wh, Recorded(rec, wh, cs, ps),
           Richer(cs, ps, cs2, ps2)
    PROVE  Recorded(rec, wh, cs2, ps2)
<1> SUFFICES ASSUME NEW g \in rec, NEW p \in Singles(wh[g])
             PROVE  Filed(p, wh[g][p].finishes, cs2, ps2)
  BY DEF Recorded
<1>1. p \in Products /\ Filed(p, wh[g][p].finishes, cs, ps)
  BY DEF Recorded, Singles
<1> QED
  BY <1>1, FiledStays

\* And so does what the import has left behind.
LEMMA BehindStays ==
    ASSUME NEW j, NEW k, NEW cs, NEW ps, NEW cs2, NEW ps2, BehindIt(j, cs, ps),
           j.pc \in {"card", "write", "print", "default"},
           k.left = j.left, k.listing = j.listing, k.product = j.product, k.pc \in {"write", "print", "default"},
           Richer(cs, ps, cs2, ps2)
    PROVE  BehindIt(k, cs2, ps2)
<1>0. k.left \subseteq Singles(k.listing)
  BY DEF BehindIt
<1> SUFFICES ASSUME NEW p \in Singles(k.listing) \ k.left, p # k.product
             PROVE  Filed(p, k.listing[p].finishes, cs2, ps2)
  BY <1>0 DEF BehindIt
<1>1. p \in Products /\ Filed(p, k.listing[p].finishes, cs, ps)
  BY DEF BehindIt, Singles
<1> QED
  BY <1>1, FiledStays

\* A group recorded when its products are all behind is whole.
LEMMA RecordingIsWhole ==
    ASSUME NEW j, NEW cs, NEW ps, NEW rec, NEW wh \in [Groups -> [Products -> ListingOf]], NEW g \in Groups,
           NEW l, Recorded(rec, wh, cs, ps),
           \A p \in Singles(l) : Filed(p, l[p].finishes, cs, ps)
    PROVE  Recorded(rec \cup {g}, [wh EXCEPT ![g] = l], cs, ps)
<1> DEFINE wh2 == [wh EXCEPT ![g] = l]
<1> SUFFICES ASSUME NEW h \in rec \cup {g}, NEW p \in Singles(wh2[h])
             PROVE  Filed(p, wh2[h][p].finishes, cs, ps)
  BY DEF Recorded
<1>1. CASE h = g
  BY <1>1
<1>2. CASE h # g
  <2>1. wh2[h] = wh[h] /\ h \in rec
    BY <1>2
  <2> HIDE DEF wh2
  <2> QED
    BY <2>1 DEF Recorded
<1> QED
  BY <1>1, <1>2

-----------------------------------------------------------------------------
(* One product: found, written, printed.                                    *)

\* A card found for a product is the only one of it, or has none yet and no other card has it.
LEMMA FoundIs ==
    ASSUME IndexHolds, ImportInv, NEW p \in Products
    PROVE  /\ Found(p) = {} => \A c \in Ids : cards[c] # NoCard => cards[c].product # p
           /\ \A c \in Found(p) :
                 /\ c \in Ids /\ cards[c] # NoCard /\ cards[c].product \in {p, NoProduct}
                 /\ \A d \in Ids : cards[d] # NoCard => (cards[d].product = p => d = c)
<1> DEFINE own == {c \in Ids : Exists(c) /\ cards[c].product = p}
<1>1. CASE own # {}
  <2>1. Found(p) = own
    BY <1>1 DEF Found
  <2> QED
    BY <1>1, <2>1 DEF ImportInv, Single, Exists
<1>2. CASE own = {}
  <2>1. \A c \in Ids : cards[c] # NoCard => cards[c].product # p
    BY <1>2 DEF Exists
  <2>2. Found(p) \subseteq Unclaimed(p)
    BY <1>2 DEF Found
  <2>3. \A c \in Unclaimed(p) : c \in Ids /\ cards[c] # NoCard /\ cards[c].product = NoProduct
    BY DEF Unclaimed, Exists
  <2> QED
    BY <2>1, <2>2, <2>3
<1> QED
  BY <1>1, <1>2

LEMMA FindCardKeeps == ASSUME IndexHolds, ImportInv, NEW p \in Products, FindCard(p) PROVE ImportInv'
<1>1. PICK j \in Job : j = job
  BY DEF ImportInv, CatalogTypes
<1>2. PICK c \in IF Found(p) = {} THEN {NoId} ELSE Found(p) :
          job' = [job EXCEPT !.pc = "write", !.left = @ \ {p}, !.product = p, !.card = c]
  BY DEF FindCard
<1>3. c \in Ids \cup {NoId} /\ p \in j.left /\ j.pc = "card"
  BY <1>1, FoundIs DEF FindCard
<1>4. PICK r1 : r1 = [j EXCEPT !.pc = "write"] /\ Put(r1, j, "pc", "write")
  BY PutFits DEF JobStages
<1>5. PICK r2 : r2 = [r1 EXCEPT !.left = j.left \ {p}] /\ Put(r2, r1, "left", j.left \ {p})
  <2>1. j.left \ {p} \in SUBSET Products /\ r1 \in Job
    BY <1>4 DEF Job, Put
  <2> QED
    BY <2>1, PutFits
<1>6. PICK r3 : r3 = [r2 EXCEPT !.product = p] /\ Put(r3, r2, "product", p)
  BY <1>5, PutFits DEF Put
<1>7. PICK r4 : r4 = [r3 EXCEPT !.card = c] /\ Put(r4, r3, "card", c)
  BY <1>3, <1>6, PutFits DEF Put
<1>8. job' = r4
  <2>1. r1.left = j.left
    BY <1>4 DEF Put, Beside
  <2> QED
    BY <1>1, <1>2, <1>4, <1>5, <1>6, <1>7, <2>1
<1>9. /\ job' \in Job /\ job'.pc = "write" /\ job'.left = j.left \ {p} /\ job'.product = p
      /\ job'.card = c /\ job'.listing = j.listing
  BY <1>4, <1>5, <1>6, <1>7, <1>8 DEF Put, Beside
<1>10. AtProduct(job', cards, printings)
  <2>1. BehindIt(j, cards, printings)
    BY <1>1 DEF ImportInv, ImportFacts
  <2>2. p \in Singles(j.listing)
    BY <1>3, <2>1 DEF BehindIt
  <2> QED
    BY <1>2, <1>9, <2>2, FoundIs DEF AtProduct
<1>11. BehindIt(job', cards, printings)
  <2>1. BehindIt(j, cards, printings)
    BY <1>1 DEF ImportInv, ImportFacts
  <2> QED
    BY <1>3, <1>9, <2>1 DEF BehindIt
<1> QED
  BY <1>9, <1>10, <1>11 DEF ImportInv, ImportFacts, CatalogTypes, FindCard

\* The id of a new card is one that is free.
LEMMA SmallestFree ==
    ASSUME NEW S, S \subseteq Nat, S # {}
    PROVE  Min(S) \in S
<1> DEFINE R == {ss \in Nat \X Nat : ss[1] < ss[2]}
<1>1. IsWellFoundedOn(R, Nat)
  BY NatLessThanWellFounded DEF OpToRel
<1>2. PICK i \in S : \A j \in S : ~ (<<j, i>> \in R)
  BY <1>1, WFMin
<1>3. \A j \in Nat : i \in Nat /\ ~ (<<j, i>> \in R) => i <= j
  OBVIOUS
<1>4. \A j \in S : i <= j
  BY <1>2, <1>3
<1> QED
  BY <1>4 DEF Min

LEMMA WriteCardKeeps == ASSUME IndexHolds, ImportInv, WriteCard PROVE ImportInv'
<1>1. PICK j \in Job : j = job
  BY DEF ImportInv, CatalogTypes
<1> DEFINE free == {d \in Ids : ~Exists(d)}
           new == j.card = NoId
           c == IF new THEN Min(free) ELSE j.card
           image == IF ~new /\ KeepImg(c) THEN cards[c].image ELSE j.listing[j.product].image
           written == [group |-> IF new THEN j.group ELSE cards[c].group, product |-> j.product,
                       name |-> NameOf[j.product], number |-> NumberOf[j.product], image |-> image]
<1>2. /\ j.pc = "write" /\ (new => free # {})
      /\ cards' = [cards EXCEPT ![c] = written]
      /\ job' = [j EXCEPT !.pc = "print", !.card = c, !.added = @ \/ new,
                          !.variants = printings[c], !.subtypes = Subtypes(j.product)]
      /\ UNCHANGED <<mirror, recorded, sets, printings, whole, spent>>
  BY <1>1 DEF WriteCard
<1>3. /\ j.product \in Products /\ j.group \in Groups /\ j.card \in Ids \cup {NoId}
      /\ j.listing[j.product] \in ListingOf /\ j.added \in BOOLEAN
  BY DEF Job, ListingOf
<1>4. c \in Ids /\ (new => cards[c] = NoCard)
  <2>1. Ids \subseteq Nat
    BY DEF IndexHolds, CatalogHolds
  <2>2. CASE new
    <3>1. free \subseteq Nat /\ free # {} /\ c = Min(free)
      BY <1>2, <2>1, <2>2
    <3>2. c \in free
      <4> HIDE DEF free, c
      <4> QED
        BY <3>1, SmallestFree
    <3> QED
      BY <3>2 DEF Exists
  <2>3. CASE ~new
    BY <1>3, <2>3
  <2> QED
    BY <2>2, <2>3

<1> HIDE DEF free, new, c, image, written
<1>5. /\ cards[c] = NoCard \/ cards[c].product \in {j.product, NoProduct}
      /\ \A d \in Ids : cards[d] # NoCard => (cards[d].product = j.product => d = c)
      /\ ~new => cards[c] # NoCard
  <2>1. AtProduct(j, cards, printings)
    BY <1>1 DEF ImportInv, ImportFacts
  <2>2. /\ \A d \in Ids : cards[d] # NoCard => (cards[d].product = j.product => d = j.card)
        /\ j.card # NoId =>
              cards[j.card] # NoCard /\ cards[j.card].product \in {j.product, NoProduct}
    BY <1>2, <2>1 DEF AtProduct
  <2>3. CASE new
    <3>1. j.card \notin Ids
      BY <2>3 DEF IndexHolds, CatalogHolds, new
    <3> QED
      BY <1>4, <2>2, <2>3, <3>1
  <2>4. CASE ~new
    <3>1. c = j.card /\ j.card # NoId
      BY <2>4 DEF new, c
    <3> QED
      BY <2>2, <2>4, <3>1
  <2> QED
    BY <2>3, <2>4
<1>6. cards \in Cardfile /\ printings \in Prints
  BY DEF ImportInv, CatalogTypes, Cardfile, Prints, Printing
<1>7. written \in CardRec /\ written.product = j.product /\ written # NoCard
  <2>1. ~new => cards[c] \in CardRec
    BY <1>4, <1>5, <1>6 DEF Cardfile
  <2>2. image \in Images \cup {NoImage}
    <3>1. CASE ~new /\ KeepImg(c)
      BY <2>1, <3>1 DEF image, CardRec
    <3>2. CASE ~(~new /\ KeepImg(c))
      <4>1. image = j.listing[j.product].image
        BY <3>2 DEF image
      <4>2. j.listing[j.product] # NotListed
        <5>1. AtProduct(j, cards, printings)
          BY <1>1 DEF ImportInv, ImportFacts
        <5> QED
          BY <1>2, <5>1 DEF AtProduct, Singles
      <4> QED
        BY <1>3, <4>1, <4>2 DEF ListingOf, ListingRec
    <3> QED
      BY <3>1, <3>2
  <2>3. (IF new THEN j.group ELSE cards[c].group) \in Groups
    BY <1>3, <2>1 DEF CardRec
  <2>4. written \in CardRec
    BY <1>3, <2>2, <2>3 DEF CardRec, written
  <2> QED
    BY <2>4 DEF written, NoCard, CardRec
<1>8. Richer(cards, printings, cards', printings)
  BY <1>2, <1>4, <1>5, <1>6, <1>7 DEF Richer, Cardfile, IndexHolds, CatalogHolds
<1>9. cards' \in Cardfile
  BY <1>2, <1>4, <1>6, <1>7 DEF Cardfile
<1>10. Single(cards', printings)
  BY <1>2, <1>4, <1>5, <1>6, <1>7 DEF ImportInv, Single, Cardfile
<1>11. Recorded(recorded, whole, cards', printings)
  BY <1>8, RecordedStays DEF ImportInv
<1>12. Subtypes(j.product) \in SUBSET Finishes /\ printings[c] \in [Finishes -> Printing]
  <2>1. job.listing[j.product].finishes \subseteq Finishes
    BY <1>1, <1>3 DEF ListingOf, ListingRec, NotListed
  <2>2. Normal \in Finishes
    BY DEF IndexHolds, CatalogHolds
  <2> QED
    BY <1>4, <1>6, <2>1, <2>2 DEF Subtypes, Prints
<1>13. PICK r1 : r1 = [j EXCEPT !.pc = "print"] /\ Put(r1, j, "pc", "print")
  BY PutFits DEF JobStages
<1>14. PICK r2 : r2 = [r1 EXCEPT !.card = c] /\ Put(r2, r1, "card", c)
  BY <1>4, <1>13, PutFits DEF Put
<1>15a. PICK added \in BOOLEAN : added = (j.added \/ new)
  <2>1. (j.added \/ new) = TRUE \/ (j.added \/ new) = FALSE
    OBVIOUS
  <2> QED
    BY <2>1
<1>15. PICK r3 : r3 = [r2 EXCEPT !.added = added] /\ Put(r3, r2, "added", added)
  BY <1>14, PutFits DEF Put
<1>16. PICK r4 : r4 = [r3 EXCEPT !.variants = printings[c]] /\ Put(r4, r3, "variants", printings[c])
  BY <1>12, <1>15, PutFits DEF Put
<1>17. PICK r5 : /\ r5 = [r4 EXCEPT !.subtypes = Subtypes(j.product)]
                 /\ Put(r5, r4, "subtypes", Subtypes(j.product))
  BY <1>12, <1>16, PutFits DEF Put
<1>18. job' = r5
  <2>1. r2.added = j.added
    BY <1>13, <1>14 DEF Put, Beside
  <2>2. [r2 EXCEPT !.added = j.added \/ new] = r3
    BY <1>15a, <1>15
  <2> QED
    BY <1>2, <1>13, <1>14, <1>16, <1>17, <2>1, <2>2
<1>19. /\ job' \in Job /\ job'.pc = "print" /\ job'.left = j.left /\ job'.product = j.product
       /\ job'.card = c /\ job'.listing = j.listing /\ job'.variants = printings[c]
       /\ job'.subtypes = Subtypes(j.product)
  BY <1>13, <1>14, <1>15, <1>16, <1>17, <1>18 DEF Put, Beside
<1>20. AtProduct(job', cards', printings)
  <2>1. cards'[c] = written
    BY <1>2, <1>4, <1>6 DEF Cardfile
  <2>2. j.listing[j.product].finishes \subseteq Subtypes(j.product)
    BY <1>1 DEF Subtypes
  <2> QED
    BY <1>4, <1>7, <1>19, <2>1, <2>2 DEF AtProduct
<1>21. BehindIt(job', cards', printings)
  <2>1. BehindIt(j, cards, printings)
    BY <1>1 DEF ImportInv, ImportFacts
  <2>2. j.pc \in {"card", "write", "print", "default"} /\ job'.pc \in {"write", "print", "default"}
    BY <1>2, <1>19
  <2> QED
    BY <1>8, <1>19, <2>1, <2>2, BehindStays
<1> QED
  BY <1>2, <1>9, <1>10, <1>11, <1>19, <1>20, <1>21 DEF ImportInv, ImportFacts, CatalogTypes, Cardfile

\* A printing of a price is added, never as the default.
LEMMA AddVariantKeeps == ASSUME IndexHolds, ImportInv, NEW f \in Finishes, AddVariant(f) PROVE ImportInv'
<1>1. PICK j \in Job : j = job
  BY DEF ImportInv, CatalogTypes
<1> DEFINE new == j.variants[f] = "none"
           left == j.subtypes \ {f}
           to == IF left = {} THEN "default" ELSE "print"
           had == [j.variants EXCEPT ![f] = IF new THEN "plain" ELSE @]
<1>2. /\ j.pc = "print" /\ f \in j.subtypes
      /\ printings' = IF new THEN [printings EXCEPT ![j.card][f] = "plain"] ELSE printings
      /\ UNCHANGED <<mirror, recorded, sets, cards, whole, spent>>
  BY <1>1 DEF AddVariant
<1>3. cards \in Cardfile /\ printings \in Prints /\ j.variants \in [Finishes -> Printing] /\ j.subtypes \in SUBSET Finishes
  BY DEF ImportInv, CatalogTypes, Job, Cardfile, Prints, Printing
<1>4. /\ j.card \in Ids /\ cards[j.card] # NoCard /\ cards[j.card].product = j.product
      /\ j.variants = printings[j.card]
      /\ j.listing[j.product].finishes \subseteq Have(j.variants) \cup j.subtypes
  <2>1. AtProduct(j, cards, printings)
    BY <1>1 DEF ImportInv, ImportFacts
  <2> QED
    BY <1>2, <2>1 DEF AtProduct
<1>5. /\ had \in [Finishes -> Printing] /\ left \in SUBSET Finishes /\ to \in JobStages
      /\ to = "print" \/ left = {}
  BY <1>3 DEF Printing, JobStages
<1>6. printings' = [printings EXCEPT ![j.card] = had]
  <2>1. CASE new
    BY <1>2, <1>3, <1>4, <2>1 DEF Prints
  <2>2. CASE ~new
    BY <1>2, <1>3, <1>4, <2>2 DEF Prints
  <2> QED
    BY <2>1, <2>2
<1>7. /\ \A g \in Finishes : (j.variants[g] # "none" => had[g] # "none")
                                /\ (j.variants[g] = "default" <=> had[g] = "default")
      /\ Have(had) = Have(j.variants) \cup {f}
  BY <1>3 DEF Have
<1>8. job' = [[[j EXCEPT !.variants = had] EXCEPT !.subtypes = left] EXCEPT !.pc = to]
  BY <1>1 DEF AddVariant, Job
<1> HIDE DEF new, left, to, had
<1>9. PICK r1 : r1 = [j EXCEPT !.variants = had] /\ Put(r1, j, "variants", had)
  BY <1>5, PutFits
<1>10. PICK r2 : r2 = [r1 EXCEPT !.subtypes = left] /\ Put(r2, r1, "subtypes", left)
  BY <1>5, <1>9, PutFits DEF Put
<1>11. PICK r3 : r3 = [r2 EXCEPT !.pc = to] /\ Put(r3, r2, "pc", to)
  BY <1>5, <1>10, PutFits DEF Put
<1>12. job' = r3
  BY <1>8, <1>9, <1>10, <1>11
<1>13. /\ job' \in Job /\ job'.pc = to /\ job'.left = j.left /\ job'.product = j.product
       /\ job'.card = j.card /\ job'.listing = j.listing /\ job'.variants = had /\ job'.subtypes = left
  BY <1>9, <1>10, <1>11, <1>12 DEF Put, Beside
<1>14. printings' \in Prints /\ Richer(cards, printings, cards, printings')
  BY <1>3, <1>4, <1>5, <1>6, <1>7 DEF Prints, Richer
<1>15. Single(cards, printings')
  BY <1>3, <1>4, <1>6, <1>7 DEF ImportInv, Single, Prints
<1>16. Recorded(recorded, whole, cards, printings')
  BY <1>14, RecordedStays DEF ImportInv
<1>17. to \in {"print", "default"}
  BY DEF to
<1>18. AtProduct(job', cards, printings')
  <2>1. printings'[j.card] = had
    BY <1>3, <1>4, <1>6 DEF Prints
  <2>2. j.listing[j.product].finishes \subseteq Have(had) \cup left
    BY <1>4, <1>7 DEF left
  <2> QED
    BY <1>4, <1>5, <1>13, <1>17, <2>1, <2>2 DEF AtProduct
<1>19. BehindIt(job', cards, printings')
  <2>1. BehindIt(j, cards, printings)
    BY <1>1 DEF ImportInv, ImportFacts
  <2>2. j.pc \in {"card", "write", "print", "default"} /\ job'.pc \in {"write", "print", "default"}
    BY <1>2, <1>13, <1>17
  <2> QED
    BY <1>13, <1>14, <2>1, <2>2, BehindStays
<1> QED
  BY <1>2, <1>13, <1>14, <1>15, <1>16, <1>17, <1>18, <1>19
     DEF ImportInv, ImportFacts, CatalogTypes, Prints, Printing

\* Then the card has its default printing, and is left behind.
LEMMA SetDefaultKeeps == ASSUME IndexHolds, ImportInv, SetDefault PROVE ImportInv'
<1>1. PICK j \in Job : j = job
  BY DEF ImportInv, CatalogTypes
<1>2. PICK best \in Have(j.variants) :
          printings' = IF \E f \in Have(j.variants) : j.variants[f] = "default" THEN printings
                       ELSE [printings EXCEPT ![j.card][best] = "default"]
  BY <1>1 DEF SetDefault
<1>3. /\ j.pc = "default" /\ job' = [j EXCEPT !.pc = "card", !.card = NoId, !.variants = NoPrintings]
      /\ UNCHANGED <<mirror, recorded, sets, cards, whole, spent>>
  BY <1>1 DEF SetDefault
<1>4. cards \in Cardfile /\ printings \in Prints /\ j.variants \in [Finishes -> Printing] /\ best \in Finishes
  BY DEF ImportInv, CatalogTypes, Job, Cardfile, Prints, Printing, Have
<1>5. /\ j.card \in Ids /\ cards[j.card] # NoCard /\ cards[j.card].product = j.product
      /\ j.variants = printings[j.card]
      /\ j.listing[j.product].finishes \subseteq Have(j.variants)
  <2>1. AtProduct(j, cards, printings)
    BY <1>1 DEF ImportInv, ImportFacts
  <2> QED
    BY <1>3, <2>1 DEF AtProduct
<1>6. /\ printings' \in Prints
      /\ \A c \in Ids : \A f \in Finishes :
            /\ printings[c][f] # "none" => printings'[c][f] # "none"
            /\ printings[c][f] = "default" => printings'[c][f] = "default"
      /\ \E f \in Finishes : printings'[j.card][f] = "default"
      /\ \A f, g \in Finishes : (printings'[j.card][f] = "default" /\ printings'[j.card][g] = "default") => f = g
      /\ \A c \in Ids \ {j.card} : printings'[c] = printings[c]
  <2>1. CASE \E f \in Have(j.variants) : j.variants[f] = "default"
    BY <1>2, <1>4, <1>5, <2>1 DEF ImportInv, Single, Have, Prints
  <2>2. CASE ~\E f \in Have(j.variants) : j.variants[f] = "default"
    <3>1. \A f \in Finishes : j.variants[f] # "default"
      BY <2>2 DEF Have
    <3>2. printings' = [printings EXCEPT ![j.card] = [printings[j.card] EXCEPT ![best] = "default"]]
      BY <1>2, <2>2
    <3> QED
      BY <1>4, <1>5, <3>1, <3>2 DEF Prints, Printing
  <2> QED
    BY <2>1, <2>2
<1>7. Richer(cards, printings, cards, printings')
  BY <1>6 DEF Richer
<1>8. Single(cards, printings')
  BY <1>6 DEF ImportInv, Single
<1>9. Recorded(recorded, whole, cards, printings')
  BY <1>7, RecordedStays DEF ImportInv
<1>10. PICK r1 : r1 = [j EXCEPT !.pc = "card"] /\ Put(r1, j, "pc", "card")
  BY PutFits DEF JobStages
<1>11. PICK r2 : r2 = [r1 EXCEPT !.card = NoId] /\ Put(r2, r1, "card", NoId)
  BY <1>10, PutFits DEF Put
<1>12. NoPrintings \in [Finishes -> Printing]
  BY DEF NoPrintings, Printing
<1>13. PICK r3 : r3 = [r2 EXCEPT !.variants = NoPrintings] /\ Put(r3, r2, "variants", NoPrintings)
  BY <1>11, <1>12, PutFits DEF Put
<1>14. /\ job' \in Job /\ job'.pc = "card" /\ job'.left = j.left /\ job'.listing = j.listing
  BY <1>3, <1>10, <1>11, <1>13 DEF Put, Beside
<1>15. BehindIt(job', cards, printings')
  <2>1. /\ j.left \subseteq Singles(j.listing)
        /\ \A p \in Singles(j.listing) \ j.left : p # j.product => Filed(p, j.listing[p].finishes, cards, printings)
    BY <1>1, <1>3 DEF ImportInv, ImportFacts, BehindIt
  <2>2. Filed(j.product, j.listing[j.product].finishes, cards, printings')
    BY <1>5, <1>6 DEF Filed, Have
  <2>3. ASSUME NEW p \in Singles(j.listing) \ j.left
        PROVE  Filed(p, j.listing[p].finishes, cards, printings')
    <3>1. p \in Products
      BY DEF Singles
    <3> QED
      BY <1>7, <2>1, <2>2, <3>1, FiledStays
  <2> QED
    BY <1>14, <2>1, <2>3 DEF BehindIt
<1>16. AtProduct(job', cards, printings')
  BY <1>14 DEF AtProduct
<1> QED
  BY <1>3, <1>6, <1>8, <1>9, <1>14, <1>15, <1>16 DEF ImportInv, ImportFacts, CatalogTypes, Prints, Printing

-----------------------------------------------------------------------------
(* The groups.                                                              *)

\* The facts about the rows do not change with the job.
LEMMA JobChanges ==
    ASSUME ImportInv, job' \in Job, ImportFacts(job', cards, printings), spent' \in Nat,
           mirror' \in [Products -> ListingOf], UNCHANGED <<recorded, sets, cards, printings, whole>>
    PROVE  ImportInv'
  BY DEF ImportInv, CatalogTypes, ListingOf

LEMMA SpendCounts == ASSUME ImportInv, Spend PROVE spent' \in Nat
  BY DEF ImportInv, CatalogTypes, Spend

LEMMA MirrorTyped == ASSUME ImportInv PROVE mirror \in [Products -> ListingOf] /\ spent \in Nat /\ job \in Job
  BY DEF ImportInv, CatalogTypes, ListingOf

\* An import that is over, or lost, leaves the rows as they are.
LEMMA BackToIdle ==
    ASSUME IndexHolds, ImportInv, NEW pc \in {"idle", "groups", "group", "hash"}, NEW force \in BOOLEAN,
           job' = [[NoJob EXCEPT !.pc = pc] EXCEPT !.force = force], spent' \in Nat,
           UNCHANGED <<mirror, recorded, sets, cards, printings, whole>>
    PROVE  ImportInv'
<1>1. PICK r1 : r1 = [NoJob EXCEPT !.pc = pc] /\ Put(r1, NoJob, "pc", pc)
  BY IdleIsJob, PutFits DEF JobStages
<1>2. PICK r2 : r2 = [r1 EXCEPT !.force = force] /\ Put(r2, r1, "force", force)
  BY <1>1, PutFits DEF Put
<1>3. job' \in Job /\ job'.pc = pc
  BY <1>1, <1>2 DEF Put, Beside
<1>4. ImportFacts(job', cards, printings)
  <2>1. PICK k : k = job'
    OBVIOUS
  <2>2. k.pc \in {"idle", "groups", "group", "fetch", "hash"}
    BY <1>3, <2>1
  <2>3. ASSUME NEW j, NEW cs, NEW ps, j.pc \in {"idle", "groups", "group", "fetch", "hash"}
        PROVE  ImportFacts(j, cs, ps)
    BY <2>3, NoneInHand
  <2>4. ImportFacts(k, cards, printings)
    BY <2>2, <2>3
  <2> QED
    BY <2>1, <2>4
<1> QED
  BY <1>3, <1>4, MirrorTyped, JobChanges

LEMMA ToIdle ==
    ASSUME IndexHolds, ImportInv, job' = NoJob, spent' \in Nat,
           UNCHANGED <<mirror, recorded, sets, cards, printings, whole>>
    PROVE  ImportInv'
<1>1. job' \in Job /\ job'.pc = "idle"
  BY IdleIsJob DEF NoJob
<1>2. ImportFacts(job', cards, printings)
  BY <1>1, NoneInHand
<1> QED
  BY <1>1, <1>2, MirrorTyped, JobChanges

LEMMA WholeImportKeeps ==
    ASSUME IndexHolds, ImportInv,
           (\E force \in BOOLEAN : StartImport(force)) \/ GroupList \/ GroupsDone \/ ImportFails
    PROVE  ImportInv'
<1>1. ASSUME NEW force \in BOOLEAN, StartImport(force)
      PROVE  ImportInv'
  <2>1. job' = [[NoJob EXCEPT !.pc = "groups"] EXCEPT !.force = force]
    BY <1>1 DEF StartImport
  <2> QED
    BY <1>1, <2>1, SpendCounts, BackToIdle DEF StartImport
<1>2. CASE GroupList
  <2>1. PICK j \in Job : j = job
    BY MirrorTyped
  <2>2. job' \in Job /\ job'.pc = "group"
    BY <1>2, <2>1 DEF GroupList, Job
  <2>3. ImportFacts(job', cards, printings)
    BY <2>2, NoneInHand
  <2> QED
    BY <1>2, <2>2, <2>3, MirrorTyped, JobChanges DEF GroupList
<1>3. CASE GroupsDone
  <2>1. CASE job' = NoJob
    BY <1>3, <2>1, ToIdle, MirrorTyped DEF GroupsDone
  <2>2. CASE job' = [NoJob EXCEPT !.pc = "hash"]
    <3>1. job' \in Job /\ job'.pc = "hash"
      BY <2>2, IdleIsJob DEF Job
    <3>2. ImportFacts(job', cards, printings)
      BY <3>1, NoneInHand
    <3> QED
      BY <1>3, <3>1, <3>2, MirrorTyped, JobChanges DEF GroupsDone
  <2> QED
    BY <1>3, <2>1, <2>2 DEF GroupsDone
<1>4. CASE ImportFails
  BY <1>4, ToIdle, MirrorTyped DEF ImportFails
<1> QED
  BY <1>1, <1>2, <1>3, <1>4

\* The import leaves a group.
LEMMA LeaveFits ==
    ASSUME IndexHolds, ImportInv, NEW added \in BOOLEAN, Leave(added)
    PROVE  job' \in Job /\ job'.pc = "group"
<1>1. PICK j \in Job : j = job
  BY MirrorTyped
<1>2. job' = [[[[NoJob EXCEPT !.pc = "group"] EXCEPT !.force = j.force] EXCEPT !.todo = j.todo] EXCEPT !.cardsAdded = added]
  BY <1>1 DEF Leave
<1>3. j.force \in BOOLEAN /\ j.todo \in SUBSET Groups
  BY DEF Job
<1>4. PICK r1 : r1 = [NoJob EXCEPT !.pc = "group"] /\ Put(r1, NoJob, "pc", "group")
  BY IdleIsJob, PutFits DEF JobStages
<1>5. PICK r2 : r2 = [r1 EXCEPT !.force = j.force] /\ Put(r2, r1, "force", j.force)
  BY <1>3, <1>4, PutFits DEF Put
<1>6. PICK r3 : r3 = [r2 EXCEPT !.todo = j.todo] /\ Put(r3, r2, "todo", j.todo)
  BY <1>3, <1>5, PutFits DEF Put
<1>7. PICK r4 : r4 = [r3 EXCEPT !.cardsAdded = added] /\ Put(r4, r3, "cardsAdded", added)
  BY <1>6, PutFits DEF Put
<1> QED
  BY <1>2, <1>4, <1>5, <1>6, <1>7 DEF Put, Beside

LEMMA GroupFailsKeeps == ASSUME IndexHolds, ImportInv, GroupFails PROVE ImportInv'
<1>1. job.cardsAdded \in BOOLEAN
  BY MirrorTyped DEF Job
<1>2. job' \in Job /\ job'.pc = "group"
  BY <1>1, LeaveFits DEF GroupFails
<1>3. ImportFacts(job', cards, printings)
  BY <1>2, NoneInHand
<1> QED
  BY <1>2, <1>3, MirrorTyped, JobChanges DEF GroupFails

\* A group is recorded: with no singles, or with all of them filed.
LEMMA RecordingKeeps ==
    ASSUME IndexHolds, ImportInv, NEW l \in [Products -> ListingOf], NEW added \in BOOLEAN, Leave(added),
           recorded' = recorded \cup {job.group}, whole' = [whole EXCEPT ![job.group] = l],
           \A p \in Singles(l) : Filed(p, l[p].finishes, cards, printings),
           UNCHANGED <<mirror, sets, cards, printings, spent>>
    PROVE  ImportInv'
<1>1. job.group \in Groups
  BY MirrorTyped DEF Job
<1>2. job' \in Job /\ job'.pc = "group"
  BY LeaveFits
<1>3. ImportFacts(job', cards, printings)
  BY <1>2, NoneInHand
<1>4. whole \in [Groups -> [Products -> ListingOf]]
  BY DEF ImportInv, CatalogTypes, ListingOf
<1>5. Recorded(recorded', whole', cards, printings)
  BY <1>1, <1>4, RecordingIsWhole DEF ImportInv
<1>6. whole' \in [Groups -> [Products -> ListingOf]]
  BY <1>1, <1>4
<1> QED
  BY <1>1, <1>2, <1>3, <1>5, <1>6 DEF ImportInv, CatalogTypes, ListingOf

LEMMA FetchKeeps == ASSUME IndexHolds, ImportInv, FetchGroup PROVE ImportInv'
<1> DEFINE l == [p \in Products |-> IF GroupOf[p] = job.group THEN mirror[p] ELSE NotListed]
<1>1. l \in [Products -> ListingOf]
  BY MirrorTyped DEF ListingOf
<1>2. CASE Singles(l) = {}
  <2>1. /\ recorded' = recorded \cup {job.group} /\ whole' = [whole EXCEPT ![job.group] = l]
        /\ Leave(job.cardsAdded) /\ UNCHANGED <<mirror, sets, cards, printings, spent>>
    BY <1>2 DEF FetchGroup
  <2>2. job.cardsAdded \in BOOLEAN
    BY MirrorTyped DEF Job
  <2> HIDE DEF l
  <2> QED
    BY <1>1, <1>2, <2>1, <2>2, RecordingKeeps
<1>3. CASE Singles(l) # {}
  <2>1. PICK j \in Job : j = job
    BY MirrorTyped
  <2>2. /\ job' = [[[j EXCEPT !.pc = "set"] EXCEPT !.listing = l] EXCEPT !.left = Singles(l)]
        /\ UNCHANGED <<mirror, recorded, sets, cards, printings, whole, spent>>
    BY <1>3, <2>1 DEF FetchGroup
  <2> HIDE DEF l
  <2>3. PICK r1 : r1 = [j EXCEPT !.pc = "set"] /\ Put(r1, j, "pc", "set")
    BY PutFits DEF JobStages
  <2>4. PICK r2 : r2 = [r1 EXCEPT !.listing = l] /\ Put(r2, r1, "listing", l)
    BY <1>1, <2>3, PutFits DEF Put
  <2>5. Singles(l) \in SUBSET Products
    BY DEF Singles
  <2>6. PICK r3 : r3 = [r2 EXCEPT !.left = Singles(l)] /\ Put(r3, r2, "left", Singles(l))
    BY <2>4, <2>5, PutFits DEF Put
  <2>7. job' \in Job /\ job'.pc = "set" /\ job'.listing = l /\ job'.left = Singles(l)
    BY <2>2, <2>3, <2>4, <2>6 DEF Put, Beside
  <2>8. ImportFacts(job', cards, printings)
    BY <2>7 DEF ImportFacts, AtProduct, BehindIt
  <2> QED
    BY <2>2, <2>7, <2>8, MirrorTyped, JobChanges
<1> QED
  BY <1>2, <1>3

LEMMA UpsertSetKeeps == ASSUME IndexHolds, ImportInv, UpsertSet PROVE ImportInv'
<1>1. PICK j \in Job : j = job
  BY MirrorTyped
<1>2. /\ job' = [[j EXCEPT !.pc = "card"] EXCEPT !.adopted = job.group \in sets]
      /\ j.pc = "set" /\ sets' = sets \cup {j.group}
      /\ UNCHANGED <<mirror, recorded, cards, printings, whole, spent>>
  BY <1>1 DEF UpsertSet
<1>3. PICK r1 : r1 = [j EXCEPT !.pc = "card"] /\ Put(r1, j, "pc", "card")
  BY PutFits DEF JobStages
<1>4. PICK adopted \in BOOLEAN : adopted = (job.group \in sets)
  <2>1. (job.group \in sets) = TRUE \/ (job.group \in sets) = FALSE
    OBVIOUS
  <2> QED
    BY <2>1
<1>5. PICK r2 : r2 = [r1 EXCEPT !.adopted = adopted] /\ Put(r2, r1, "adopted", adopted)
  BY <1>3, PutFits DEF Put
<1>6. job' = r2
  BY <1>2, <1>3, <1>4, <1>5
<1>7. job' \in Job /\ job'.pc = "card" /\ job'.listing = j.listing /\ job'.left = j.left
  BY <1>3, <1>5, <1>6 DEF Put, Beside
<1>8. ImportFacts(job', cards, printings)
  <2>1. j.left = Singles(j.listing)
    BY <1>1, <1>2 DEF ImportInv, ImportFacts
  <2> QED
    BY <1>7, <2>1 DEF ImportFacts, AtProduct, BehindIt
<1>9. sets' \subseteq Groups
  BY <1>2 DEF ImportInv, CatalogTypes, Job
<1> QED
  BY <1>2, <1>7, <1>8, <1>9 DEF ImportInv, CatalogTypes

LEMMA RecordGroupKeeps == ASSUME IndexHolds, ImportInv, RecordGroup PROVE ImportInv'
<1>1. /\ job.listing \in [Products -> ListingOf] /\ (job.cardsAdded \/ job.added) \in BOOLEAN
  BY MirrorTyped DEF Job, ListingOf
<1>2. \A p \in Singles(job.listing) : Filed(p, job.listing[p].finishes, cards, printings)
  BY DEF RecordGroup, ImportInv, ImportFacts, BehindIt
<1> QED
  BY <1>1, <1>2, RecordingKeeps DEF RecordGroup

LEMMA NextGroupKeeps == ASSUME IndexHolds, ImportInv, NEW g \in Groups, NextGroup(g) PROVE ImportInv'
<1>1. PICK j \in Job : j = job
  BY MirrorTyped
<1>2. PICK pc \in {"group", "fetch"} : pc = IF g \in recorded /\ ~job.force THEN "group" ELSE "fetch"
  OBVIOUS
<1>3. /\ job' = [[[[j EXCEPT !.todo = j.todo \ {g}] EXCEPT !.group = g] EXCEPT !.added = FALSE] EXCEPT !.pc = pc]
      /\ UNCHANGED <<mirror, recorded, sets, cards, printings, whole, spent>>
  BY <1>1, <1>2 DEF NextGroup
<1>4. PICK r1 : r1 = [j EXCEPT !.todo = j.todo \ {g}] /\ Put(r1, j, "todo", j.todo \ {g})
  <2>1. j.todo \ {g} \in SUBSET Groups
    BY DEF Job
  <2> QED
    BY <2>1, PutFits
<1>5. PICK r2 : r2 = [r1 EXCEPT !.group = g] /\ Put(r2, r1, "group", g)
  BY <1>4, PutFits DEF Put
<1>6. PICK r3 : r3 = [r2 EXCEPT !.added = FALSE] /\ Put(r3, r2, "added", FALSE)
  BY <1>5, PutFits DEF Put
<1>7. PICK r4 : r4 = [r3 EXCEPT !.pc = pc] /\ Put(r4, r3, "pc", pc)
  <2>1. pc \in JobStages /\ r3 \in Job
    BY <1>6 DEF Put, JobStages
  <2> QED
    BY <2>1, PutFits
<1>8. job' \in Job /\ job'.pc = pc
  BY <1>3, <1>4, <1>5, <1>6, <1>7 DEF Put, Beside
<1>9. ImportFacts(job', cards, printings)
  <2>1. job'.pc \in {"idle", "groups", "group", "fetch", "hash"}
    BY <1>8
  <2> QED
    BY <2>1, NoneInHand
<1> QED
  BY <1>3, <1>8, <1>9, MirrorTyped, JobChanges

LEMMA MirrorMovesKeeps ==
    ASSUME IndexHolds, ImportInv, NEW p \in Products, NEW l \in Listings, MirrorMoves(p, l)
    PROVE  ImportInv'
<1>1. l \in ListingOf
  BY DEF IndexHolds, CatalogHolds, ListingOf
<1>2. mirror' \in [Products -> ListingOf]
  BY <1>1, MirrorTyped DEF MirrorMoves
<1> QED
  BY <1>2, MirrorTyped, SpendCounts, JobChanges DEF MirrorMoves, ImportInv

\* The import keeps its invariant, and so do the owner and the mirror.
LEMMA ImportStep ==
    ASSUME IndexHolds, ImportInv, CatalogOwner \/ ImportSteps
    PROVE  ImportInv'
<1>1. CASE CatalogOwner
  BY <1>1, WholeImportKeeps, MirrorMovesKeeps DEF CatalogOwner
<1>2. CASE GroupList \/ GroupsDone \/ ImportFails
  BY <1>2, WholeImportKeeps
<1>3. CASE GroupSteps
  BY <1>3, NextGroupKeeps, FetchKeeps, UpsertSetKeeps, RecordGroupKeeps, GroupFailsKeeps DEF GroupSteps
<1>4. CASE ProductSteps
  BY <1>4, FindCardKeeps, WriteCardKeeps, AddVariantKeeps, SetDefaultKeeps DEF ProductSteps
<1> QED
  BY <1>1, <1>2, <1>3, <1>4 DEF ImportSteps

-----------------------------------------------------------------------------
(* From the start to every step.                                            *)

\* A set without two different members is counted as one at most.
LEMMA CountedOnce ==
    ASSUME NEW S, \A x, y \in S : x = y
    PROVE  Cardinality(S) <= 1
<1> DEFINE count(f) == f = [T \in SUBSET S |-> IF T = {} THEN 0 ELSE 1 + f[T \ {CHOOSE x : x \in T}]]
<1>1. \E f : count(f)
  <2>1. count([T \in SUBSET S |-> IF T = {} THEN 0 ELSE 1])
    <3>1. \A T \in SUBSET S : T # {} => T \ {CHOOSE x : x \in T} = {}
      OBVIOUS
    <3> QED
      BY <3>1
  <2> QED
    BY <2>1
<1>2. count(CHOOSE f : count(f))
  BY <1>1
<1>3. Cardinality(S) = (CHOOSE f : count(f))[S]
  BY DEF Cardinality
<1> QED
  <2>1. PICK f : f = (CHOOSE g : count(g))
    OBVIOUS
  <2>2. count(f)
    BY <1>2, <2>1
  <2>3. S # {} => S \ {CHOOSE x : x \in S} = {}
    OBVIOUS
  <2>4. f[{}] = 0 /\ (S # {} => f[S] = 1 + f[S \ {CHOOSE x : x \in S}])
    BY <2>2
  <2> HIDE DEF count
  <2>5. f[S] = 0 \/ f[S] = 1
    BY <2>3, <2>4
  <2>6. Cardinality(S) = f[S]
    BY <1>3, <2>1
  <2> QED
    BY <2>5, <2>6

LEMMA ImportStarts == ASSUME IndexHolds, CatalogInit PROVE ImportInv
<1>1. \A c \in Ids : printings[c] = IF cards[c] # NoCard
                                     THEN [NoPrintings EXCEPT ![Normal] = "default"] ELSE NoPrintings
  BY DEF CatalogInit, Exists
<1>2. \A c \in Ids : /\ printings[c] \in [Finishes -> Printing]
                     /\ \A f \in Finishes : printings[c][f] = "default" => f = Normal
  BY <1>1 DEF NoPrintings, Printing
<1>3. CatalogTypes
  <2>1. /\ printings \in [Ids -> [Finishes -> Printing]]
    BY <1>2 DEF CatalogInit
  <2>2. job \in Job
    BY IdleIsJob DEF CatalogInit
  <2>3. mirror \in [Products -> ListingRec \cup {NotListed}]
    BY DEF CatalogInit, IndexHolds, CatalogHolds
  <2>4. whole \in [Groups -> [Products -> ListingRec \cup {NotListed}]]
    BY DEF CatalogInit, Nothing
  <2> QED
    BY <2>1, <2>2, <2>3, <2>4 DEF CatalogTypes, CatalogInit, IndexHolds, CatalogHolds, Printing
<1>4. Single(cards, printings)
  BY <1>2 DEF Single, IndexHolds, CatalogHolds, CatalogInit
<1>5. Recorded(recorded, whole, cards, printings)
  BY DEF Recorded, CatalogInit
<1>6. ImportFacts(job, cards, printings)
  BY NoneInHand DEF CatalogInit, NoJob
<1> QED
  BY <1>3, <1>4, <1>5, <1>6 DEF ImportInv

\* Steps that leave the catalog as it is, but for the events and the import that is over.
LEMMA CatalogRests ==
    ASSUME IndexHolds, ImportInv, job' \in {job, NoJob}, spent' \in Nat,
           UNCHANGED <<mirror, recorded, sets, cards, printings, whole>>
    PROVE  ImportInv'
<1>1. CASE job' = job
  BY <1>1, MirrorTyped, JobChanges DEF ImportInv
<1>2. CASE job' = NoJob
  BY <1>2, ToIdle
<1> QED
  BY <1>1, <1>2

LEMMA BuildLeavesCatalog ==
    ASSUME IndexHolds, ImportInv, NEW b \in Builders, BuildSteps(b)
    PROVE  ImportInv'
<1>1. CASE HostCheck(b)
  BY <1>1, CatalogRests, MirrorTyped DEF HostCheck, catalogVars
<1>2. CASE BuildDone(b)
  <2>1. /\ job' \in {job, NoJob}
        /\ UNCHANGED <<mirror, recorded, sets, cards, printings, whole, spent>>
    BY <1>2 DEF BuildDone, Awaited
  <2> QED
    BY <2>1, CatalogRests, MirrorTyped
<1>3. ASSUME NEW c \in Ids, CardSteps(b, c) PROVE ImportInv'
  <2>1. CASE BuildThrows(b, c)
    <3>1. /\ job' \in {job, NoJob}
          /\ UNCHANGED <<mirror, recorded, sets, cards, printings, whole, spent>>
      BY <2>1 DEF BuildThrows, Awaited
    <3> QED
      BY <3>1, CatalogRests, MirrorTyped
  <2>2. CASE \/ FetchImage(b, c) \/ WriteHash(b, c) \/ DeleteMissing(b, c)
             \/ CardFails(b, c) \/ RecordMissing(b, c)
    <3>1. UNCHANGED catalogVars
      BY <2>2 DEF FetchImage, WriteHash, DeleteMissing, CardFails, RecordMissing
    <3> QED
      BY <3>1, CatalogRests, MirrorTyped DEF catalogVars
  <2> QED
    BY <1>3, <2>1, <2>2 DEF CardSteps
<1> QED
  BY <1>1, <1>2, <1>3 DEF BuildSteps

LEMMA ImportAlways == ASSUME IndexHolds, ImportInv, [LibraryNext]_libraryVars PROVE ImportInv'
<1>1. CASE (CatalogOwner \/ ImportSteps) /\ UNCHANGED indexVars
  BY <1>1, ImportStep
<1>2. CASE ImportBuild \/ BootBuild
  BY <1>2, CatalogRests, MirrorTyped DEF ImportBuild, BootBuild, catalogVars
<1>3. ASSUME NEW retry \in BOOLEAN, OwnerBuild(retry) PROVE ImportInv'
  BY <1>3, CatalogRests, SpendCounts DEF OwnerBuild
<1>4. ASSUME NEW b \in Builders, BuildSteps(b) PROVE ImportInv'
  BY <1>4, BuildLeavesCatalog
<1>5. ASSUME NEW looks \in Photos, PhotoStart(looks) PROVE ImportInv'
  BY <1>5, CatalogRests, SpendCounts DEF PhotoStart
<1>6. CASE PhotoSteps
  BY <1>6, CatalogRests, MirrorTyped
     DEF PhotoSteps, LoadIndex, KeepIndex, Answer, PhotoEnd, catalogVars
<1>7. CASE Expire \/ HostTurns \/ Restart
  <2>1. /\ job' \in {job, NoJob}
        /\ UNCHANGED <<mirror, recorded, sets, cards, printings, whole>>
        /\ spent' = spent \/ Spend
    BY <1>7 DEF Expire, HostTurns, Restart, catalogVars
  <2> QED
    BY <2>1, CatalogRests, SpendCounts, MirrorTyped
<1>8. ASSUME NEW c \in Ids, Age(c) PROVE ImportInv'
  BY <1>8, CatalogRests, SpendCounts DEF Age
<1>9. CASE UNCHANGED libraryVars
  BY <1>9, CatalogRests, MirrorTyped DEF libraryVars
<1> QED
  BY <1>1, <1>2, <1>3, <1>4, <1>5, <1>6, <1>7, <1>8, <1>9 DEF LibraryNext

\* What is said of the rows is what the run checks.
LEMMA WholeIsSaid == ASSUME ImportInv PROVE RecordedWhole
<1>1. ASSUME NEW p \in Products PROVE Cardinality(CardsOf(p)) <= 1
  <2>1. \A c, d \in CardsOf(p) : c = d
    BY DEF CardsOf, Exists, ImportInv, Single
  <2> QED
    BY <2>1, CountedOnce
<1>2. ASSUME NEW c \in Ids PROVE Cardinality(Defaults(c)) <= 1
  <2>1. \A f, g \in Defaults(c) : f = g
    BY DEF Defaults, ImportInv, Single
  <2> QED
    BY <2>1, CountedOnce
<1>3. ASSUME NEW g \in recorded, NEW p \in Singles(whole[g])
      PROVE  \E c \in CardsOf(p) :
                whole[g][p].finishes \subseteq Have(printings[c]) /\ Defaults(c) # {}
  <2>1. Filed(p, whole[g][p].finishes, cards, printings)
    BY DEF ImportInv, Recorded
  <2> QED
    BY <2>1 DEF Filed, CardsOf, Exists, Defaults
<1> QED
  BY <1>1, <1>2, <1>3 DEF RecordedWhole

-----------------------------------------------------------------------------
(* The builds of the index.                                                 *)

MissRec == [image : Images \cup {NoImage}, recent : BOOLEAN]

\* An image a worker found absent is gone, or the host turns the server away; a host that was
\* found to serve does serve.
Trusted(r, turned) ==
    /\ r.check = "ok" => r.pc \in {"work", "orphan"} /\ ~turned
    /\ \A c \in Ids : r.stage[c] = "absent" =>
          r.pc \in {"work", "orphan"} /\ (r.url[c] \in Gone \/ turned)

BuildInv ==
    /\ build \in [Builders -> BuildRec]
    /\ \A b \in Builders : Trusted(build[b], blocked)
    /\ missing \in [Ids -> MissRec \cup {NoMissing}]
    /\ OnlyGone

LEMMA NoBuildTrusted ==
    /\ NoBuild \in BuildRec /\ \A turned : Trusted(NoBuild, turned)
    /\ [NoBuild EXCEPT !.pc = "boot"] \in BuildRec
    /\ \A turned : Trusted([NoBuild EXCEPT !.pc = "boot"], turned)
  BY DEF NoBuild, BuildRec, Trusted, Stages

\* A build that starts has fetched nothing.
LEMMA WorkingTrusted ==
    ASSUME CatalogTypes, NEW todo \in SUBSET Pictured, NEW turned
    PROVE  Working(todo) \in BuildRec /\ Trusted(Working(todo), turned)
<1> DEFINE url == [c \in Ids |-> IF c \in todo THEN Url(c) ELSE NoImage]
           was == {c \in todo : Missed(c)}
           stage == [c \in Ids |-> IF c \in todo THEN "queued" ELSE "out"]
<1>1. url \in [Ids -> Images \cup {NoImage}]
  BY DEF CatalogTypes, Pictured, Exists, Url, CardRec
<1>2. was \in SUBSET Ids
  BY DEF Pictured
<1>3. stage \in [Ids -> Stages] /\ \A c \in Ids : stage[c] # "absent"
  BY DEF Stages
<1>4. Working(todo) = [[[[NoBuild EXCEPT !.pc = "work"] EXCEPT !.url = url] EXCEPT !.was = was]
                                EXCEPT !.stage = stage]
  BY DEF Working
<1> HIDE DEF url, was, stage
<1>5. Working(todo) = [pc |-> "work", url |-> url, was |-> was, stage |-> stage,
                             check |-> "none", done |-> FALSE]
  BY <1>4 DEF NoBuild
<1> QED
  BY <1>1, <1>2, <1>3, <1>5 DEF BuildRec, Trusted

\* One build moves on.
LEMMA BuildMoves ==
    ASSUME BuildInv, NEW b \in Builders, NEW r \in BuildRec, Trusted(r, blocked),
           build' = [build EXCEPT ![b] = r], UNCHANGED blocked
    PROVE  /\ build' \in [Builders -> BuildRec]
           /\ \A a \in Builders : Trusted(build'[a], blocked')
  BY DEF BuildInv

LEMMA SameMissing == ASSUME BuildInv, UNCHANGED <<missing, onWord>> PROVE OnlyGone' /\ missing' \in [Ids -> MissRec \cup {NoMissing}]
  BY DEF BuildInv, OnlyGone, Missed

\* A card of a build goes to a stage that is not "absent".
LEMMA CardGoesOn ==
    ASSUME NEW r \in BuildRec, NEW c \in Ids, NEW stage \in Stages, NEW turned, Trusted(r, turned),
           stage = "absent" => r.pc \in {"work", "orphan"} /\ (r.url[c] \in Gone \/ turned)
    PROVE  /\ [r EXCEPT !.stage[c] = stage] \in BuildRec
           /\ Trusted([r EXCEPT !.stage[c] = stage], turned)
<1> DEFINE stages == [r.stage EXCEPT ![c] = stage]
<1>1. /\ stages \in [Ids -> Stages]
      /\ \A d \in Ids : stages[d] = "absent" => (d = c /\ stage = "absent") \/ r.stage[d] = "absent"
  BY DEF BuildRec
<1>2. [r EXCEPT !.stage[c] = stage] = [r EXCEPT !.stage = stages]
  OBVIOUS
<1> HIDE DEF stages
<1>3. PICK s : s = [r EXCEPT !.stage = stages]
  OBVIOUS
<1>4. /\ s \in BuildRec /\ s.stage = stages
      /\ s.pc = r.pc /\ s.check = r.check /\ s.url = r.url
  BY <1>1, <1>3 DEF BuildRec
<1>5. Trusted(s, turned)
  BY <1>1, <1>4 DEF Trusted
<1> QED
  BY <1>2, <1>3, <1>4, <1>5

LEMMA DoneIsTrusted ==
    ASSUME NEW r \in BuildRec, NEW turned, Trusted(r, turned), NEW done \in BOOLEAN
    PROVE  [r EXCEPT !.done = done] \in BuildRec /\ Trusted([r EXCEPT !.done = done], turned)
<1>1. PICK s : s = [r EXCEPT !.done = done]
  OBVIOUS
<1>2. /\ s \in BuildRec /\ s.stage = r.stage
      /\ s.pc = r.pc /\ s.check = r.check /\ s.url = r.url
  BY <1>1 DEF BuildRec
<1> QED
  BY <1>1, <1>2 DEF Trusted

LEMMA FetchKeepsBuilds ==
    ASSUME BuildInv, NEW b \in Builders, NEW c \in Ids,
           FetchImage(b, c) \/ CardFails(b, c)
    PROVE  BuildInv'
<1>1. PICK r \in BuildRec : r = build[b] /\ Trusted(r, blocked)
  BY DEF BuildInv
<1>2. CASE FetchImage(b, c)
  <2>1. PICK stage : stage = IF blocked \/ r.url[c] \in Gone THEN "absent" ELSE "fetched"
    OBVIOUS
  <2>2. /\ stage \in Stages
        /\ stage = "absent" => r.pc \in {"work", "orphan"} /\ (r.url[c] \in Gone \/ blocked)
    BY <1>1, <1>2, <2>1 DEF FetchImage, At, Stages
  <2>3. build' = [build EXCEPT ![b] = [r EXCEPT !.stage[c] = stage]] /\ UNCHANGED <<missing, blocked, onWord>>
    BY <1>1, <1>2, <2>1 DEF FetchImage, BuildInv
  <2> QED
    BY <1>1, <2>2, <2>3, CardGoesOn, BuildMoves, SameMissing DEF BuildInv
<1>3. CASE CardFails(b, c)
  <2>1. build' = [build EXCEPT ![b] = [r EXCEPT !.stage[c] = "done"]] /\ UNCHANGED <<missing, blocked, onWord>>
    BY <1>1, <1>3 DEF CardFails, BuildInv
  <2>2. "done" \in Stages
    BY DEF Stages
  <2> QED
    BY <1>1, <2>1, <2>2, CardGoesOn, BuildMoves, SameMissing DEF BuildInv
<1> QED
  BY <1>2, <1>3

LEMMA WriteKeepsBuilds ==
    ASSUME BuildInv, NEW b \in Builders, NEW c \in Ids, WriteHash(b, c) PROVE BuildInv'
<1>1. PICK r \in BuildRec : r = build[b] /\ Trusted(r, blocked)
  BY DEF BuildInv
<1>2. PICK done \in BOOLEAN : done = (r.done \/ c \notin r.was)
  <2>1. (r.done \/ c \notin r.was) = TRUE \/ (r.done \/ c \notin r.was) = FALSE
    OBVIOUS
  <2> QED
    BY <2>1
<1>3. PICK stage \in Stages : stage = (IF c \in r.was THEN "stored" ELSE "done") /\ stage # "absent"
  BY DEF Stages
<1>4. PICK s : s = [r EXCEPT !.stage[c] = stage]
  OBVIOUS
<1>5. s \in BuildRec /\ Trusted(s, blocked)
  BY <1>1, <1>3, <1>4, CardGoesOn
<1>6. /\ build' = [build EXCEPT ![b] = [r EXCEPT !.stage[c] = stage, !.done = r.done \/ c \notin r.was]]
      /\ UNCHANGED <<missing, blocked, onWord>>
  BY <1>1, <1>3 DEF WriteHash, BuildInv
<1>7. [r EXCEPT !.stage[c] = stage, !.done = r.done \/ c \notin r.was] = [s EXCEPT !.done = done]
  BY <1>2, <1>4
<1>8. PICK t \in BuildRec : t = [s EXCEPT !.done = done] /\ Trusted(t, blocked)
  BY <1>5, DoneIsTrusted
<1> QED
  BY <1>6, <1>7, <1>8, BuildMoves, SameMissing DEF BuildInv

LEMMA DeleteKeepsBuilds ==
    ASSUME BuildInv, NEW b \in Builders, NEW c \in Ids, DeleteMissing(b, c) PROVE BuildInv'
<1>1. PICK r \in BuildRec : r = build[b] /\ Trusted(r, blocked)
  BY DEF BuildInv
<1>2. PICK s : s = [r EXCEPT !.stage[c] = "done"]
  OBVIOUS
<1>3. s \in BuildRec /\ Trusted(s, blocked)
  <2>1. "done" \in Stages
    BY DEF Stages
  <2> QED
    BY <1>1, <1>2, <2>1, CardGoesOn
<1>4. /\ build' = [build EXCEPT ![b] = [s EXCEPT !.done = TRUE]]
      /\ missing' = [missing EXCEPT ![c] = NoMissing] /\ UNCHANGED <<blocked, onWord>>
  BY <1>1, <1>2 DEF DeleteMissing, BuildInv
<1>5. PICK t \in BuildRec : t = [s EXCEPT !.done = TRUE] /\ Trusted(t, blocked)
  BY <1>3, DoneIsTrusted
<1>6. missing' \in [Ids -> MissRec \cup {NoMissing}] /\ OnlyGone'
  BY <1>4 DEF BuildInv, OnlyGone, Missed
<1> QED
  BY <1>4, <1>5, <1>6, BuildMoves DEF BuildInv

\* The host is checked by an image it did serve.
LEMMA CheckKeepsBuilds ==
    ASSUME BuildInv, NEW b \in Builders, HostCheck(b) PROVE BuildInv'
<1>1. PICK r \in BuildRec : r = build[b] /\ Trusted(r, blocked)
  BY DEF BuildInv
<1>2. PICK check : /\ check \in {"ok", "bad", "noref"} /\ (check = "ok" => ~blocked)
                   /\ build' = [build EXCEPT ![b] = [r EXCEPT !.check = check]]
  BY <1>1 DEF HostCheck, HostServes, BuildInv
<1>3. r.pc \in {"work", "orphan"} /\ UNCHANGED <<missing, blocked, onWord>>
  BY <1>1 DEF HostCheck, At
<1>4. PICK s : s = [r EXCEPT !.check = check]
  OBVIOUS
<1>5. s \in BuildRec /\ s.stage = r.stage /\ s.pc = r.pc /\ s.check = check /\ s.url = r.url
  BY <1>2, <1>4 DEF BuildRec
<1>6. Trusted(s, blocked)
  BY <1>1, <1>2, <1>3, <1>5 DEF Trusted
<1> QED
  BY <1>2, <1>3, <1>4, <1>5, <1>6, BuildMoves, SameMissing DEF BuildInv

\* What a build records was absent while the host served, or nothing could vouch for the host.
LEMMA RecordKeepsBuilds ==
    ASSUME BuildInv, NEW b \in Builders, NEW c \in Ids, RecordMissing(b, c) PROVE BuildInv'
<1>1. PICK r \in BuildRec : r = build[b] /\ Trusted(r, blocked)
  BY DEF BuildInv
<1>2. build' = [build EXCEPT ![b] = [r EXCEPT !.stage[c] = "done"]] /\ UNCHANGED blocked
  BY <1>1 DEF RecordMissing, BuildInv
<1>3. [r EXCEPT !.stage[c] = "done"] \in BuildRec /\ Trusted([r EXCEPT !.stage[c] = "done"], blocked)
  <2>1. "done" \in Stages
    BY DEF Stages
  <2> QED
    BY <1>1, <2>1, CardGoesOn
<1>4. missing' \in [Ids -> MissRec \cup {NoMissing}] /\ OnlyGone'
  <2>1. CASE r.check = "bad"
    BY <1>1, <2>1, SameMissing DEF RecordMissing
  <2>2. CASE r.check # "bad"
    <3>1. PICK m : m = [image |-> r.url[c], recent |-> TRUE]
      OBVIOUS
    <3>2. m \in MissRec /\ m.image = r.url[c]
      BY <3>1 DEF BuildRec, MissRec
    <3>3. /\ missing' = [missing EXCEPT ![c] = m]
          /\ onWord' = IF r.check = "noref" THEN onWord \cup {c} ELSE onWord \ {c}
      BY <1>1, <2>2, <3>1 DEF RecordMissing
    <3>4. r.url[c] \in Gone \/ r.check = "noref"
      BY <1>1, <2>2 DEF RecordMissing, At, Trusted, BuildRec
    <3> QED
      BY <3>2, <3>3, <3>4 DEF BuildInv, OnlyGone, Missed
  <2> QED
    BY <2>1, <2>2
<1> QED
  BY <1>2, <1>3, <1>4, BuildMoves DEF BuildInv

LEMMA ThrowKeepsBuilds ==
    ASSUME BuildInv, NEW b \in Builders, NEW c \in Ids, BuildThrows(b, c) PROVE BuildInv'
<1>1. PICK r \in BuildRec : r = build[b] /\ Trusted(r, blocked)
  BY DEF BuildInv
<1>2. PICK s : s = [r EXCEPT !.pc = "orphan"]
  OBVIOUS
<1>3. s \in BuildRec /\ s.stage = r.stage /\ s.pc = "orphan" /\ s.check = r.check /\ s.url = r.url
  BY <1>2 DEF BuildRec
<1>4. Trusted(s, blocked)
  BY <1>1, <1>3 DEF Trusted
<1>5. build' = [build EXCEPT ![b] = [s EXCEPT !.stage[c] = "done"]] /\ UNCHANGED <<missing, blocked, onWord>>
  BY <1>1, <1>2 DEF BuildThrows, BuildInv
<1>6. [s EXCEPT !.stage[c] = "done"] \in BuildRec /\ Trusted([s EXCEPT !.stage[c] = "done"], blocked)
  <2>1. "done" \in Stages
    BY DEF Stages
  <2> QED
    BY <1>3, <1>4, <2>1, CardGoesOn
<1> QED
  BY <1>5, <1>6, BuildMoves, SameMissing DEF BuildInv

LEMMA BuildStepKeeps ==
    ASSUME BuildInv, NEW b \in Builders, BuildSteps(b) PROVE BuildInv'
<1>1. CASE BuildDone(b)
  <2>1. build' = [build EXCEPT ![b] = NoBuild] /\ UNCHANGED <<missing, blocked, onWord>>
    BY <1>1 DEF BuildDone
  <2> QED
    BY <2>1, NoBuildTrusted, BuildMoves, SameMissing DEF BuildInv
<1>2. ASSUME NEW c \in Ids, CardSteps(b, c) PROVE BuildInv'
  BY <1>2, FetchKeepsBuilds, WriteKeepsBuilds, DeleteKeepsBuilds, RecordKeepsBuilds, ThrowKeepsBuilds
     DEF CardSteps
<1> QED
  BY <1>1, <1>2, CheckKeepsBuilds DEF BuildSteps

\* A build is started.
LEMMA StartKeepsBuilds ==
    ASSUME BuildInv, CatalogTypes, NEW b \in Builders, NEW retry \in BOOLEAN,
           build' = [build EXCEPT ![b] = Working(Todo(retry))],
           UNCHANGED <<missing, blocked, onWord>>
    PROVE  BuildInv'
<1>1. Todo(retry) \in SUBSET Pictured
  BY DEF Todo
<1>2. PICK r \in BuildRec : r = Working(Todo(retry)) /\ Trusted(r, blocked)
  BY <1>1, WorkingTrusted
<1> QED
  BY <1>2, BuildMoves, SameMissing DEF BuildInv

LEMMA BuildsRest ==
    ASSUME BuildInv, UNCHANGED <<build, missing, blocked, onWord>>
    PROVE  BuildInv'
  BY SameMissing DEF BuildInv

LEMMA RestartKeepsBuilds == ASSUME BuildInv, Restart PROVE BuildInv'
<1>1. \A b \in Builders : build'[b] \in {NoBuild, [NoBuild EXCEPT !.pc = "boot"]}
  BY DEF Restart
<1>2. build' \in [Builders -> BuildRec]
  BY <1>1, NoBuildTrusted DEF Restart
<1>3. \A b \in Builders : Trusted(build'[b], blocked')
  BY <1>1, NoBuildTrusted
<1> QED
  BY <1>2, <1>3, SameMissing DEF Restart, BuildInv

LEMMA AgeKeepsBuilds == ASSUME BuildInv, NEW c \in Ids, Age(c) PROVE BuildInv'
<1>1. PICK m \in MissRec : m = missing[c]
  BY DEF BuildInv, Age, Missed
<1>2. PICK n : n = [m EXCEPT !.recent = FALSE]
  OBVIOUS
<1>3. n \in MissRec /\ n.image = m.image
  BY <1>2 DEF MissRec
<1>4. missing' = [missing EXCEPT ![c] = n] /\ UNCHANGED <<build, blocked, onWord>> /\ Missed(c)
  BY <1>1, <1>2 DEF Age, BuildInv
<1> QED
  BY <1>1, <1>3, <1>4 DEF BuildInv, OnlyGone, Missed

\* The host does not turn while a build works.
LEMMA TurnKeepsBuilds == ASSUME BuildInv, Steady = TRUE, HostTurns PROVE BuildInv'
<1>1. \A b \in Builders : build[b].pc \notin {"work", "orphan"}
  BY DEF HostTurns
<1>2. \A b \in Builders : Trusted(build[b], blocked')
  BY <1>1 DEF BuildInv, Trusted
<1> QED
  BY <1>2, SameMissing DEF HostTurns, BuildInv

LEMMA BuildsAlways ==
    ASSUME Steady = TRUE, CatalogTypes, BuildInv, [LibraryNext]_libraryVars
    PROVE  BuildInv'
<1>1. CASE (CatalogOwner \/ ImportSteps) /\ UNCHANGED indexVars
  BY <1>1, BuildsRest DEF indexVars
<1>2. CASE ImportBuild \/ BootBuild
  BY <1>2, StartKeepsBuilds DEF ImportBuild, BootBuild, Builders
<1>3. ASSUME NEW retry \in BOOLEAN, OwnerBuild(retry) PROVE BuildInv'
  BY <1>3, StartKeepsBuilds DEF OwnerBuild, Builders
<1>4. ASSUME NEW b \in Builders, BuildSteps(b) PROVE BuildInv'
  BY <1>4, BuildStepKeeps
<1>5. ASSUME NEW looks \in Photos, PhotoStart(looks) PROVE BuildInv'
  BY <1>5, BuildsRest DEF PhotoStart
<1>6. CASE PhotoSteps
  BY <1>6, BuildsRest DEF PhotoSteps, LoadIndex, KeepIndex, Answer, PhotoEnd
<1>7. CASE Expire
  BY <1>7, BuildsRest DEF Expire
<1>8. ASSUME NEW c \in Ids, Age(c) PROVE BuildInv'
  BY <1>8, AgeKeepsBuilds
<1>9. CASE UNCHANGED libraryVars
  BY <1>9, BuildsRest DEF libraryVars
<1> QED
  BY <1>1, <1>2, <1>3, <1>4, <1>5, <1>6, <1>7, <1>8, <1>9, TurnKeepsBuilds, RestartKeepsBuilds DEF LibraryNext

LEMMA BuildsStart == ASSUME IndexInit PROVE BuildInv
<1>1. build \in [Builders -> BuildRec] /\ \A b \in Builders : Trusted(build[b], blocked)
  BY NoBuildTrusted DEF IndexInit
<1>2. missing \in [Ids -> MissRec \cup {NoMissing}] /\ OnlyGone
  BY DEF IndexInit, OnlyGone, Missed
<1> QED
  BY <1>1, <1>2 DEF BuildInv

-----------------------------------------------------------------------------
(* The theorems.                                                            *)

\* Every row of the catalog, every recorded group and everything the import has in hand is of
\* its type, and the rows are whole: the inductive invariant of the import.
THEOREM ImportKeepsItsInvariant == LibrarySpec => []ImportInv
<1>1. LibraryInit => ImportInv
  BY ImportStarts, AsRun DEF LibraryInit
<1>2. ImportInv /\ [LibraryNext]_libraryVars => ImportInv'
  BY ImportAlways, AsRun
<1> QED
  BY <1>1, <1>2, PTL DEF LibrarySpec

\* A group that later imports skip is whole, no product has two cards and no card two default
\* printings, however often the import (app/catalog-import.ts) stopped, failed or was repeated
\* while the photo index was built beside it.
THEOREM RecordedIsWhole == LibrarySpec => []RecordedWhole
<1>1. ImportInv => RecordedWhole
  BY WholeIsSaid
<1> QED
  BY <1>1, ImportKeepsItsInvariant, PTL

\* An image the host does have is never recorded as missing by a build (app/hashindex.ts)
\* through which the host keeps its mood, unless nothing was hashed to check the host by.
THEOREM MissingIsGone == Steady = TRUE /\ LibrarySpec => []OnlyGone
<1>1. LibraryInit => BuildInv
  BY BuildsStart DEF LibraryInit
<1>2. Steady = TRUE /\ ImportInv /\ BuildInv /\ [LibraryNext]_libraryVars => BuildInv'
  BY BuildsAlways DEF ImportInv
<1>3. BuildInv => OnlyGone
  BY DEF BuildInv
<1>4. (Steady = TRUE) => (Steady = TRUE)'
  OBVIOUS
<1> QED
  BY <1>1, <1>2, <1>3, <1>4, ImportKeepsItsInvariant, PTL DEF LibrarySpec

=============================================================================
