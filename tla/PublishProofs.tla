--------------------------- MODULE PublishProofs ---------------------------
(***************************************************************************)
(* Proofs about Publish: its types, and what one request at a time keeps   *)
(* of a listing, its offer and its place on eBay; about Stock: its types,  *)
(* the rows shown as listed, and the exports; and about Titles: the name   *)
(* and number a title says.                                                *)
(***************************************************************************)
EXTENDS Publish, Stock, Titles, FiniteSetTheorems, SequenceTheorems, WellFoundedInduction, NaturalsInduction, TLAPS

-----------------------------------------------------------------------------
(* Type correctness.                                                       *)

ListingRec == [status : Statuses, at : {"never", "later", "now"}, attempts : Nat, offer : Nat]

Locals == [pc : Points \cup {"idle"}, todo : SUBSET Listings, l : Listings \cup {NoListing},
           was : Statuses, old : Nat, offer : Nat, runner : BOOLEAN]

TypeOK ==
    /\ listing \in [Listings -> ListingRec]
    /\ connected \in BOOLEAN
    /\ offers \in [Listings -> Nat]
    /\ live \in [Listings -> SUBSET Nat]
    /\ asked \in [Kinds -> Nat]
    /\ world \in Worlds
    /\ sess \in [Sessions -> Locals]

\* A session that is neither idle nor between two listings of a run has one in hand.
InHand(r) == r.pc \notin {"idle", "run"} => r.l \in Listings

TypeInv == TypeOK /\ \A s \in Sessions : InHand(sess[s])

LEMMA IdleType == Idle \in Locals /\ InHand(Idle)
BY DEF Idle, Locals, InHand, Statuses, NoListing, NoOffer

LEMMA WorldType == TypeOK => world \in WorldRec
BY PublishAssumption DEF TypeOK

LEMMA TypeInit == Init => TypeInv
BY IdleType, PublishAssumption DEF Init, TypeInv, TypeOK, ListingRec, Statuses, NoOffer

LEMMA AskType ==
    ASSUME TypeOK, NEW s \in Sessions, NEW k \in Kinds, Ask(s, k)
    PROVE  asked' \in [Kinds -> Nat]
BY DEF TypeOK, Ask

\* One session moves on: the others keep what they have.
LEMMA SessionStep ==
    ASSUME TypeInv, NEW s \in Sessions, NEW r \in Locals, InHand(r), sess' = [sess EXCEPT ![s] = r]
    PROVE  sess' \in [Sessions -> Locals] /\ \A t \in Sessions : InHand(sess'[t])
BY DEF TypeInv, TypeOK

\* One listing's row is written.
LEMMA ListingStep ==
    ASSUME TypeOK, NEW l \in Listings, NEW r \in ListingRec, listing' = [listing EXCEPT ![l] = r]
    PROVE  listing' \in [Listings -> ListingRec]
BY DEF TypeOK

LEMMA SetIs ==
    ASSUME TypeOK, NEW l \in Listings, NEW st \in Statuses, Set(l, st)
    PROVE  /\ listing' \in [Listings -> ListingRec]
           /\ listing'[l].status = st /\ listing'[l].offer = listing[l].offer
           /\ \A k \in Listings : k # l => listing'[k] = listing[k]
<1>1. listing[l] \in ListingRec
  BY DEF TypeOK
<1> DEFINE r == [listing[l] EXCEPT !.status = st]
<1>2. r \in ListingRec /\ r.status = st /\ r.offer = listing[l].offer
  BY <1>1 DEF ListingRec
<1>3. listing' = [listing EXCEPT ![l] = r]
  BY DEF Set
<1> HIDE DEF r
<1>4. QED
  BY <1>2, <1>3 DEF TypeOK

LEMMA GotoIs ==
    ASSUME TypeInv, NEW s \in Sessions, NEW at \in Points, Goto(s, at),
           sess[s].l \in Listings
    PROVE  /\ sess' \in [Sessions -> Locals] /\ \A t \in Sessions : InHand(sess'[t])
           /\ sess'[s] = [sess[s] EXCEPT !.pc = at]
           /\ \A t \in Sessions : t # s => sess'[t] = sess[t]
<1>1. sess[s] \in Locals /\ sess \in [Sessions -> Locals]
  BY DEF TypeInv, TypeOK
<1> DEFINE r == [sess[s] EXCEPT !.pc = at]
<1>2. r \in Locals /\ InHand(r)
  BY <1>1 DEF Locals, InHand
<1>3. sess' = [sess EXCEPT ![s] = r]
  BY DEF Goto
<1>4. sess'[s] = r /\ \A t \in Sessions : t # s => sess'[t] = sess[t]
  BY <1>1, <1>3
<1> HIDE DEF r
<1>5. sess' \in [Sessions -> Locals] /\ \A t \in Sessions : InHand(sess'[t])
  BY <1>2, <1>3, SessionStep
<1>6. QED
  BY <1>4, <1>5 DEF r

\* Where a request goes when it is done with a listing.
LEMMA NextUpIs ==
    ASSUME TypeInv, NEW s \in Sessions, NextUp(s)
    PROVE  /\ sess' \in [Sessions -> Locals] /\ \A t \in Sessions : InHand(sess'[t])
           /\ \A t \in Sessions : t # s => sess'[t] = sess[t]
           /\ sess'[s].l = NoListing
           /\ \/ sess'[s].pc = "idle" /\ sess'[s].todo = {}
              \/ sess[s].runner /\ sess'[s].pc = "run" /\ sess'[s].runner /\ sess'[s].todo = sess[s].todo
<1>1. sess[s] \in Locals /\ sess \in [Sessions -> Locals]
  BY DEF TypeInv, TypeOK
<1> DEFINE r == [Idle EXCEPT !.pc = "run", !.runner = TRUE, !.todo = sess[s].todo]
<1>2. r \in Locals /\ InHand(r) /\ r.l = NoListing /\ r.pc = "run" /\ r.runner /\ r.todo = sess[s].todo
  BY <1>1, IdleType DEF Idle, Locals, InHand, Points
<1>3. sess' = [sess EXCEPT ![s] = IF sess[s].runner THEN r ELSE Idle]
  BY DEF NextUp
<1> HIDE DEF r
<1>4. Idle.l = NoListing /\ Idle.pc = "idle" /\ Idle.todo = {}
  BY DEF Idle
<1>5. CASE sess[s].runner
  BY <1>1, <1>2, <1>3, <1>5, SessionStep
<1>6. CASE ~ sess[s].runner
  BY <1>1, <1>3, <1>4, <1>6, IdleType, SessionStep
<1>7. QED
  BY <1>5, <1>6

\* What Prepare leaves a session with.
LEMMA PrepareIs ==
    ASSUME TypeInv, NEW s \in Sessions, NEW l \in Listings, NEW todo \in SUBSET Listings, NEW runner \in BOOLEAN,
           Prepare(s, l, todo, runner)
    PROVE  /\ sess' \in [Sessions -> Locals] /\ \A t \in Sessions : InHand(sess'[t])
           /\ \A t \in Sessions : t # s => sess'[t] = sess[t]
           /\ \/ /\ connected /\ sess'[s].pc = "offer" /\ sess'[s].l = l /\ sess'[s].todo = todo
                 /\ sess'[s].runner = runner /\ sess'[s].was = listing[l].status
                 /\ sess'[s].old = listing[l].offer /\ sess'[s].offer = listing[l].offer
              \/ runner /\ sess'[s].pc = "bump" /\ sess'[s].l = l /\ sess'[s].todo = todo /\ sess'[s].runner
              \/ ~ runner /\ sess'[s] = Idle
<1>1. sess[s] \in Locals /\ sess \in [Sessions -> Locals] /\ listing[l] \in ListingRec
  BY DEF TypeInv, TypeOK
<1> DEFINE r == [Idle EXCEPT !.l = l, !.todo = todo, !.runner = runner]
           goes == [r EXCEPT !.pc = "offer", !.was = listing[l].status,
                          !.old = listing[l].offer, !.offer = listing[l].offer]
           bumps == [r EXCEPT !.pc = "bump"]
<1>2. /\ goes \in Locals /\ InHand(goes) /\ goes.pc = "offer" /\ goes.l = l /\ goes.todo = todo
      /\ goes.runner = runner /\ goes.was = listing[l].status
      /\ goes.old = listing[l].offer /\ goes.offer = listing[l].offer
  BY <1>1 DEF Idle, Locals, InHand, Points, ListingRec
<1>3. /\ bumps \in Locals /\ InHand(bumps) /\ bumps.pc = "bump" /\ bumps.l = l /\ bumps.todo = todo
      /\ bumps.runner = runner
  BY <1>1 DEF Idle, Locals, InHand, Points, NoOffer, Statuses
<1>4. \/ connected /\ sess' = [sess EXCEPT ![s] = goes]
      \/ runner /\ sess' = [sess EXCEPT ![s] = bumps]
      \/ ~ runner /\ sess' = [sess EXCEPT ![s] = Idle]
  BY DEF Prepare
<1> HIDE DEF goes, bumps
<1>5. CASE connected /\ sess' = [sess EXCEPT ![s] = goes]
  BY <1>1, <1>2, <1>5, SessionStep
<1>6. CASE runner /\ sess' = [sess EXCEPT ![s] = bumps]
  BY <1>1, <1>3, <1>6, SessionStep
<1>7. CASE ~ runner /\ sess' = [sess EXCEPT ![s] = Idle]
  BY <1>1, <1>7, IdleType, SessionStep
<1>8. QED
  BY <1>4, <1>5, <1>6, <1>7

SessOK == sess' \in [Sessions -> Locals] /\ \A t \in Sessions : InHand(sess'[t])
Others(s) == \A t \in Sessions : t # s => sess'[t] = sess[t]

LEMMA ThrewIs ==
    ASSUME TypeInv, NEW s \in Sessions, sess[s].l \in Listings, Threw(s)
    PROVE  /\ SessOK /\ Others(s)
           /\ \/ sess[s].runner /\ sess'[s] = [sess[s] EXCEPT !.pc = "bump"]
              \/ sess'[s].pc = "idle" /\ sess'[s].l = NoListing /\ sess'[s].todo = {}
<1>1. CASE sess[s].runner
  <2>1. Goto(s, "bump") /\ "bump" \in Points
    BY <1>1 DEF Threw, Points
  <2>2. QED
    BY <1>1, <2>1, GotoIs DEF SessOK, Others
<1>2. CASE ~ sess[s].runner
  <2>1. NextUp(s)
    BY <1>2 DEF Threw
  <2>2. QED
    BY <1>2, <2>1, NextUpIs DEF SessOK, Others
<1>3. QED
  BY <1>1, <1>2

\* The buttons write one listing's row, or the connection.
LEMMA ButtonsStep ==
    ASSUME TypeInv, NEW s \in Sessions, Buttons(s)
    PROVE  /\ listing' \in [Listings -> ListingRec] /\ connected' \in BOOLEAN /\ asked' \in [Kinds -> Nat]
           /\ UNCHANGED <<ebay, sess>> /\ sess[s].pc = "idle" /\ s # Clock
           /\ \A l \in Listings :
                 /\ listing'[l].offer = listing[l].offer
                 /\ \/ listing'[l] = listing[l]
                    \/ listing[l].status # "published" /\ listing'[l].status # "published"
                    \/ world.budget["mark"] > 0 \/ world.budget["automatic"] > 0
<1>0. TypeOK /\ \A l \in Listings : listing[l] \in ListingRec
  BY DEF TypeInv, TypeOK
<1>1. ASSUME NEW k \in Kinds, Ask(s, k)
      PROVE  /\ asked' \in [Kinds -> Nat] /\ sess[s].pc = "idle" /\ s # Clock /\ world.budget[k] > 0
  <2>1. world.budget \in [Kinds -> Nat] /\ asked \in [Kinds -> Nat] /\ asked[k] < world.budget[k]
    BY <1>0, <1>1, WorldType DEF WorldRec, Ask, TypeOK
  <2>2. world.budget[k] > 0
    BY <2>1
  <2>3. QED
    BY <1>0, <1>1, <2>2, AskType DEF Ask
<1>2. /\ "create" \in Kinds /\ "schedule" \in Kinds /\ "unschedule" \in Kinds /\ "export" \in Kinds
      /\ "mark" \in Kinds /\ "automatic" \in Kinds /\ "connect" \in Kinds
  BY DEF Kinds
<1>3. ASSUME NEW l \in Listings, NEW st \in Statuses, NEW at \in {"never", "later", "now"}, NEW n \in Nat,
             listing' = [listing EXCEPT ![l] = [listing[l] EXCEPT !.status = st, !.at = at, !.attempts = n]]
      PROVE  /\ listing' \in [Listings -> ListingRec]
             /\ listing'[l].status = st
             /\ \A k \in Listings : listing'[k].offer = listing[k].offer /\ (k # l => listing'[k] = listing[k])
  <2> DEFINE r == [listing[l] EXCEPT !.status = st, !.at = at, !.attempts = n]
  <2>1. r \in ListingRec /\ r.offer = listing[l].offer /\ r.status = st
    BY <1>0 DEF ListingRec
  <2>2. listing' = [listing EXCEPT ![l] = r]
    BY <1>3
  <2> HIDE DEF r
  <2>3. QED
    BY <1>0, <2>1, <2>2 DEF TypeOK
<1>4. ASSUME NEW l \in Listings, NEW at \in {"never", "later", "now"}, Create(s, l, at) \/ Schedule(s, l, at)
      PROVE  /\ \E k \in Kinds : Ask(s, k)
             /\ \E st \in Statuses, n \in Nat :
                   /\ st # "published" /\ listing[l].status # "published"
                   /\ listing' = [listing EXCEPT ![l] = [listing[l] EXCEPT !.status = st, !.at = at, !.attempts = n]]
  <2> DEFINE st == IF at = "never" THEN "draft" ELSE "scheduled"
  <2>1. st \in Statuses /\ st # "published" /\ listing[l].status # "published" /\ listing[l].attempts \in Nat
    BY <1>0, <1>4 DEF Statuses, Create, Schedule, ListingRec
  <2>2. Create(s, l, at) => listing' = [listing EXCEPT ![l] = [listing[l] EXCEPT !.status = st, !.at = at, !.attempts = listing[l].attempts]]
    BY <1>0 DEF Create, ListingRec
  <2>3. Schedule(s, l, at) => listing' = [listing EXCEPT ![l] = [listing[l] EXCEPT !.status = st, !.at = at, !.attempts = 0]]
    BY DEF Schedule
  <2>4. \E k \in Kinds : Ask(s, k)
    BY <1>2, <1>4 DEF Create, Schedule
  <2> HIDE DEF st
  <2>5. QED
    BY <1>4, <2>1, <2>2, <2>3, <2>4
<1>5. ASSUME NEW l \in Listings, Export(s, l) PROVE Ask(s, "export") /\ Set(l, "exported") /\ listing[l].status # "published"
  BY <1>5 DEF Export
<1>6. ASSUME NEW l \in Listings, NEW st \in {"published", "ended"}, MarkListed(s, l) \/ Automatic(s, l, st)
      PROVE  /\ \E k \in {"mark", "automatic"} : Ask(s, k)
             /\ \E z \in Statuses : Set(l, z)
  BY <1>6 DEF MarkListed, Automatic, Statuses
<1>7. UNCHANGED <<ebay, sess>>
  BY DEF Buttons, Create, Schedule, Export, MarkListed, Automatic, Connect
<1>8. ASSUME NEW l \in Listings, NEW at \in {"never", "later", "now"}, Create(s, l, at) \/ Schedule(s, l, at)
      PROVE  /\ listing' \in [Listings -> ListingRec] /\ connected' = connected
             /\ asked' \in [Kinds -> Nat] /\ sess[s].pc = "idle" /\ s # Clock
             /\ \A k \in Listings :
                   /\ listing'[k].offer = listing[k].offer
                   /\ listing'[k] = listing[k] \/ (listing[k].status # "published" /\ listing'[k].status # "published")
  <2>1. PICK st \in Statuses, n \in Nat :
           /\ st # "published" /\ listing[l].status # "published"
           /\ listing' = [listing EXCEPT ![l] = [listing[l] EXCEPT !.status = st, !.at = at, !.attempts = n]]
    BY <1>4, <1>8
  <2>2. connected' = connected
    BY <1>8 DEF Create, Schedule
  <2>3. /\ listing' \in [Listings -> ListingRec] /\ listing'[l].status = st
        /\ \A k \in Listings : listing'[k].offer = listing[k].offer /\ (k # l => listing'[k] = listing[k])
    BY <1>3, <2>1
  <2>4. asked' \in [Kinds -> Nat] /\ sess[s].pc = "idle" /\ s # Clock
    BY <1>1, <1>4, <1>8
  <2>5. QED
    BY <2>1, <2>2, <2>3, <2>4
<1>9. ASSUME NEW l \in Listings, Export(s, l)
      PROVE  /\ listing' \in [Listings -> ListingRec] /\ connected' = connected
             /\ asked' \in [Kinds -> Nat] /\ sess[s].pc = "idle" /\ s # Clock
             /\ \A k \in Listings :
                   /\ listing'[k].offer = listing[k].offer
                   /\ listing'[k] = listing[k] \/ (listing[k].status # "published" /\ listing'[k].status # "published")
  <2>1. "exported" \in Statuses /\ connected' = connected
    BY <1>9 DEF Statuses, Export
  <2>2. QED
    BY <1>0, <1>1, <1>2, <1>5, <1>9, <2>1, SetIs
<1>10. ASSUME NEW l \in Listings, NEW st \in {"published", "ended"}, MarkListed(s, l) \/ Automatic(s, l, st)
       PROVE  /\ listing' \in [Listings -> ListingRec] /\ connected' = connected
              /\ asked' \in [Kinds -> Nat] /\ sess[s].pc = "idle" /\ s # Clock
              /\ \A k \in Listings : listing'[k].offer = listing[k].offer
              /\ world.budget["mark"] > 0 \/ world.budget["automatic"] > 0
  <2>1. connected' = connected
    BY <1>10 DEF MarkListed, Automatic
  <2>2. QED
    BY <1>0, <1>1, <1>2, <1>6, <1>10, <2>1, SetIs
<1>11. ASSUME Connect(s)
       PROVE  /\ listing' = listing /\ connected' \in BOOLEAN
              /\ asked' \in [Kinds -> Nat] /\ sess[s].pc = "idle" /\ s # Clock
  BY <1>0, <1>1, <1>2, <1>11 DEF Connect, TypeOK
<1>12. QED
  BY <1>0, <1>7, <1>8, <1>9, <1>10, <1>11 DEF Buttons, TypeOK

\* What the steps of a request do.
LEMMA OfferIs ==
    ASSUME TypeInv, NEW s \in Sessions, Offer(s)
    PROVE  /\ sess[s].l \in Listings /\ offers' \in [Listings -> Nat] /\ SessOK /\ Others(s)
           /\ UNCHANGED <<listing, connected, live, asked>>
           /\ \A k \in Listings : k # sess[s].l => offers'[k] = offers[k]
           /\ \/ /\ connected /\ sess'[s].pc = "publish" /\ sess'[s].l = sess[s].l /\ sess'[s].old = sess[s].old
                 /\ sess'[s].was = sess[s].was /\ sess'[s].todo = sess[s].todo /\ sess'[s].runner = sess[s].runner
                 /\ \/ sess[s].old # NoOffer /\ offers' = offers /\ sess'[s].offer = sess[s].offer
                    \/ /\ sess[s].old = NoOffer
                       /\ offers[sess[s].l] <= MaxOffers => offers'[sess[s].l] <= offers[sess[s].l] + 1
                       /\ sess'[s].offer = offers'[sess[s].l] /\ sess'[s].offer > 0
              \/ Threw(s) /\ ("offer" \in world.lost \/ offers' = offers)
<1>0. /\ TypeOK /\ sess \in [Sessions -> Locals] /\ sess[s] \in Locals /\ offers \in [Listings -> Nat]
      /\ MaxOffers \in Nat \ {0} /\ sess[s].l \in Listings
  BY PublishAssumption DEF TypeInv, TypeOK, InHand, Offer
<1> DEFINE l == sess[s].l
           posts == sess[s].old = NoOffer
           fresh == IF offers[l] < MaxOffers THEN offers[l] + 1 ELSE MaxOffers
           carriedOut == connected /\ offers' = [offers EXCEPT ![l] = IF posts THEN fresh ELSE @]
<1>1. fresh \in Nat /\ fresh > 0 /\ fresh <= offers[l] + 1
  BY <1>0
<1>2. UNCHANGED <<listing, connected, live, asked>>
  BY DEF Offer
<1>3. carriedOut => /\ offers' \in [Listings -> Nat] /\ \A k \in Listings : k # l => offers'[k] = offers[k]
                    /\ posts => offers'[l] = fresh
                    /\ ~ posts => offers' = offers
  BY <1>0, <1>1
<1>4. ASSUME carriedOut, sess' = [sess EXCEPT ![s] = [sess[s] EXCEPT !.pc = "publish", !.offer = IF posts THEN fresh ELSE @]]
      PROVE  /\ SessOK /\ Others(s)
             /\ sess'[s].pc = "publish" /\ sess'[s].l = l /\ sess'[s].old = sess[s].old
             /\ sess'[s].was = sess[s].was /\ sess'[s].todo = sess[s].todo /\ sess'[s].runner = sess[s].runner
             /\ sess'[s].offer = IF posts THEN fresh ELSE sess[s].offer
  <2> DEFINE r == [sess[s] EXCEPT !.pc = "publish", !.offer = IF posts THEN fresh ELSE @]
  <2>1. /\ r \in Locals /\ InHand(r) /\ r.pc = "publish" /\ r.l = l /\ r.old = sess[s].old
        /\ r.was = sess[s].was /\ r.todo = sess[s].todo /\ r.runner = sess[s].runner
        /\ r.offer = IF posts THEN fresh ELSE sess[s].offer
    BY <1>0, <1>1 DEF Locals, InHand, Points
  <2>2. sess' = [sess EXCEPT ![s] = r]
    BY <1>4
  <2> HIDE DEF r
  <2>3. SessOK
    BY <2>1, <2>2, SessionStep DEF SessOK
  <2>4. sess'[s] = r /\ Others(s)
    BY <1>0, <2>2 DEF Others
  <2>5. QED
    BY <2>1, <2>3, <2>4
<1>5. \/ /\ carriedOut
         /\ sess' = [sess EXCEPT ![s] = [sess[s] EXCEPT !.pc = "publish", !.offer = IF posts THEN fresh ELSE @]]
      \/ "offer" \in world.lost /\ carriedOut /\ Threw(s)
      \/ UNCHANGED offers /\ Threw(s)
  BY DEF Offer
<1> HIDE DEF l, posts, fresh
<1>6. Threw(s) => SessOK /\ Others(s)
  BY <1>0, ThrewIs
<1>7. CASE /\ carriedOut
           /\ sess' = [sess EXCEPT ![s] = [sess[s] EXCEPT !.pc = "publish", !.offer = IF posts THEN fresh ELSE @]]
  <2>1. connected /\ offers' \in [Listings -> Nat]
    BY <1>3, <1>7
  <2>2. posts => offers'[l] = fresh /\ sess'[s].offer = fresh
    BY <1>3, <1>4, <1>7
  <2>3. QED
    BY <1>0, <1>1, <1>2, <1>3, <1>4, <1>7, <2>1, <2>2 DEF l, posts
<1>8. CASE carriedOut /\ "offer" \in world.lost /\ Threw(s)
  BY <1>0, <1>2, <1>3, <1>6, <1>8 DEF l
<1>9. CASE UNCHANGED offers /\ Threw(s)
  BY <1>0, <1>2, <1>6, <1>9
<1>10. QED
  BY <1>5, <1>7, <1>8, <1>9

LEMMA PublishIs ==
    ASSUME TypeInv, NEW s \in Sessions, PublishOffer(s)
    PROVE  /\ sess[s].l \in Listings /\ live' \in [Listings -> SUBSET Nat] /\ SessOK /\ Others(s)
           /\ UNCHANGED <<listing, connected, offers, asked>>
           /\ \A k \in Listings : k # sess[s].l => live'[k] = live[k]
           /\ \/ /\ sess'[s] = [sess[s] EXCEPT !.pc = "save"]
                 /\ \/ live' = live /\ sess[s].old # NoOffer /\ sess[s].was = "published"
                    \/ /\ sess[s].old = NoOffer \/ sess[s].was # "published"
                       /\ live'[sess[s].l] = live[sess[s].l] \cup {sess[s].offer}
              \/ /\ Threw(s) /\ ~ (sess[s].old # NoOffer /\ sess[s].was = "published")
                 /\ \/ "publish" \in world.lost
                    \/ live' = live /\ (~ connected \/ "publish" \in world.fails)
<1>0. /\ TypeOK /\ sess[s] \in Locals /\ live \in [Listings -> SUBSET Nat] /\ sess[s].l \in Listings
  BY DEF TypeInv, TypeOK, InHand, PublishOffer
<1> DEFINE l == sess[s].l
           revises == sess[s].old # NoOffer /\ sess[s].was = "published"
           carriedOut == connected /\ live' = [live EXCEPT ![l] = @ \cup {sess[s].offer}]
<1>1. \/ revises /\ Goto(s, "save") /\ UNCHANGED live
      \/ ~ revises /\ carriedOut /\ Goto(s, "save")
      \/ ~ revises /\ "publish" \in world.lost /\ carriedOut /\ Threw(s)
      \/ ~ revises /\ (~ connected \/ "publish" \in world.fails) /\ UNCHANGED live /\ Threw(s)
  BY DEF PublishOffer
<1>2. UNCHANGED <<listing, connected, offers, asked>>
  BY DEF PublishOffer
<1>3. sess[s].offer \in Nat
  BY <1>0 DEF Locals
<1>4. carriedOut => /\ live' \in [Listings -> SUBSET Nat] /\ live'[l] = live[l] \cup {sess[s].offer}
                    /\ \A k \in Listings : k # l => live'[k] = live[k]
  BY <1>0, <1>3
<1>5. Goto(s, "save") => SessOK /\ Others(s) /\ sess'[s] = [sess[s] EXCEPT !.pc = "save"]
  BY <1>0, GotoIs DEF Points, SessOK, Others
<1>6. Threw(s) => SessOK /\ Others(s)
  BY <1>0, ThrewIs
<1> HIDE DEF l, carriedOut
<1>7. CASE carriedOut
  BY <1>0, <1>1, <1>2, <1>4, <1>5, <1>6, <1>7 DEF l
<1>8. CASE UNCHANGED live
  BY <1>0, <1>1, <1>2, <1>4, <1>5, <1>6, <1>8 DEF l
<1>9. QED
  BY <1>1, <1>7, <1>8

LEMMA PublishSaveIs ==
    ASSUME TypeInv, NEW s \in Sessions, PublishSave(s)
    PROVE  /\ sess[s].l \in Listings /\ listing' \in [Listings -> ListingRec] /\ NextUp(s)
           /\ UNCHANGED <<connected, ebay, asked>>
           /\ listing'[sess[s].l].status = "published" /\ listing'[sess[s].l].offer = sess[s].offer
           /\ \A k \in Listings : k # sess[s].l => listing'[k] = listing[k]
<1>0. /\ TypeOK /\ sess[s] \in Locals /\ sess[s].l \in Listings /\ listing[sess[s].l] \in ListingRec
      /\ listing \in [Listings -> ListingRec]
  BY DEF TypeInv, TypeOK, InHand, PublishSave
<1> DEFINE l == sess[s].l
           r == [listing[l] EXCEPT !.status = "published", !.offer = sess[s].offer]
<1>1. r \in ListingRec /\ r.status = "published" /\ r.offer = sess[s].offer
  BY <1>0 DEF ListingRec, Statuses, Locals
<1>2. listing' = [listing EXCEPT ![l] = r]
  BY DEF PublishSave
<1> HIDE DEF r
<1>3. QED
  BY <1>0, <1>1, <1>2 DEF PublishSave

LEMMA BumpIs ==
    ASSUME TypeInv, NEW s \in Sessions, Bump(s)
    PROVE  /\ sess[s].l \in Listings /\ listing' \in [Listings -> ListingRec]
           /\ UNCHANGED <<connected, ebay, asked>>
           /\ \A k \in Listings : listing'[k].status = listing[k].status /\ listing'[k].offer = listing[k].offer
           /\ Goto(s, "park") \/ NextUp(s)
<1>0. /\ TypeOK /\ sess[s] \in Locals /\ sess[s].l \in Listings /\ listing[sess[s].l] \in ListingRec
      /\ listing \in [Listings -> ListingRec]
  BY DEF TypeInv, TypeOK, InHand, Bump
<1> DEFINE l == sess[s].l
           n == listing[l].attempts + 1
           r == [listing[l] EXCEPT !.attempts = n]
<1>1. r \in ListingRec /\ r.status = listing[l].status /\ r.offer = listing[l].offer
  BY <1>0 DEF ListingRec
<1>2. listing' = [listing EXCEPT ![l] = r]
  BY DEF Bump
<1> HIDE DEF r
<1>3. QED
  BY <1>0, <1>1, <1>2 DEF Bump

LEMMA WithdrawIs ==
    ASSUME TypeInv, NEW s \in Sessions, Withdraw(s)
    PROVE  /\ sess[s].l \in Listings /\ live' \in [Listings -> SUBSET Nat]
           /\ UNCHANGED <<listing, connected, offers, asked>>
           /\ \A k \in Listings : k # sess[s].l => live'[k] = live[k]
           /\ \/ Goto(s, "endSave") /\ live'[sess[s].l] = live[sess[s].l] \ {sess[s].offer}
              \/ NextUp(s) /\ ("withdraw" \in world.lost \/ live' = live)
BY DEF TypeInv, TypeOK, InHand, Withdraw, Locals

\* A row's time comes.
LEMMA TimePassesIs ==
    ASSUME TypeOK, NEW l \in Listings, TimePasses(l)
    PROVE  /\ listing' \in [Listings -> ListingRec] /\ UNCHANGED <<connected, ebay, asked, sess>>
           /\ \A k \in Listings : listing'[k].status = listing[k].status /\ listing'[k].offer = listing[k].offer
<1>0. listing[l] \in ListingRec /\ listing \in [Listings -> ListingRec]
  BY DEF TypeOK
<1> DEFINE r == [listing[l] EXCEPT !.at = "now"]
<1>1. r \in ListingRec /\ r.status = listing[l].status /\ r.offer = listing[l].offer
  BY <1>0 DEF ListingRec
<1>2. listing' = [listing EXCEPT ![l] = r]
  BY DEF TimePasses
<1> HIDE DEF r
<1>3. QED
  BY <1>0, <1>1, <1>2 DEF TimePasses

\* A run takes listings that are due.
LEMMA RunStartIs ==
    ASSUME TypeInv, NEW s \in Sessions, RunStart(s)
    PROVE  /\ UNCHANGED <<listing, connected, ebay>> /\ asked' \in [Kinds -> Nat] /\ SessOK /\ Others(s)
           /\ sess[s].pc = "idle" /\ (s = Clock => world.timer)
           /\ sess'[s].pc = "run" /\ sess'[s].runner /\ sess'[s].l = NoListing
           /\ \A k \in sess'[s].todo : listing[k].status = "scheduled"
<1>0. TypeOK /\ sess \in [Sessions -> Locals]
  BY DEF TypeInv, TypeOK
<1>1. PICK todo \in SUBSET {l \in Listings : Due(l)} :
         sess' = [sess EXCEPT ![s] = [Idle EXCEPT !.pc = "run", !.todo = todo, !.runner = TRUE]]
  BY DEF RunStart
<1> DEFINE r == [Idle EXCEPT !.pc = "run", !.todo = todo, !.runner = TRUE]
<1>2. todo \in SUBSET Listings /\ \A k \in todo : listing[k].status = "scheduled"
  BY DEF Due
<1>3. r \in Locals /\ InHand(r) /\ r.pc = "run" /\ r.runner /\ r.l = NoListing /\ r.todo = todo
  BY <1>2, IdleType DEF Idle, Locals, InHand, Points
<1>4. sess' = [sess EXCEPT ![s] = r]
  BY <1>1
<1> HIDE DEF r
<1>5. SessOK /\ Others(s) /\ sess'[s] = r
  BY <1>0, <1>3, <1>4, SessionStep DEF SessOK, Others
<1>6. asked' \in [Kinds -> Nat] /\ sess[s].pc = "idle" /\ (s = Clock => world.timer)
  BY <1>0, AskType DEF RunStart, Kinds, TypeOK
<1>7. QED
  BY <1>2, <1>3, <1>5, <1>6 DEF RunStart

LEMMA EndStartIs ==
    ASSUME TypeInv, NEW s \in Sessions, NEW l \in Listings, EndStart(s, l)
    PROVE  /\ UNCHANGED <<listing, connected, ebay>> /\ asked' \in [Kinds -> Nat] /\ SessOK /\ Others(s)
           /\ sess[s].pc = "idle" /\ s # Clock /\ sess'[s].l = l /\ sess'[s].offer = listing[l].offer
           /\ sess'[s].pc = IF listing[l].offer = NoOffer THEN "endSave" ELSE "withdraw"
           /\ ~ sess'[s].runner /\ sess'[s].todo = {}
<1>0. TypeOK /\ sess \in [Sessions -> Locals] /\ listing[l] \in ListingRec
  BY DEF TypeInv, TypeOK
<1> DEFINE r == [Idle EXCEPT !.pc = IF listing[l].offer = NoOffer THEN "endSave" ELSE "withdraw",
                             !.l = l, !.offer = listing[l].offer]
<1>1. /\ r \in Locals /\ InHand(r) /\ r.l = l /\ r.offer = listing[l].offer /\ ~ r.runner /\ r.todo = {}
      /\ r.pc = IF listing[l].offer = NoOffer THEN "endSave" ELSE "withdraw"
  BY <1>0, IdleType DEF Idle, Locals, InHand, Points, ListingRec
<1>2. sess' = [sess EXCEPT ![s] = r]
  BY DEF EndStart
<1> HIDE DEF r
<1>3. SessOK /\ Others(s) /\ sess'[s] = r
  BY <1>0, <1>1, <1>2, SessionStep DEF SessOK, Others
<1>4. asked' \in [Kinds -> Nat] /\ sess[s].pc = "idle" /\ s # Clock
  BY <1>0, AskType DEF EndStart, Kinds, Ask
<1>5. QED
  BY <1>1, <1>3, <1>4 DEF EndStart

LEMMA PublishStartIs ==
    ASSUME TypeInv, NEW s \in Sessions, NEW l \in Listings, PublishStart(s, l)
    PROVE  /\ UNCHANGED <<listing, connected, ebay>> /\ asked' \in [Kinds -> Nat]
           /\ sess[s].pc = "idle" /\ s # Clock /\ Prepare(s, l, {}, FALSE)
BY AskType DEF PublishStart, Kinds, Ask, TypeInv

\* A step of a request: one of these.
LEMMA Forgets ==
    ASSUME TypeInv, NEW s \in Sessions, Die(s) \/ RunDone(s)
    PROVE  /\ UNCHANGED <<listing, connected, ebay, asked>> /\ SessOK /\ Others(s) /\ sess'[s] = Idle
           /\ sess[s].pc \in world.dies \/ sess[s].pc = "run"
<1>1. sess' = [sess EXCEPT ![s] = Idle] /\ sess \in [Sessions -> Locals]
  BY DEF Die, RunDone, TypeInv, TypeOK
<1>2. SessOK /\ Others(s) /\ sess'[s] = Idle
  BY <1>1, IdleType, SessionStep DEF SessOK, Others
<1>3. QED
  BY <1>2 DEF Die, RunDone

LEMMA RunNextIs ==
    ASSUME TypeInv, NEW s \in Sessions, RunNext(s)
    PROVE  /\ UNCHANGED <<listing, connected, ebay, asked>> /\ sess[s].pc = "run"
           /\ \E l \in sess[s].todo : l \in Listings /\ Prepare(s, l, sess[s].todo \ {l}, TRUE)
                                      /\ sess[s].todo \ {l} \in SUBSET Listings
<1>1. sess[s].todo \subseteq Listings
  BY DEF TypeInv, TypeOK, Locals
<1>2. QED
  BY <1>1 DEF RunNext

\* The row a request has in hand is given a status.
LEMMA SetInHand ==
    ASSUME TypeInv, NEW s \in Sessions, Park(s) \/ EndSave(s)
    PROVE  /\ sess[s].l \in Listings /\ NextUp(s) /\ UNCHANGED <<connected, ebay, asked>>
           /\ Set(sess[s].l, IF sess[s].pc = "park" THEN "draft" ELSE "ended")
           /\ sess[s].pc \in {"park", "endSave"}
BY DEF TypeInv, InHand, Park, EndSave

LEMMA TypeNext == TypeInv /\ [Next]_vars => TypeInv'
<1> SUFFICES ASSUME TypeInv, [Next]_vars PROVE TypeInv'
  OBVIOUS
<1>0. /\ TypeOK /\ listing \in [Listings -> ListingRec] /\ connected \in BOOLEAN /\ offers \in [Listings -> Nat]
      /\ live \in [Listings -> SUBSET Nat] /\ asked \in [Kinds -> Nat] /\ world \in Worlds
  BY DEF TypeInv, TypeOK
<1> DEFINE Keeps == /\ listing' \in [Listings -> ListingRec] /\ connected' \in BOOLEAN
                    /\ offers' \in [Listings -> Nat] /\ live' \in [Listings -> SUBSET Nat]
                    /\ asked' \in [Kinds -> Nat] /\ SessOK
<1>1. sess' = sess => SessOK
  BY DEF SessOK, TypeInv, TypeOK
<1>2. CASE UNCHANGED vars
  BY <1>2 DEF vars, TypeInv, TypeOK, InHand
<1>3. ASSUME NEW s \in Sessions, Buttons(s) PROVE Keeps
  BY <1>0, <1>1, <1>3, ButtonsStep DEF ebay
<1>4. ASSUME NEW s \in Sessions, NEW l \in Listings, PublishStart(s, l) PROVE Keeps
  <2>1. SessOK
    BY <1>4, PublishStartIs, PrepareIs DEF SessOK
  <2>2. QED
    BY <1>0, <1>4, <2>1, PublishStartIs DEF ebay
<1>5. ASSUME NEW s \in Sessions, NEW l \in Listings, EndStart(s, l) PROVE Keeps
  BY <1>0, <1>5, EndStartIs DEF ebay
<1>6. ASSUME NEW s \in Sessions, RunStart(s) PROVE Keeps
  BY <1>0, <1>6, RunStartIs DEF ebay
<1>7. ASSUME NEW s \in Sessions, Steps(s) \/ Die(s) PROVE Keeps
  <2>0. NextUp(s) => SessOK
    BY NextUpIs DEF SessOK
  <2>1. CASE Offer(s)
    BY <1>0, <2>1, OfferIs
  <2>2. CASE PublishOffer(s)
    BY <1>0, <2>2, PublishIs
  <2>3. CASE PublishSave(s)
    BY <1>0, <2>0, <2>3, PublishSaveIs DEF ebay
  <2>4. CASE RunNext(s)
    <3>1. SessOK
      BY <2>4, RunNextIs, PrepareIs DEF SessOK
    <3>2. QED
      BY <1>0, <2>4, <3>1, RunNextIs DEF ebay
  <2>5. CASE Die(s) \/ RunDone(s)
    BY <1>0, <2>5, Forgets DEF ebay
  <2>6. CASE Bump(s)
    <3>1. SessOK
      BY <2>0, <2>6, BumpIs, GotoIs DEF SessOK, Points
    <3>2. QED
      BY <1>0, <2>6, <3>1, BumpIs DEF ebay
  <2>7. CASE Park(s) \/ EndSave(s)
    <3>1. listing' \in [Listings -> ListingRec]
      BY <1>0, <2>7, SetInHand, SetIs DEF Statuses
    <3>2. QED
      BY <1>0, <2>0, <2>7, <3>1, SetInHand DEF ebay
  <2>8. CASE Withdraw(s)
    <3>1. SessOK
      BY <2>0, <2>8, WithdrawIs, GotoIs DEF SessOK, Points
    <3>2. QED
      BY <1>0, <2>8, <3>1, WithdrawIs
  <2>9. QED
    BY <1>7, <2>1, <2>2, <2>3, <2>4, <2>5, <2>6, <2>7, <2>8 DEF Steps
<1>8. ASSUME NEW l \in Listings, TimePasses(l) PROVE Keeps
  BY <1>0, <1>1, <1>8, TimePassesIs DEF ebay
<1>9. CASE Next
  <2>1. Keeps
    BY <1>3, <1>4, <1>5, <1>6, <1>7, <1>8, <1>9 DEF Next
  <2>2. world' \in Worlds
    BY <1>0, <1>9 DEF Next
  <2>3. QED
    BY <2>1, <2>2 DEF TypeInv, TypeOK, SessOK, InHand
<1>10. QED
  BY <1>2, <1>9

\* The listings, eBay's offers and the sessions keep their types.
THEOREM PublishTypes == Spec => []TypeOK
<1>1. TypeInv => TypeOK
  BY DEF TypeInv
<1>2. QED
  BY TypeInit, TypeNext, <1>1, PTL DEF Spec

-----------------------------------------------------------------------------
(* One request at a time.                                                  *)

\* The timer has nothing in hand where it does not tick.
ClockRests == InTurn => \A s \in Sessions : s = Clock => sess[s].pc = "idle"

LEMMA TurnIs == InTurn => \A s, t \in Sessions : s # Clock /\ t # Clock => s = t
<1> SUFFICES ASSUME InTurn, NEW s \in Sessions, NEW t \in Sessions, s # Clock, t # Clock, s # t PROVE FALSE
  OBVIOUS
<1> DEFINE S == Sessions \ {Clock}
<1>1. IsFiniteSet(S) /\ Cardinality(S) \in Nat /\ Cardinality(S) <= 1
  BY PublishAssumption, FS_Difference, FS_CardinalityType DEF InTurn
<1>2. IsFiniteSet({s}) /\ Cardinality({s}) = 1
  BY FS_Singleton
<1>3. Cardinality({s} \cup {t}) = 2
  BY <1>2, FS_AddElement
<1>4. {s} \cup {t} \subseteq S
  OBVIOUS
<1>5. Cardinality({s} \cup {t}) <= Cardinality(S)
  BY <1>1, <1>4, FS_Subset
<1>6. QED
  BY <1>1, <1>3, <1>5

\* While one session moves, the others are idle.
LEMMA OthersIdle ==
    ASSUME InTurn, ClockRests, NEW s \in Sessions, s # Clock \/ sess[s].pc # "idle"
    PROVE  s # Clock /\ \A t \in Sessions : t # s => t = Clock /\ sess[t].pc = "idle"
BY TurnIs DEF ClockRests

LEMMA InTurnStays == [Next]_vars => (InTurn' <=> InTurn)
BY DEF InTurn, Next, vars

LEMMA TurnWorld ==
    ASSUME TypeOK, InTurn
    PROVE  /\ world \in Worlds /\ world.budget["mark"] = 0 /\ world.budget["automatic"] = 0 /\ ~ world.timer
           /\ world.dies \subseteq Points
BY WorldType DEF TypeOK, InTurn, WorldRec

\* In turns, a step is one of a session that is not the timer, or a row's time comes.
LEMMA TurnStep ==
    ASSUME TypeInv, InTurn, ClockRests, [Next]_vars, ~ UNCHANGED vars,
           ~ \E l \in Listings : TimePasses(l)
    PROVE  \E s \in Sessions :
              /\ s # Clock /\ \A t \in Sessions : t # s => t = Clock /\ sess[t].pc = "idle"
              /\ \/ Buttons(s) \/ RunStart(s) \/ Steps(s) \/ Die(s)
                 \/ \E l \in Listings : PublishStart(s, l) \/ EndStart(s, l)
<1>1. PICK s \in Sessions : \/ Buttons(s) \/ RunStart(s) \/ Steps(s) \/ Die(s)
                            \/ \E l \in Listings : PublishStart(s, l) \/ EndStart(s, l)
  BY DEF Next
<1>2. s # Clock \/ sess[s].pc # "idle"
  <2>1. Buttons(s) \/ RunStart(s) => s # Clock
    BY ButtonsStep, RunStartIs, TurnWorld DEF TypeInv
  <2>2. (\E l \in Listings : PublishStart(s, l) \/ EndStart(s, l)) => s # Clock
    BY DEF PublishStart, EndStart, Ask
  <2>3. Steps(s) => sess[s].pc # "idle"
    BY DEF Steps, Offer, PublishOffer, PublishSave, RunNext, RunDone, Bump, Park, Withdraw, EndSave
  <2>4. Die(s) => sess[s].pc # "idle"
    BY TurnWorld DEF Die, Points, TypeInv
  <2>5. QED
    BY <1>1, <2>1, <2>2, <2>3, <2>4
<1>3. QED
  BY <1>1, <1>2, OthersIdle

LEMMA ClockKept == TypeInv /\ ClockRests /\ [Next]_vars => ClockRests'
<1> SUFFICES ASSUME TypeInv, ClockRests, [Next]_vars, InTurn, NEW c \in Sessions, c = Clock PROVE sess'[c].pc = "idle"
  BY InTurnStays DEF ClockRests
<1>0. sess[c].pc = "idle" /\ (sess'[c] = sess[c] => sess'[c].pc = "idle")
  BY DEF ClockRests
<1>1. CASE UNCHANGED vars \/ \E l \in Listings : TimePasses(l)
  BY <1>0, <1>1 DEF vars, TimePasses
<1>2. CASE ~ UNCHANGED vars /\ ~ \E l \in Listings : TimePasses(l)
  <2>1. PICK s \in Sessions :
           /\ s # Clock
           /\ \/ Buttons(s) \/ RunStart(s) \/ Steps(s) \/ Die(s)
              \/ \E l \in Listings : PublishStart(s, l) \/ EndStart(s, l)
    BY <1>2, TurnStep
  <2>2. Others(s) \/ sess' = sess
    <3>1. Buttons(s) => sess' = sess
      BY ButtonsStep
    <3>2. RunStart(s) \/ Die(s) \/ Offer(s) \/ PublishOffer(s) \/ RunDone(s) => Others(s)
      BY RunStartIs, Forgets, OfferIs, PublishIs
    <3>3. NextUp(s) => Others(s)
      BY NextUpIs DEF Others
    <3>4. PublishSave(s) \/ Park(s) \/ EndSave(s) => Others(s)
      BY <3>3, PublishSaveIs, SetInHand
    <3>5. Bump(s) => Others(s)
      BY <3>3, BumpIs, GotoIs DEF Others, Points
    <3>6. Withdraw(s) => Others(s)
      BY <3>3, WithdrawIs, GotoIs DEF Others, Points
    <3>7. RunNext(s) => Others(s)
      BY RunNextIs, PrepareIs DEF Others
    <3>8. (\E l \in Listings : PublishStart(s, l)) => Others(s)
      BY PublishStartIs, PrepareIs DEF Others
    <3>9. (\E l \in Listings : EndStart(s, l)) => Others(s)
      BY EndStartIs
    <3>10. QED
      BY <2>1, <3>1, <3>2, <3>4, <3>5, <3>6, <3>7, <3>8, <3>9 DEF Steps
  <2>3. QED
    BY <1>0, <2>1, <2>2 DEF Others
<1>3. QED
  BY <1>1, <1>2

-----------------------------------------------------------------------------
(* One offer.                                                              *)

\* A world of one request at a time, none of it a row written by hand.
OneByOne(w) == ~ w.timer /\ w.budget["mark"] = 0 /\ w.budget["automatic"] = 0

\* Once eBay has made an offer, its id gets into the listing's row.
OffersKept ==
    \A w \in Worlds : OneByOne(w) =>
        /\ "offer" \notin w.lost /\ "publish" \notin w.lost /\ "publish" \notin w.fails
        /\ "publish" \notin w.dies /\ "save" \notin w.dies

\* A request carries what the row says of the offer, until it stores the offer it made.
OfferHeld(r) ==
    /\ r.pc \in {"offer", "publish"} => connected /\ r.old = listing[r.l].offer
    /\ r.pc = "offer" => r.offer = r.old
    /\ r.pc \in {"publish", "save"} => r.offer # NoOffer

\* There is one offer at most, and the row or the request knows it.
OfferKnown(l) ==
    /\ offers[l] <= 1
    /\ offers[l] = 0 \/ listing[l].offer # NoOffer
          \/ \E s \in Sessions : sess[s].pc \in {"publish", "save"} /\ sess[s].l = l

OfferInv ==
    InTurn => /\ \A s \in Sessions : OfferHeld(sess[s])
              /\ \A l \in Listings : OfferKnown(l)

LEMMA OfferInit == Init => ClockRests /\ OfferInv
BY DEF Init, ClockRests, OfferInv, OfferHeld, OfferKnown, Idle

LEMMA OfferNext == OffersKept /\ TypeInv /\ ClockRests /\ OfferInv /\ [Next]_vars => OfferInv'
<1> SUFFICES ASSUME OffersKept, TypeInv, TypeInv', ClockRests, ClockRests', OfferInv, [Next]_vars, InTurn, InTurn'
             PROVE  /\ \A t \in Sessions : OfferHeld(sess[t])'
                    /\ \A l \in Listings : OfferKnown(l)'
  BY TypeNext, ClockKept, InTurnStays DEF OfferInv
<1> DEFINE Good == /\ \A t \in Sessions : OfferHeld(sess[t])'
                   /\ \A l \in Listings : OfferKnown(l)'
<1>0. /\ TypeOK /\ sess \in [Sessions -> Locals] /\ sess' \in [Sessions -> Locals]
      /\ offers \in [Listings -> Nat] /\ offers' \in [Listings -> Nat]
      /\ \A t \in Sessions : OfferHeld(sess[t])
      /\ \A l \in Listings : OfferKnown(l)
      /\ world \in Worlds /\ OneByOne(world) /\ MaxOffers \in Nat \ {0}
  BY TurnWorld, PublishAssumption DEF TypeInv, TypeOK, OfferInv, OneByOne
<1>1. \A t \in Sessions : sess'[t].pc = "idle" => OfferHeld(sess[t])'
  BY DEF OfferHeld
<1>2. CASE UNCHANGED vars
  BY <1>0, <1>2 DEF vars, OfferHeld, OfferKnown
<1>3. ASSUME NEW l \in Listings, TimePasses(l) PROVE Good
  <2>1. /\ UNCHANGED <<connected, offers, sess>>
        /\ \A k \in Listings : listing'[k].offer = listing[k].offer
    BY <1>0, <1>3, TimePassesIs DEF ebay
  <2>2. \A t \in Sessions : sess[t].pc \in {"offer", "publish"} => sess[t].l \in Listings
    BY DEF TypeInv, InHand
  <2>3. QED
    BY <1>0, <2>1, <2>2 DEF OfferHeld, OfferKnown
<1>4. ASSUME NEW s \in Sessions, s # Clock, \A t \in Sessions : t # s => t = Clock /\ sess[t].pc = "idle",
             \/ Buttons(s) \/ RunStart(s) \/ Steps(s) \/ Die(s)
             \/ \E l \in Listings : PublishStart(s, l) \/ EndStart(s, l)
      PROVE  Good
  <2>0. \A t \in Sessions : t # s => sess'[t].pc = "idle"
    BY <1>4 DEF ClockRests
  <2>1. ASSUME OfferHeld(sess[s])', \A l \in Listings : OfferKnown(l)' PROVE Good
    BY <1>1, <2>0, <2>1
  <2>2. ASSUME NEW l \in Listings, ~ (sess[s].pc \in {"publish", "save"} /\ sess[s].l = l)
        PROVE  offers[l] <= 1 /\ (offers[l] = 0 \/ listing[l].offer # NoOffer)
    BY <1>0, <1>4, <2>2 DEF OfferKnown
  \* What leaves offers alone, and no offer behind.
  <2>3. ASSUME offers' = offers, sess[s].pc \notin {"publish", "save"},
               \A l \in Listings : listing'[l].offer = listing[l].offer
        PROVE  \A l \in Listings : OfferKnown(l)'
    BY <2>2, <2>3 DEF OfferKnown
  <2>4. NextUp(s) => sess'[s].pc \in {"idle", "run"}
    BY NextUpIs
  <2>5. Threw(s) /\ sess[s].l \in Listings => sess'[s].pc \in {"idle", "bump"}
    <3>1. sess[s] \in Locals
      BY <1>0
    <3>2. QED
      BY <3>1, ThrewIs DEF Locals
  <2>6. sess'[s].pc \notin {"offer", "publish", "save"} => OfferHeld(sess[s])'
    BY DEF OfferHeld
  <2>7. CASE Buttons(s)
    <3>1. sess' = sess /\ sess[s].pc = "idle" /\ offers' = offers /\ \A l \in Listings : listing'[l].offer = listing[l].offer
      BY <2>7, ButtonsStep DEF ebay
    <3>2. QED
      BY <2>1, <2>3, <2>6, <3>1
  <2>8. CASE RunStart(s)
    <3>1. sess[s].pc = "idle" /\ sess'[s].pc = "run" /\ offers' = offers /\ listing' = listing
      BY <2>8, RunStartIs DEF ebay
    <3>2. QED
      BY <2>1, <2>3, <2>6, <3>1
  <2>9. ASSUME NEW l \in Listings, EndStart(s, l) PROVE Good
    <3>1. sess[s].pc = "idle" /\ sess'[s].pc \in {"endSave", "withdraw"} /\ offers' = offers /\ listing' = listing
      BY <2>9, EndStartIs DEF ebay
    <3>2. QED
      BY <2>1, <2>3, <2>6, <3>1
  <2>10. ASSUME NEW l \in Listings, NEW todo \in SUBSET Listings, NEW runner \in BOOLEAN, Prepare(s, l, todo, runner),
                sess[s].pc \in {"idle", "run"}, UNCHANGED <<listing, connected, ebay>>
         PROVE  Good
    <3>1. OfferHeld(sess[s])'
      <4>0. Idle.pc = "idle"
        BY DEF Idle
      <4>1. \/ /\ connected /\ sess'[s].pc = "offer" /\ sess'[s].l = l
               /\ sess'[s].old = listing[l].offer /\ sess'[s].offer = listing[l].offer
            \/ sess'[s].pc = "bump"
            \/ sess'[s] = Idle
        BY <2>10, PrepareIs
      <4>2. QED
        BY <2>6, <2>10, <4>0, <4>1 DEF OfferHeld
    <3>2. QED
      BY <2>1, <2>3, <2>10, <3>1 DEF ebay
  <2>11. ASSUME NEW l \in Listings, PublishStart(s, l) PROVE Good
    BY <2>10, <2>11, PublishStartIs
  <2>12. CASE RunNext(s)
    BY <2>10, <2>12, RunNextIs
  <2>13. CASE Die(s) \/ RunDone(s)
    <3>1. sess'[s].pc = "idle" /\ offers' = offers /\ listing' = listing
      BY <2>13, Forgets DEF ebay, Idle
    <3>2. sess[s].pc \notin {"publish", "save"}
      BY <1>0, <2>13, Forgets DEF OffersKept
    <3>3. QED
      BY <2>1, <2>3, <2>6, <3>1, <3>2
  <2>14. CASE Bump(s)
    <3>1. /\ sess[s].pc = "bump" /\ offers' = offers /\ \A l \in Listings : listing'[l].offer = listing[l].offer
          /\ Goto(s, "park") \/ NextUp(s)
      BY <2>14, BumpIs DEF Bump, ebay
    <3>2. Goto(s, "park") => sess'[s].pc = "park"
      BY <1>0 DEF Goto, Locals
    <3>3. QED
      BY <2>1, <2>3, <2>4, <2>6, <3>1, <3>2
  <2>15. CASE Park(s) \/ EndSave(s)
    <3>1. /\ sess[s].pc \in {"park", "endSave"} /\ offers' = offers /\ NextUp(s)
          /\ \A l \in Listings : listing'[l].offer = listing[l].offer
      BY <1>0, <2>15, SetInHand, SetIs DEF ebay, Statuses
    <3>2. QED
      BY <2>1, <2>3, <2>4, <2>6, <3>1
  <2>16. CASE Withdraw(s)
    <3>1. /\ sess[s].pc = "withdraw" /\ offers' = offers /\ listing' = listing
          /\ Goto(s, "endSave") \/ NextUp(s)
      BY <2>16, WithdrawIs DEF Withdraw
    <3>2. Goto(s, "endSave") => sess'[s].pc = "endSave"
      BY <1>0 DEF Goto, Locals
    <3>3. QED
      BY <2>1, <2>3, <2>4, <2>6, <3>1, <3>2
  <2>17. CASE Offer(s)
    <3> DEFINE l == sess[s].l
    <3>0. /\ sess[s].pc = "offer" /\ l \in Listings /\ connected /\ sess[s].old = listing[l].offer
          /\ sess[s].offer = sess[s].old /\ listing' = listing /\ connected' = connected
          /\ \A k \in Listings : k # l => offers'[k] = offers[k]
      BY <1>0, <2>17, OfferIs DEF Offer, OfferHeld
    <3>1. CASE Threw(s) /\ ("offer" \in world.lost \/ offers' = offers)
      <4>1. offers' = offers
        BY <1>0, <3>1 DEF OffersKept
      <4>2. QED
        BY <2>1, <2>3, <2>5, <2>6, <3>0, <3>1, <4>1
    <3>2. CASE /\ sess'[s].pc = "publish" /\ sess'[s].l = l /\ sess'[s].old = sess[s].old
               /\ \/ sess[s].old # NoOffer /\ offers' = offers /\ sess'[s].offer = sess[s].offer
                  \/ /\ sess[s].old = NoOffer
                     /\ offers[l] <= MaxOffers => offers'[l] <= offers[l] + 1
                     /\ sess'[s].offer = offers'[l] /\ sess'[s].offer > 0
      <4>1. OfferHeld(sess[s])'
        BY <3>0, <3>2 DEF OfferHeld, NoOffer
      <4>2. ASSUME NEW k \in Listings PROVE OfferKnown(k)'
        <5>1. CASE k # l
          <6>1. offers'[k] <= 1 /\ (offers'[k] = 0 \/ listing'[k].offer # NoOffer)
            BY <2>2, <3>0, <5>1
          <6>2. QED
            BY <6>1 DEF OfferKnown
        <5>2. CASE k = l
          <6>1. offers[l] <= 1 /\ (offers[l] = 0 \/ listing[l].offer # NoOffer)
            BY <2>2, <3>0
          <6>2. offers'[l] <= 1
            <7>1. CASE sess[s].old # NoOffer
              BY <3>2, <6>1, <7>1
            <7>2. CASE sess[s].old = NoOffer
              <8>1. offers[l] = 0 /\ offers'[l] \in Nat
                BY <1>0, <3>0, <6>1, <7>2
              <8>2. offers[l] <= MaxOffers
                BY <1>0, <8>1
              <8>3. QED
                BY <3>2, <7>2, <8>1, <8>2
            <7>3. QED
              BY <7>1, <7>2
          <6>3. QED
            BY <3>2, <5>2, <6>2 DEF OfferKnown
        <5>3. QED
          BY <5>1, <5>2
      <4>3. QED
        BY <2>1, <4>1, <4>2
    <3>3. QED
      BY <2>17, <3>1, <3>2, OfferIs
  <2>18. CASE PublishOffer(s)
    <3>0. /\ sess[s].pc = "publish" /\ sess[s].offer # NoOffer /\ connected
          /\ listing' = listing /\ offers' = offers /\ sess[s].l \in Listings
      BY <1>0, <2>18, PublishIs DEF PublishOffer, OfferHeld
    <3>1. sess'[s] = [sess[s] EXCEPT !.pc = "save"]
      BY <1>0, <2>18, <3>0, PublishIs DEF OffersKept
    <3>2. sess'[s].pc = "save" /\ sess'[s].l = sess[s].l /\ sess'[s].offer = sess[s].offer
      BY <1>0, <3>1 DEF Locals
    <3>3. OfferHeld(sess[s])'
      BY <3>0, <3>2 DEF OfferHeld
    <3>4. ASSUME NEW k \in Listings PROVE OfferKnown(k)'
      <4>1. CASE k = sess[s].l
        BY <1>0, <3>0, <3>2, <4>1 DEF OfferKnown
      <4>2. CASE k # sess[s].l
        BY <2>2, <3>0, <4>2 DEF OfferKnown
      <4>3. QED
        BY <4>1, <4>2
    <3>5. QED
      BY <2>1, <3>3, <3>4
  <2>19. CASE PublishSave(s)
    <3>0. /\ sess[s].pc = "save" /\ sess[s].offer # NoOffer /\ offers' = offers /\ sess[s].l \in Listings /\ NextUp(s)
          /\ listing'[sess[s].l].offer = sess[s].offer
          /\ \A k \in Listings : k # sess[s].l => listing'[k] = listing[k]
      BY <1>0, <2>19, PublishSaveIs DEF PublishSave, OfferHeld, ebay
    <3>1. ASSUME NEW k \in Listings PROVE OfferKnown(k)'
      <4>1. CASE k = sess[s].l
        BY <1>0, <3>0, <4>1 DEF OfferKnown
      <4>2. CASE k # sess[s].l
        BY <2>2, <3>0, <4>2 DEF OfferKnown
      <4>3. QED
        BY <4>1, <4>2
    <3>2. QED
      BY <2>1, <2>4, <2>6, <3>0, <3>1
  <2>20. QED
    BY <1>4, <2>7, <2>8, <2>9, <2>11, <2>12, <2>13, <2>14, <2>15, <2>16, <2>17, <2>18, <2>19 DEF Steps
<1>5. QED
  BY <1>2, <1>3, <1>4, TurnStep

\* "Publish (or revise, when already on eBay)": where requests come one at a time and none is cut
\* off between eBay's making of an offer and the row that stores its id, a listing has one offer
\* at eBay, whatever else fails or stops.
THEOREM PublishOneOffer == OffersKept /\ Spec => []OneOffer
<1>1. TypeInv /\ OfferInv => OneOffer
  BY DEF OfferInv, OfferKnown, OneOffer
<1>2. OffersKept => OffersKept'
  BY DEF OffersKept, OneByOne
<1>3. QED
  BY TypeInit, TypeNext, OfferInit, ClockKept, OfferNext, <1>1, <1>2, PTL DEF Spec

-----------------------------------------------------------------------------
(* The status and eBay.                                                    *)

\* What eBay has carried out gets into the listing's row.
RowsKept ==
    \A w \in Worlds : OneByOne(w) =>
        /\ "publish" \notin w.lost /\ "withdraw" \notin w.lost
        /\ "save" \notin w.dies /\ "endSave" \notin w.dies

\* A listing is live by its own offer when it is published, and not at all otherwise.
Fine(l) ==
    /\ listing[l].status = "published" => listing[l].offer # NoOffer /\ live[l] = {listing[l].offer}
    /\ listing[l].status # "published" => live[l] = {}

Saving(r) == r.pc \in {"save", "endSave"}

\* What a request has read is still so, and what it is about to write is so at eBay.
StatusHeld(r) ==
    /\ r.pc \in {"offer", "publish"} => r.old = listing[r.l].offer /\ r.was = listing[r.l].status
    /\ r.pc = "offer" => r.offer = r.old
    /\ r.pc = "publish" => r.offer # NoOffer /\ (r.old # NoOffer => r.offer = r.old)
    /\ r.pc = "save" => r.offer # NoOffer /\ live[r.l] = {r.offer}
    /\ r.pc = "withdraw" => r.offer = listing[r.l].offer
    /\ r.pc = "endSave" => live[r.l] = {}
    /\ r.pc \in {"offer", "publish"} /\ r.runner => listing[r.l].status # "published"
    /\ r.pc \in {"bump", "park"} => listing[r.l].status # "published"
    /\ \A k \in r.todo : listing[k].status # "published"
    /\ r.pc \notin {"idle", "run"} => r.l \notin r.todo
    /\ r.pc = "idle" => r.todo = {}

StatusInv ==
    InTurn => /\ \A s \in Sessions : StatusHeld(sess[s])
              /\ \A l \in Listings : Fine(l) \/ \E s \in Sessions : Saving(sess[s]) /\ sess[s].l = l

LEMMA StatusInit == Init => StatusInv
BY DEF Init, StatusInv, StatusHeld, Fine, Idle

LEMMA StatusNext == RowsKept /\ TypeInv /\ ClockRests /\ StatusInv /\ [Next]_vars => StatusInv'
<1> SUFFICES ASSUME RowsKept, TypeInv, TypeInv', ClockRests, ClockRests', StatusInv, [Next]_vars, InTurn, InTurn'
             PROVE  /\ \A t \in Sessions : StatusHeld(sess[t])'
                    /\ \A l \in Listings : Fine(l)' \/ \E s \in Sessions : Saving(sess'[s]) /\ sess'[s].l = l
  BY TypeNext, ClockKept, InTurnStays DEF StatusInv, Saving
<1> DEFINE Good == /\ \A t \in Sessions : StatusHeld(sess[t])'
                   /\ \A l \in Listings : Fine(l)' \/ \E s \in Sessions : Saving(sess'[s]) /\ sess'[s].l = l
<1>0. /\ TypeOK /\ sess \in [Sessions -> Locals] /\ sess' \in [Sessions -> Locals]
      /\ \A t \in Sessions : StatusHeld(sess[t])
      /\ \A l \in Listings : Fine(l) \/ \E s \in Sessions : Saving(sess[s]) /\ sess[s].l = l
      /\ world \in Worlds /\ OneByOne(world)
      /\ \A t \in Sessions : sess[t].todo \subseteq Listings
      /\ \A t \in Sessions : sess[t].pc \notin {"idle", "run"} => sess[t].l \in Listings
  BY TurnWorld DEF TypeInv, TypeOK, StatusInv, OneByOne, Locals, InHand
<1>2. CASE UNCHANGED vars
  BY <1>0, <1>2 DEF vars, StatusHeld, Fine
<1>3. ASSUME NEW l \in Listings, TimePasses(l) PROVE Good
  <2>1. /\ UNCHANGED <<live, sess>>
        /\ \A k \in Listings : listing'[k].status = listing[k].status /\ listing'[k].offer = listing[k].offer
    BY <1>0, <1>3, TimePassesIs DEF ebay
  <2>2. \A k \in Listings : Fine(k)' <=> Fine(k)
    BY <2>1 DEF Fine
  <2>3. ASSUME NEW t \in Sessions PROVE StatusHeld(sess[t])'
    <3>1. PICK r : r = sess[t]
      OBVIOUS
    <3>2. sess'[t] = r /\ StatusHeld(r) /\ r.todo \subseteq Listings
          /\ (r.pc \notin {"idle", "run"} => r.l \in Listings)
      BY <1>0, <2>1, <3>1
    <3>3. r.l \in Listings => listing'[r.l].status = listing[r.l].status /\ listing'[r.l].offer = listing[r.l].offer
      BY <2>1
    <3>4. \A k \in r.todo : listing'[k].status = listing[k].status
      BY <2>1, <3>2
    <3>5. QED
      BY <2>1, <3>2, <3>3, <3>4 DEF StatusHeld
  <2>4. QED
    BY <1>0, <2>1, <2>2, <2>3
<1>4. ASSUME NEW s \in Sessions, s # Clock, \A t \in Sessions : t # s => t = Clock /\ sess[t].pc = "idle",
             \/ Buttons(s) \/ RunStart(s) \/ Steps(s) \/ Die(s)
             \/ \E l \in Listings : PublishStart(s, l) \/ EndStart(s, l)
      PROVE  Good
  <2> DEFINE l == sess[s].l
             FineThen == \A k \in Listings : Fine(k)'
  <2>0. sess[s] \in Locals /\ StatusHeld(sess[s]) /\ (sess[s].pc \notin {"idle", "run"} => l \in Listings)
    BY <1>0
  <2>1. ASSUME StatusHeld(sess[s])', Others(s) \/ sess' = sess,
               \A k \in Listings : Fine(k)' \/ (Saving(sess'[s]) /\ sess'[s].l = k)
        PROVE  Good
    <3>1. ASSUME NEW t \in Sessions, t # s PROVE StatusHeld(sess[t])'
      <4>1. sess'[t] = sess[t] /\ sess[t].pc = "idle" /\ sess[t].todo = {}
        BY <1>0, <1>4, <2>1, <3>1 DEF Others, StatusHeld
      <4>2. QED
        BY <4>1 DEF StatusHeld
    <3>2. QED
      BY <2>1, <3>1
  <2>2. ASSUME NEW k \in Listings, ~ Saving(sess[s]) \/ l # k PROVE Fine(k)
    BY <1>0, <1>4, <2>2 DEF Saving
  <2>3. ASSUME NEW k \in Listings, listing'[k].status = listing[k].status, listing'[k].offer = listing[k].offer, live'[k] = live[k]
        PROVE  Fine(k)' <=> Fine(k)
    BY <2>3 DEF Fine
  <2>4. UNCHANGED <<listing, live>> /\ ~ Saving(sess[s]) => FineThen
    BY <2>2, <2>3
  <2>5. ASSUME NextUp(s), \A k \in sess[s].todo : listing'[k].status # "published"
        PROVE  StatusHeld(sess[s])' /\ Others(s)
    <3>1. Others(s) /\ sess'[s].pc \in {"idle", "run"} /\ sess'[s].todo \subseteq sess[s].todo
          /\ (sess'[s].pc = "idle" => sess'[s].todo = {})
      BY <2>5, NextUpIs DEF Others
    <3>2. QED
      BY <2>5, <3>1 DEF StatusHeld
  <2>6. ASSUME Threw(s), sess[s].pc \in {"offer", "publish"}, listing' = listing
        PROVE  StatusHeld(sess[s])' /\ Others(s)
    <3>1. l \in Listings
      BY <2>0, <2>6
    <3>2. CASE sess[s].runner /\ sess'[s] = [sess[s] EXCEPT !.pc = "bump"]
      <4>1. sess'[s].pc = "bump" /\ sess'[s].l = l /\ sess'[s].todo = sess[s].todo
        BY <2>0, <3>2 DEF Locals
      <4>2. l \notin sess[s].todo /\ listing[l].status # "published" /\ \A k \in sess[s].todo : listing[k].status # "published"
        BY <2>0, <2>6, <3>2 DEF StatusHeld
      <4>3. StatusHeld(sess[s])'
        BY <2>6, <4>1, <4>2 DEF StatusHeld
      <4>4. QED
        BY <2>6, <3>1, <4>3, ThrewIs
    <3>3. CASE sess'[s].pc = "idle" /\ sess'[s].todo = {}
      <4>1. StatusHeld(sess[s])'
        BY <3>3 DEF StatusHeld
      <4>2. QED
        BY <2>6, <3>1, <4>1, ThrewIs
    <3>4. QED
      BY <2>6, <3>1, <3>2, <3>3, ThrewIs
  <2>7. CASE Buttons(s)
    <3>1. sess' = sess /\ live' = live /\ sess[s].pc = "idle"
      BY <2>7, ButtonsStep DEF ebay
    <3>2. ASSUME NEW k \in Listings PROVE Fine(k)'
      <4>1. Fine(k)
        BY <2>2, <3>1 DEF Saving
      <4>2. listing'[k].offer = listing[k].offer
            /\ (listing'[k] = listing[k] \/ (listing[k].status # "published" /\ listing'[k].status # "published"))
        BY <1>0, <2>7, ButtonsStep DEF OneByOne
      <4>3. QED
        BY <3>1, <4>1, <4>2 DEF Fine
    <3>3. StatusHeld(sess[s])'
      BY <2>0, <3>1 DEF StatusHeld
    <3>4. QED
      BY <2>1, <3>1, <3>2, <3>3
  <2>8. CASE RunStart(s)
    <3>1. /\ sess[s].pc = "idle" /\ sess'[s].pc = "run" /\ listing' = listing /\ live' = live /\ Others(s)
          /\ \A k \in sess'[s].todo : listing[k].status = "scheduled"
      BY <2>8, RunStartIs DEF ebay
    <3>2. StatusHeld(sess[s])'
      BY <3>1 DEF StatusHeld
    <3>3. QED
      BY <2>1, <2>4, <3>1, <3>2 DEF Saving
  <2>9. ASSUME NEW k \in Listings, EndStart(s, k) PROVE Good
    <3>1. /\ sess[s].pc = "idle" /\ sess'[s].l = k /\ sess'[s].offer = listing[k].offer /\ Others(s)
          /\ sess'[s].pc = IF listing[k].offer = NoOffer THEN "endSave" ELSE "withdraw"
          /\ sess'[s].todo = {} /\ listing' = listing /\ live' = live
      BY <2>9, EndStartIs DEF ebay
    <3>2. listing[k].offer = NoOffer => live[k] = {}
      <4>1. Fine(k)
        BY <2>2, <3>1 DEF Saving
      <4>2. QED
        BY <4>1 DEF Fine
    <3>3. StatusHeld(sess[s])'
      BY <3>1, <3>2 DEF StatusHeld
    <3>4. QED
      BY <2>1, <2>4, <3>1, <3>3 DEF Saving
  <2>10. ASSUME NEW k \in Listings, NEW todo \in SUBSET Listings, NEW runner \in BOOLEAN, Prepare(s, k, todo, runner),
                sess[s].pc \in {"idle", "run"}, UNCHANGED <<listing, connected, ebay>>,
                k \notin todo, \A i \in todo : listing[i].status # "published",
                runner => listing[k].status # "published"
         PROVE  Good
    <3>0. Idle.pc = "idle" /\ Idle.todo = {} /\ listing' = listing /\ live' = live
      BY <2>10 DEF Idle, ebay
    <3>1. /\ Others(s)
          /\ \/ /\ sess'[s].pc = "offer" /\ sess'[s].l = k /\ sess'[s].todo = todo
                /\ sess'[s].runner = runner /\ sess'[s].was = listing[k].status
                /\ sess'[s].old = listing[k].offer /\ sess'[s].offer = listing[k].offer
             \/ runner /\ sess'[s].pc = "bump" /\ sess'[s].l = k /\ sess'[s].todo = todo
             \/ sess'[s] = Idle
      BY <2>10, PrepareIs DEF Others
    <3>2. StatusHeld(sess[s])'
      BY <2>10, <3>0, <3>1 DEF StatusHeld
    <3>3. QED
      BY <2>1, <2>4, <2>10, <3>0, <3>1, <3>2 DEF Saving
  <2>11. ASSUME NEW k \in Listings, PublishStart(s, k) PROVE Good
    <3>1. sess[s].pc \in {"idle", "run"} /\ UNCHANGED <<listing, connected, ebay>> /\ Prepare(s, k, {}, FALSE)
      BY <2>11, PublishStartIs
    <3>2. {} \in SUBSET Listings /\ FALSE \in BOOLEAN /\ k \notin {} /\ \A i \in {} : listing[i].status # "published"
      OBVIOUS
    <3>3. QED
      BY <2>10, <3>1, <3>2
  <2>12. CASE RunNext(s)
    <3>1. PICK k \in sess[s].todo : k \in Listings /\ Prepare(s, k, sess[s].todo \ {k}, TRUE)
                                   /\ sess[s].todo \ {k} \in SUBSET Listings
      BY <2>12, RunNextIs
    <3>2. \A i \in sess[s].todo : listing[i].status # "published"
      BY <2>0 DEF StatusHeld
    <3>3. UNCHANGED <<listing, connected, ebay>> /\ sess[s].pc = "run"
      BY <2>12, RunNextIs
    <3>4. QED
      BY <2>10, <3>1, <3>2, <3>3
  <2>13. CASE Die(s) \/ RunDone(s)
    <3>1. sess'[s].pc = "idle" /\ sess'[s].todo = {} /\ live' = live /\ listing' = listing /\ Others(s)
      BY <2>13, Forgets DEF ebay, Idle
    <3>2. ~ Saving(sess[s])
      BY <1>0, <2>13, Forgets DEF RowsKept, Saving
    <3>3. StatusHeld(sess[s])'
      BY <3>1 DEF StatusHeld
    <3>4. QED
      BY <2>1, <2>4, <3>1, <3>2, <3>3
  <2>14. CASE Bump(s)
    <3>1. /\ sess[s].pc = "bump" /\ live' = live /\ l \in Listings
          /\ \A k \in Listings : listing'[k].status = listing[k].status /\ listing'[k].offer = listing[k].offer
          /\ Goto(s, "park") \/ NextUp(s)
      BY <2>14, BumpIs DEF Bump, ebay
    <3>2. FineThen
      BY <2>2, <2>3, <3>1 DEF Saving
    <3>3. \A k \in sess[s].todo : listing'[k].status # "published"
      BY <1>0, <2>0, <3>1 DEF StatusHeld
    <3>4. CASE Goto(s, "park")
      <4>1. Others(s) /\ sess'[s] = [sess[s] EXCEPT !.pc = "park"]
        BY <3>1, <3>4, GotoIs DEF Others, Points
      <4>2. sess'[s].pc = "park" /\ sess'[s].l = l /\ sess'[s].todo = sess[s].todo
        BY <2>0, <4>1 DEF Locals
      <4>3. l \notin sess[s].todo /\ listing'[l].status # "published"
        BY <2>0, <3>1 DEF StatusHeld
      <4>4. StatusHeld(sess[s])'
        BY <3>3, <4>2, <4>3 DEF StatusHeld
      <4>5. QED
        BY <2>1, <3>2, <4>1, <4>4
    <3>5. QED
      BY <2>1, <2>5, <3>1, <3>2, <3>3, <3>4
  <2>15. CASE Park(s) \/ EndSave(s)
    <3>1. /\ sess[s].pc \in {"park", "endSave"} /\ live' = live /\ NextUp(s) /\ l \in Listings
          /\ Set(l, IF sess[s].pc = "park" THEN "draft" ELSE "ended")
      BY <2>15, SetInHand DEF ebay
    <3>2. /\ listing'[l].status \in {"draft", "ended"}
          /\ \A k \in Listings : k # l => listing'[k] = listing[k]
      BY <1>0, <3>1, SetIs DEF Statuses
    <3>3. live[l] = {}
      <4>1. sess[s].pc = "park" => Fine(l) /\ listing[l].status # "published"
        BY <2>0, <2>2, <3>1 DEF Saving, StatusHeld
      <4>2. QED
        BY <2>0, <3>1, <4>1 DEF StatusHeld, Fine
    <3>4. ASSUME NEW k \in Listings PROVE Fine(k)'
      <4>1. CASE k = l
        BY <3>1, <3>2, <3>3, <4>1 DEF Fine
      <4>2. CASE k # l
        BY <2>2, <2>3, <3>1, <3>2, <4>2
      <4>3. QED
        BY <4>1, <4>2
    <3>5. \A k \in sess[s].todo : listing'[k].status # "published"
      BY <1>0, <2>0, <3>2 DEF StatusHeld
    <3>6. QED
      BY <2>1, <2>5, <3>1, <3>4, <3>5
  <2>16. CASE Withdraw(s)
    <3>1. /\ sess[s].pc = "withdraw" /\ listing' = listing /\ l \in Listings
          /\ \A k \in Listings : k # l => live'[k] = live[k]
          /\ \/ Goto(s, "endSave") /\ live'[l] = live[l] \ {sess[s].offer}
             \/ NextUp(s) /\ live' = live
      BY <1>0, <2>16, WithdrawIs DEF Withdraw, RowsKept
    <3>2. \A k \in sess[s].todo : listing'[k].status # "published"
      BY <1>0, <2>0, <3>1 DEF StatusHeld
    <3>3. CASE Goto(s, "endSave") /\ live'[l] = live[l] \ {sess[s].offer}
      <4>1. Others(s) /\ sess'[s] = [sess[s] EXCEPT !.pc = "endSave"]
        BY <3>1, <3>3, GotoIs DEF Others, Points
      <4>2. sess'[s].pc = "endSave" /\ sess'[s].l = l /\ sess'[s].todo = sess[s].todo
        BY <2>0, <4>1 DEF Locals
      <4>3. Fine(l) /\ sess[s].offer = listing[l].offer /\ l \notin sess[s].todo
        BY <2>0, <2>2, <3>1 DEF Saving, StatusHeld
      <4>4. live'[l] = {}
        BY <3>3, <4>3 DEF Fine
      <4>5. StatusHeld(sess[s])'
        BY <3>2, <4>2, <4>3, <4>4 DEF StatusHeld
      <4>6. \A k \in Listings : k # l => Fine(k)'
        BY <2>2, <2>3, <3>1
      <4>7. QED
        BY <2>1, <4>1, <4>2, <4>5, <4>6 DEF Saving
    <3>4. CASE NextUp(s) /\ live' = live
      BY <2>1, <2>4, <2>5, <3>1, <3>2, <3>4 DEF Saving
    <3>5. QED
      BY <3>1, <3>3, <3>4
  <2>17. CASE Offer(s)
    <3>1. /\ sess[s].pc = "offer" /\ listing' = listing /\ live' = live /\ Others(s) /\ l \in Listings
          /\ \/ /\ sess'[s].pc = "publish" /\ sess'[s].l = l /\ sess'[s].old = sess[s].old
                /\ sess'[s].was = sess[s].was /\ sess'[s].todo = sess[s].todo /\ sess'[s].runner = sess[s].runner
                /\ \/ sess[s].old # NoOffer /\ sess'[s].offer = sess[s].offer
                   \/ sess[s].old = NoOffer /\ sess'[s].offer > 0
             \/ Threw(s)
      BY <2>17, OfferIs DEF Offer
    <3>2. Threw(s) => StatusHeld(sess[s])'
      BY <2>6, <3>1
    <3>3. ASSUME sess'[s].pc = "publish", sess'[s].l = l, sess'[s].old = sess[s].old,
                 sess'[s].was = sess[s].was, sess'[s].todo = sess[s].todo, sess'[s].runner = sess[s].runner,
                 \/ sess[s].old # NoOffer /\ sess'[s].offer = sess[s].offer
                 \/ sess[s].old = NoOffer /\ sess'[s].offer > 0
          PROVE  StatusHeld(sess[s])'
      <4>1. sess'[s].offer # NoOffer /\ (sess'[s].old # NoOffer => sess'[s].offer = sess'[s].old)
        BY <2>0, <3>1, <3>3 DEF StatusHeld, NoOffer
      <4>2. QED
        BY <2>0, <3>1, <3>3, <4>1 DEF StatusHeld
    <3>4. StatusHeld(sess[s])'
      BY <3>1, <3>2, <3>3
    <3>5. QED
      BY <2>1, <2>4, <3>1, <3>4 DEF Saving
  <2>18. CASE PublishOffer(s)
    <3>1. /\ sess[s].pc = "publish" /\ listing' = listing /\ Others(s) /\ l \in Listings
          /\ \A k \in Listings : k # l => live'[k] = live[k]
          /\ \/ /\ sess'[s] = [sess[s] EXCEPT !.pc = "save"]
                /\ \/ live' = live /\ sess[s].old # NoOffer /\ sess[s].was = "published"
                   \/ /\ sess[s].old = NoOffer \/ sess[s].was # "published"
                      /\ live'[l] = live[l] \cup {sess[s].offer}
             \/ Threw(s) /\ live' = live
      BY <1>0, <2>18, PublishIs DEF PublishOffer, RowsKept
    <3>2. CASE Threw(s) /\ live' = live
      BY <2>1, <2>4, <2>6, <3>1, <3>2 DEF Saving
    <3>3. ASSUME sess'[s] = [sess[s] EXCEPT !.pc = "save"],
                 \/ live' = live /\ sess[s].old # NoOffer /\ sess[s].was = "published"
                 \/ /\ sess[s].old = NoOffer \/ sess[s].was # "published"
                    /\ live'[l] = live[l] \cup {sess[s].offer}
          PROVE  Good
      <4>1. sess'[s].pc = "save" /\ sess'[s].l = l /\ sess'[s].todo = sess[s].todo /\ sess'[s].offer = sess[s].offer
        BY <2>0, <3>3 DEF Locals
      <4>2. /\ Fine(l) /\ sess[s].old = listing[l].offer /\ sess[s].was = listing[l].status
            /\ sess[s].offer # NoOffer /\ (sess[s].old # NoOffer => sess[s].offer = sess[s].old)
            /\ l \notin sess[s].todo
        BY <2>0, <2>2, <3>1 DEF Saving, StatusHeld
      <4>3. live'[l] = {sess[s].offer}
        BY <3>3, <4>2 DEF Fine
      <4>4. \A k \in sess[s].todo : listing'[k].status # "published"
        BY <2>0, <3>1 DEF StatusHeld
      <4>5. StatusHeld(sess[s])'
        BY <4>1, <4>2, <4>3, <4>4 DEF StatusHeld
      <4>6. \A k \in Listings : k # l => Fine(k)'
        BY <2>2, <2>3, <3>1
      <4>7. QED
        BY <2>1, <3>1, <4>1, <4>5, <4>6 DEF Saving
    <3>4. QED
      BY <3>1, <3>2, <3>3
  <2>19. CASE PublishSave(s)
    <3>1. /\ sess[s].pc = "save" /\ live' = live /\ l \in Listings /\ NextUp(s)
          /\ listing'[l].status = "published" /\ listing'[l].offer = sess[s].offer
          /\ \A k \in Listings : k # l => listing'[k] = listing[k]
      BY <2>19, PublishSaveIs DEF PublishSave, ebay
    <3>2. live[l] = {sess[s].offer} /\ sess[s].offer # NoOffer /\ l \notin sess[s].todo
      BY <2>0, <3>1 DEF StatusHeld
    <3>3. ASSUME NEW k \in Listings PROVE Fine(k)'
      <4>1. CASE k = l
        BY <3>1, <3>2, <4>1 DEF Fine
      <4>2. CASE k # l
        BY <2>2, <2>3, <3>1, <4>2
      <4>3. QED
        BY <4>1, <4>2
    <3>4. \A k \in sess[s].todo : listing'[k].status # "published"
      BY <1>0, <2>0, <3>1, <3>2 DEF StatusHeld
    <3>5. QED
      BY <2>1, <2>5, <3>1, <3>3, <3>4
  <2>20. QED
    BY <1>4, <2>7, <2>8, <2>9, <2>11, <2>12, <2>13, <2>14, <2>15, <2>16, <2>17, <2>18, <2>19 DEF Steps
<1>5. QED
  BY <1>2, <1>3, <1>4, TurnStep

\* Where requests come one at a time, what eBay carries out is answered and a request does not
\* stop before it has written that down, a listing no request has in hand is live at eBay, by
\* its own offer, just when it is shown as published; failed calls, parked runs and stops
\* elsewhere do not matter.
THEOREM PublishStatusTrue == RowsKept /\ Spec => []StatusMatchesEbay
<1>1. TypeInv /\ StatusInv => StatusMatchesEbay
  BY DEF StatusInv, Fine, StatusMatchesEbay
<1>2. RowsKept => RowsKept'
  BY DEF RowsKept, OneByOne
<1>3. Init => ClockRests
  BY OfferInit
<1>4. QED
  BY TypeInit, TypeNext, StatusInit, ClockKept, StatusNext, <1>1, <1>2, <1>3, PTL DEF Spec

-----------------------------------------------------------------------------
(* The stock and its listings (Stock).                                      *)

Sheet == [row : Rows \cup {Blank}, due : Nat, slab : BOOLEAN,
          status : {"draft", "scheduled", "exported", "published", "ended"}]

Errand == [pc : {"idle", "next", "mark", "exported"},
           do : {"none", "list", "listed", "in_stock", "schedule"} \cup Channels,
           ids : SUBSET (Rows \cup Nat), cur : Rows \cup {Blank}, n : Nat, start : Nat,
           file : SUBSET Nat]

StockTypes ==
    /\ row \in [Rows -> {"in_stock", "listed", "sold"}]
    /\ byHand \in SUBSET Rows
    /\ lst \in Seq(Sheet)
    /\ desk \in [Desks -> Errand]
    /\ made \in Nat

\* What a request has in hand is there: rows or listings, as its job asks; the listing of the
\* row it is about to mark; and its file beside the listings that were read for it, those
\* that are not in it being slabs TCGplayer's leaves out or listings with a row behind them.
Held(d, ls) ==
    /\ d.pc = "next" => \/ d.do \in {"list", "listed", "in_stock"} /\ d.ids \subseteq Rows
                        \/ d.do = "schedule" /\ d.ids \subseteq DOMAIN ls
    /\ d.pc = "mark" => /\ d.do = "list" /\ d.ids \subseteq Rows /\ d.cur \in Rows
                        /\ \E l \in DOMAIN ls : ls[l].row = d.cur
    /\ d.pc = "exported" => /\ d.do \in Channels /\ d.ids \subseteq DOMAIN ls
                            /\ \A l \in d.ids \ d.file :
                                  ls[l].row # Blank \/ (d.do = "tcgplayer" /\ ls[l].slab)

StockInv ==
    /\ StockTypes
    /\ \A s \in Desks : Held(desk[s], lst)
    /\ ListedHasDraft

\* Listings stay, and keep the row they are of and the kind of card they sell.
Alike(x, y) == x.row = y.row /\ x.slab = y.slab
Kept(ls, new) == \A l \in DOMAIN ls : l \in DOMAIN new /\ Alike(new[l], ls[l])

LEMMA WaitingHeld == Waiting \in Errand /\ \A ls : Held(Waiting, ls)
BY DEF Waiting, Errand, Held, Never

LEMMA StockStarts == StockInit => StockInv
<1>1. SUFFICES ASSUME StockInit PROVE StockInv
  OBVIOUS
<1>2. <<>> \in Seq(Sheet)
  OBVIOUS
<1>3. StockTypes
  BY <1>1, <1>2, WaitingHeld DEF StockInit, StockTypes
<1>4. \A s \in Desks : Held(desk[s], lst)
  BY <1>1, WaitingHeld DEF StockInit
<1>5. ListedHasDraft
  BY <1>1 DEF StockInit, ListedHasDraft
<1>6. QED
  BY <1>3, <1>4, <1>5 DEF StockInv

\* A request keeps what it holds while listings come and change.
LEMMA HeldKept == \A d, ls, new : Kept(ls, new) /\ Held(d, ls) => Held(d, new)
BY DEF Kept, Held, Alike

\* One desk changes, to a request that holds.
LEMMA DeskKeeps ==
    ASSUME StockTypes, \A s \in Desks : Held(desk[s], lst), Kept(lst, lst'),
           NEW s \in Desks, NEW r, r \in Errand, Held(r, lst'), desk' = [desk EXCEPT ![s] = r]
    PROVE  desk' \in [Desks -> Errand] /\ \A t \in Desks : Held(desk'[t], lst')
<1>1. desk' \in [Desks -> Errand]
  BY DEF StockTypes
<1>2. \A t \in Desks : desk'[t] = IF t = s THEN r ELSE desk[t]
  BY DEF StockTypes
<1>3. QED
  BY <1>1, <1>2, HeldKept

\* The rest of a selection holds as the whole did.
LEMMA AdvanceIs ==
    ASSUME StockTypes, NEW s \in Desks, NEW id, Kept(lst, lst'), Held(desk[s], lst),
           desk[s].pc \in {"next", "mark"}, Advance(s, id)
    PROVE  \E r \in Errand : Held(r, lst') /\ desk' = [desk EXCEPT ![s] = r]
<1>1. desk[s] \in Errand
  BY DEF StockTypes
<1>2. PICK r : r = [desk[s] EXCEPT !.pc = "next", !.ids = desk[s].ids \ {id}, !.cur = Blank, !.n = desk[s].n + 1]
  OBVIOUS
<1>3. r \in Errand
  <2>1. PICK d \in Errand : d = desk[s]
    BY <1>1
  <2>2. r = [pc |-> "next", do |-> d.do, ids |-> d.ids \ {id}, cur |-> Blank, n |-> d.n + 1,
             start |-> d.start, file |-> d.file]
    BY <1>2, <2>1 DEF Errand
  <2>3. QED
    BY <2>2 DEF Errand
<1>4. /\ r.pc = "next" /\ r.do = desk[s].do /\ r.ids = desk[s].ids \ {id}
  BY <1>1, <1>2 DEF Errand
<1>5. Held(desk[s], lst')
  BY HeldKept
<1>6. Held(r, lst')
  BY <1>4, <1>5 DEF Held
<1>7. CASE desk[s].ids \ {id} = {}
  BY <1>7, WaitingHeld DEF Advance
<1>8. CASE desk[s].ids \ {id} # {}
  BY <1>2, <1>3, <1>6, <1>8 DEF Advance
<1>9. QED
  BY <1>7, <1>8

\* The sequence of the listings with one added, and with some replaced.
LEMMA OneMore ==
    ASSUME StockTypes, NEW x \in Sheet, lst' = Append(lst, x)
    PROVE  /\ lst' \in Seq(Sheet) /\ Kept(lst, lst')
           /\ Len(lst) + 1 \in DOMAIN lst' /\ lst'[Len(lst) + 1] = x
BY DEF StockTypes, Kept, Alike

LEMMA SomeReplaced ==
    ASSUME StockTypes, DOMAIN lst' = DOMAIN lst, lst' = [l \in DOMAIN lst |-> lst'[l]],
           \A l \in DOMAIN lst : lst'[l] \in Sheet /\ Alike(lst'[l], lst[l])
    PROVE  lst' \in Seq(Sheet) /\ Kept(lst, lst')
<1>1. Len(lst) \in Nat /\ DOMAIN lst = 1..Len(lst)
  BY DEF StockTypes
<1>2. lst' \in [1..Len(lst) -> Sheet]
  BY <1>1
<1>3. lst' \in Seq(Sheet)
  BY <1>1, <1>2, SeqDef
<1>4. QED
  BY <1>3 DEF Kept

\* A request begins: one desk has it in hand, and nothing it finds is changed by that.
LEMMA AskIs ==
    ASSUME StockHolds, StockInv, Kept(lst, lst'), NEW s \in Desks, NEW r,
           r \in Errand, Held(r, lst'), Request(s, r)
    PROVE  /\ desk[s].pc = "idle" /\ made' \in Nat
           /\ desk' \in [Desks -> Errand] /\ \A t \in Desks : Held(desk'[t], lst')
<1>1. made' \in Nat /\ desk' = [desk EXCEPT ![s] = r] /\ desk[s].pc = "idle"
  BY DEF Request, StockInv, StockTypes
<1>2. QED
  BY <1>1, DeskKeeps DEF StockInv

\* Rows shown as listed have their listing while listings stay and no row is marked.
LEMMA StillListed ==
    ASSUME StockInv, Kept(lst, lst'), row' = row, byHand' = byHand
    PROVE  ListedHasDraft'
BY DEF StockInv, ListedHasDraft, Kept, Ids, Alike

LEMMA StockKept ==
    ASSUME StockInv, row' = row, byHand' = byHand, lst' \in Seq(Sheet), Kept(lst, lst'), made' \in Nat,
           desk' \in [Desks -> Errand], \A t \in Desks : Held(desk'[t], lst')
    PROVE  StockInv'
BY StillListed DEF StockInv, StockTypes

LEMMA NothingChanged == StockTypes /\ lst' = lst => lst' \in Seq(Sheet) /\ Kept(lst, lst')
BY DEF StockTypes, Kept, Alike

\* The six requests that only put something into a desk's hand.
LEMMA AskStep ==
    ASSUME StockHolds, StockInv, NEW s \in Desks, NEW r, r \in Errand, Held(r, lst),
           Request(s, r), UNCHANGED <<row, byHand, lst>>
    PROVE  StockInv'
BY AskIs, StockKept, NothingChanged DEF StockInv

LEMMA RowsBulkStep ==
    ASSUME StockHolds, StockInv, NEW s \in Desks, NEW do \in {"list", "listed", "in_stock"},
           NEW ids \in SUBSET Rows, RowsBulk(s, do, ids)
    PROVE  StockInv'
<1>1. PICK w \in Errand : w = Waiting
  BY WaitingHeld
<1>a. PICK r : r = [Waiting EXCEPT !.pc = "next", !.do = do, !.ids = ids]
  OBVIOUS
<1>b. r = [pc |-> "next", do |-> do, ids |-> ids, start |-> w.start,
           cur |-> w.cur, n |-> w.n, file |-> w.file]
  BY <1>1, <1>a DEF Errand
<1>2. r \in Errand /\ Held(r, lst)
  BY <1>1, <1>b DEF Errand, Held
<1>3. Request(s, r) /\ UNCHANGED <<row, byHand, lst>>
  BY <1>a DEF RowsBulk
<1>4. QED
  BY <1>2, <1>3, AskStep

LEMMA BuildStep ==
    ASSUME StockHolds, StockInv, NEW s \in Desks, NEW r \in Rows, NEW at \in Starts, Build(s, r, at)
    PROVE  StockInv'
<1>1. PICK w \in Errand : w = Waiting
  BY WaitingHeld
<1>a. PICK q : q = [Waiting EXCEPT !.pc = "next", !.do = "list", !.ids = {r}, !.start = at]
  OBVIOUS
<1>b. q = [pc |-> "next", do |-> "list", ids |-> {r}, start |-> at,
           cur |-> w.cur, n |-> w.n, file |-> w.file]
  BY <1>1, <1>a DEF Errand
<1>2. q \in Errand /\ Held(q, lst)
  BY <1>1, <1>b DEF Errand, Held, StockHolds
<1>3. Request(s, q) /\ UNCHANGED <<row, byHand, lst>>
  BY <1>a DEF Build
<1>4. QED
  BY <1>2, <1>3, AskStep

LEMMA ListingsBulkStep ==
    ASSUME StockHolds, StockInv, NEW s \in Desks, NEW ids \in SUBSET Ids,
           NEW start \in Starts \cup {Never}, ListingsBulk(s, ids, start)
    PROVE  StockInv'
<1>1. PICK w \in Errand : w = Waiting
  BY WaitingHeld
<1>a. PICK q : q = [Waiting EXCEPT !.pc = "next", !.do = "schedule", !.ids = ids, !.start = start]
  OBVIOUS
<1>b. q = [pc |-> "next", do |-> "schedule", ids |-> ids, start |-> start,
           cur |-> w.cur, n |-> w.n, file |-> w.file]
  BY <1>1, <1>a DEF Errand
<1>2. ids \in SUBSET Nat /\ ids \subseteq DOMAIN lst /\ start \in Nat
  BY DEF StockInv, StockTypes, StockHolds, Ids, Never
<1>3. q \in Errand /\ Held(q, lst)
  BY <1>1, <1>b, <1>2 DEF Errand, Held
<1>4. Request(s, q) /\ UNCHANGED <<row, byHand, lst>>
  BY <1>a DEF ListingsBulk
<1>5. QED
  BY <1>3, <1>4, AskStep

LEMMA ExportReadStep ==
    ASSUME StockHolds, StockInv, NEW s \in Desks, NEW fmt \in Channels, NEW ids \in SUBSET Ids,
           ExportRead(s, fmt, ids)
    PROVE  StockInv'
<1>1. PICK w \in Errand : w = Waiting
  BY WaitingHeld
<1>a. PICK q : q = [Waiting EXCEPT !.pc = "exported", !.do = fmt, !.ids = ids, !.file = InFile(fmt, ids)]
  OBVIOUS
<1>b. q = [pc |-> "exported", do |-> fmt, ids |-> ids, start |-> w.start,
           cur |-> w.cur, n |-> w.n, file |-> InFile(fmt, ids)]
  BY <1>1, <1>a DEF Errand
<1>2. ids \subseteq Nat
  BY DEF StockInv, StockTypes, Ids
<1>3. /\ InFile(fmt, ids) \subseteq ids
      /\ \A l \in ids \ InFile(fmt, ids) :
            lst[l].row # Blank \/ (fmt = "tcgplayer" /\ lst[l].slab)
  BY DEF InFile, LeftOut
<1>4. q \in Errand /\ Held(q, lst)
  BY <1>1, <1>b, <1>2, <1>3 DEF Errand, Held, Ids
<1>5. Request(s, q) /\ UNCHANGED <<row, byHand, lst>>
  BY <1>a DEF ExportRead
<1>6. QED
  BY <1>4, <1>5, AskStep

LEMMA NewListingType ==
    ASSUME NEW r \in Rows \cup {Blank}, NEW at \in Nat, NEW slab \in BOOLEAN
    PROVE  /\ NewListing(r, at, slab) \in Sheet
           /\ NewListing(r, at, slab).row = r /\ NewListing(r, at, slab).slab = slab
BY DEF NewListing, Sheet

LEMMA BlankListingStep ==
    ASSUME StockHolds, StockInv, NEW s \in Desks, NEW slab \in BOOLEAN, BlankListing(s, slab)
    PROVE  StockInv'
<1>1. PICK x \in Sheet : x = NewListing(Blank, Never, slab)
  BY NewListingType DEF Never
<1>2. lst' = Append(lst, x) /\ Request(s, Waiting) /\ UNCHANGED <<row, byHand>>
  BY <1>1 DEF BlankListing
<1>3. lst' \in Seq(Sheet) /\ Kept(lst, lst')
  BY <1>2, OneMore DEF StockInv
<1>4. QED
  BY <1>2, <1>3, WaitingHeld, AskIs, StockKept

\* A listing whose status is changed is a listing of the same card.
LEMMA Restated ==
    ASSUME NEW x \in Sheet, NEW status \in {"draft", "scheduled", "exported", "published", "ended"}
    PROVE  [x EXCEPT !.status = status] \in Sheet /\ Alike([x EXCEPT !.status = status], x)
BY DEF Sheet, Alike

LEMMA MarkListingsStep ==
    ASSUME StockHolds, StockInv, NEW s \in Desks, NEW ids \in SUBSET Ids, MarkListings(s, ids)
    PROVE  StockInv'
<1>1. /\ Request(s, Waiting) /\ UNCHANGED <<row, byHand>>
      /\ lst' = [l \in DOMAIN lst |-> IF l \in ids THEN [lst[l] EXCEPT !.status = "exported"] ELSE lst[l]]
  BY DEF MarkListings, Ids
<1>2. ASSUME NEW l \in DOMAIN lst PROVE lst'[l] \in Sheet /\ Alike(lst'[l], lst[l])
  <2>1. lst[l] \in Sheet
    BY DEF StockInv, StockTypes
  <2>2. CASE l \in ids
    BY <1>1, <2>1, <2>2, Restated
  <2>3. CASE l \notin ids
    BY <1>1, <2>1, <2>3 DEF Alike
  <2>4. QED
    BY <2>2, <2>3
<1>3. lst' \in Seq(Sheet) /\ Kept(lst, lst')
  BY <1>1, <1>2, SomeReplaced DEF StockInv
<1>4. QED
  BY <1>1, <1>3, WaitingHeld, AskIs, StockKept

\* createListing's two statements: the listing is there before its row is marked.
LEMMA InsertListingStep ==
    ASSUME StockHolds, StockInv, NEW s \in Desks, InsertListing(s)
    PROVE  StockInv'
<1>1. PICK r \in desk[s].ids : /\ lst' = Append(lst, NewListing(r, desk[s].start, FALSE))
                               /\ desk' = [desk EXCEPT ![s].pc = "mark", ![s].cur = r]
  BY DEF InsertListing
<1>2. /\ desk[s].pc = "next" /\ desk[s].do = "list" /\ desk[s] \in Errand
      /\ UNCHANGED <<row, byHand, made>>
  BY DEF InsertListing, StockInv, StockTypes
<1>3. r \in Rows /\ desk[s].ids \subseteq Rows
  BY <1>1, <1>2 DEF StockInv, Held
<1>4. desk[s].start \in Nat
  BY <1>2 DEF Errand
<1>5. PICK x \in Sheet : x = NewListing(r, desk[s].start, FALSE) /\ x.row = r
  BY <1>3, <1>4, NewListingType
<1>6. /\ lst' \in Seq(Sheet) /\ Kept(lst, lst')
      /\ \E l \in DOMAIN lst' : lst'[l].row = r
  BY <1>1, <1>5, OneMore DEF StockInv
<1>7. PICK d \in Errand : d = desk[s]
  BY <1>2
<1>8. PICK q : q = [d EXCEPT !.pc = "mark", !.cur = r]
  OBVIOUS
<1>9. q = [pc |-> "mark", do |-> d.do, ids |-> d.ids, cur |-> r, n |-> d.n, start |-> d.start, file |-> d.file]
  BY <1>8 DEF Errand
<1>10. q \in Errand /\ Held(q, lst')
  BY <1>2, <1>3, <1>6, <1>7, <1>9 DEF Errand, Held
<1>11. desk' = [desk EXCEPT ![s] = q]
  BY <1>1, <1>7, <1>8 DEF StockInv, StockTypes
<1>12. desk' \in [Desks -> Errand] /\ \A t \in Desks : Held(desk'[t], lst')
  BY <1>6, <1>10, <1>11, DeskKeeps DEF StockInv
<1>13. made' \in Nat
  BY <1>2 DEF StockInv, StockTypes
<1>14. QED
  BY <1>2, <1>6, <1>12, <1>13, StockKept

LEMMA MarkRowStep ==
    ASSUME StockHolds, StockInv, NEW s \in Desks, MarkRow(s)
    PROVE  StockInv'
<1>1. /\ desk[s].pc = "mark" /\ Advance(s, desk[s].cur)
      /\ row' = [row EXCEPT ![desk[s].cur] = "listed"] /\ UNCHANGED <<byHand, lst, made>>
  BY DEF MarkRow
<1>2. desk[s].cur \in Rows /\ \E l \in DOMAIN lst : lst[l].row = desk[s].cur
  BY <1>1 DEF StockInv, Held
<1>3. lst' \in Seq(Sheet) /\ Kept(lst, lst')
  BY <1>1, NothingChanged DEF StockInv
<1>4. desk' \in [Desks -> Errand] /\ \A t \in Desks : Held(desk'[t], lst')
  BY <1>1, <1>3, AdvanceIs, DeskKeeps DEF StockInv
<1>5. StockTypes'
  BY <1>1, <1>2, <1>3, <1>4 DEF StockInv, StockTypes
<1>6. ListedHasDraft'
  BY <1>1, <1>2 DEF StockInv, StockTypes, ListedHasDraft, Ids
<1>7. QED
  BY <1>4, <1>5, <1>6 DEF StockInv

LEMMA MarkByHandStep ==
    ASSUME StockHolds, StockInv, NEW s \in Desks, MarkByHand(s)
    PROVE  StockInv'
<1>1. PICK r \in desk[s].ids :
         /\ row' = [row EXCEPT ![r] = desk[s].do] /\ Advance(s, r)
         /\ byHand' = IF desk[s].do = "listed" THEN byHand \cup {r} ELSE byHand \ {r}
  BY DEF MarkByHand
<1>2. desk[s].pc = "next" /\ desk[s].do \in {"listed", "in_stock"} /\ UNCHANGED <<lst, made>>
  BY DEF MarkByHand
<1>3. r \in Rows
  BY <1>1, <1>2 DEF StockInv, Held
<1>4. lst' \in Seq(Sheet) /\ Kept(lst, lst')
  BY <1>2, NothingChanged DEF StockInv
<1>5. desk' \in [Desks -> Errand] /\ \A t \in Desks : Held(desk'[t], lst')
  BY <1>1, <1>2, <1>4, AdvanceIs, DeskKeeps DEF StockInv
<1>6. row' \in [Rows -> {"in_stock", "listed", "sold"}] /\ byHand' \in SUBSET Rows
  BY <1>1, <1>2, <1>3 DEF StockInv, StockTypes
<1>7. StockTypes'
  BY <1>2, <1>4, <1>5, <1>6 DEF StockInv, StockTypes
<1>8. ListedHasDraft'
  BY <1>1, <1>2, <1>3 DEF StockInv, StockTypes, ListedHasDraft, Ids
<1>9. QED
  BY <1>5, <1>7, <1>8 DEF StockInv

LEMMA ScheduleNextStep ==
    ASSUME StockHolds, StockInv, NEW s \in Desks, ScheduleNext(s)
    PROVE  StockInv'
<1>0. PICK at : at = IF desk[s].start = Never THEN Never ELSE desk[s].start + desk[s].n * Gap
  OBVIOUS
<1>1. PICK l \in desk[s].ids :
         /\ lst' = IF lst[l].status \in Unlisted
                   THEN [lst EXCEPT ![l] = NewListing(lst[l].row, at, lst[l].slab)] ELSE lst
         /\ Advance(s, l)
  BY <1>0 DEF ScheduleNext
<1>2. desk[s].pc = "next" /\ desk[s].do = "schedule" /\ UNCHANGED <<row, byHand, made>>
  BY DEF ScheduleNext
<1>3. l \in DOMAIN lst
  BY <1>1, <1>2 DEF StockInv, Held
<1>4. lst[l] \in Sheet
  BY <1>3 DEF StockInv, StockTypes
<1>5. at \in Nat
  <2>1. desk[s].start \in Nat /\ desk[s].n \in Nat
    BY DEF StockInv, StockTypes, Errand
  <2>2. desk[s].n * Gap \in Nat
    BY <2>1 DEF StockHolds
  <2>3. QED
    BY <1>0, <2>1, <2>2 DEF Never
<1>6. PICK x \in Sheet : x = NewListing(lst[l].row, at, lst[l].slab) /\ Alike(x, lst[l])
  BY <1>4, <1>5, NewListingType DEF Sheet, Alike
<1>7. lst' \in Seq(Sheet) /\ Kept(lst, lst')
  <2>1. CASE lst[l].status \in Unlisted
    <3>1. lst' = [lst EXCEPT ![l] = x]
      BY <1>1, <1>6, <2>1
    <3>2. QED
      BY <1>3, <1>6, <3>1 DEF StockInv, StockTypes, Kept, Alike
  <2>2. CASE lst[l].status \notin Unlisted
    BY <1>1, <2>2, NothingChanged DEF StockInv
  <2>3. QED
    BY <2>1, <2>2
<1>8. desk' \in [Desks -> Errand] /\ \A t \in Desks : Held(desk'[t], lst')
  BY <1>1, <1>2, <1>7, AdvanceIs, DeskKeeps DEF StockInv
<1>9. made' \in Nat
  BY <1>2 DEF StockInv, StockTypes
<1>10. QED
  BY <1>2, <1>7, <1>8, <1>9, StockKept

LEMMA ExportMarkStep ==
    ASSUME StockHolds, StockInv, NEW s \in Desks, ExportMark(s)
    PROVE  StockInv'
<1>1. /\ desk' = [desk EXCEPT ![s] = Waiting] /\ UNCHANGED <<row, byHand, made>>
      /\ lst' = [l \in DOMAIN lst |-> IF l \in desk[s].ids /\ lst[l].status \in {"draft", "scheduled"}
                                      THEN [lst[l] EXCEPT !.status = "exported"] ELSE lst[l]]
  BY DEF ExportMark, Exported, Ids
<1>2. ASSUME NEW l \in DOMAIN lst PROVE lst'[l] \in Sheet /\ Alike(lst'[l], lst[l])
  <2>1. lst[l] \in Sheet
    BY DEF StockInv, StockTypes
  <2>2. lst'[l] = lst[l] \/ lst'[l] = [lst[l] EXCEPT !.status = "exported"]
    BY <1>1
  <2>3. QED
    BY <2>1, <2>2, Restated DEF Alike
<1>3. lst' \in Seq(Sheet) /\ Kept(lst, lst')
  BY <1>1, <1>2, SomeReplaced DEF StockInv
<1>4. desk' \in [Desks -> Errand] /\ \A t \in Desks : Held(desk'[t], lst')
  BY <1>1, <1>3, WaitingHeld, DeskKeeps DEF StockInv
<1>5. made' \in Nat
  BY <1>1 DEF StockInv, StockTypes
<1>6. QED
  BY <1>1, <1>3, <1>4, <1>5, StockKept

LEMMA StopStep ==
    ASSUME StockHolds, StockInv, NEW s \in Desks, Stop(s)
    PROVE  StockInv'
<1>1. desk' = [desk EXCEPT ![s] = Waiting] /\ UNCHANGED <<row, byHand, lst, made>>
  BY DEF Stop
<1>2. lst' \in Seq(Sheet) /\ Kept(lst, lst')
  BY <1>1, NothingChanged DEF StockInv
<1>3. desk' \in [Desks -> Errand] /\ \A t \in Desks : Held(desk'[t], lst')
  BY <1>1, <1>2, WaitingHeld, DeskKeeps DEF StockInv
<1>4. QED
  BY <1>1, <1>2, <1>3, StockKept DEF StockInv, StockTypes

LEMMA SellStep ==
    ASSUME StockHolds, StockInv, NEW r \in Rows, Sell(r)
    PROVE  StockInv'
<1>1. row' = [row EXCEPT ![r] = "sold"] /\ UNCHANGED <<byHand, lst, desk, made>>
  BY DEF Sell
<1>2. ListedHasDraft'
  BY <1>1 DEF StockInv, StockTypes, ListedHasDraft, Ids
<1>3. StockTypes' /\ \A s \in Desks : Held(desk'[s], lst')
  BY <1>1 DEF StockInv, StockTypes
<1>4. QED
  BY <1>2, <1>3 DEF StockInv

LEMMA AtEbayStep ==
    ASSUME StockHolds, StockInv, NEW l \in Ids, NEW status \in {"published", "ended"},
           AtEbay(l, status)
    PROVE  StockInv'
<1>1. lst' = [lst EXCEPT ![l].status = status] /\ UNCHANGED <<row, byHand, desk, made>>
  BY DEF AtEbay
<1>2. l \in DOMAIN lst /\ lst[l] \in Sheet
  BY DEF Ids, StockInv, StockTypes
<1>3. PICK x \in Sheet : x = [lst[l] EXCEPT !.status = status] /\ Alike(x, lst[l])
  BY <1>2, Restated
<1>4. lst' = [lst EXCEPT ![l] = x]
  BY <1>1, <1>3
<1>5. lst' \in Seq(Sheet) /\ Kept(lst, lst')
  BY <1>2, <1>3, <1>4 DEF StockInv, StockTypes, Kept, Alike
<1>6. desk' \in [Desks -> Errand] /\ \A t \in Desks : Held(desk'[t], lst')
  BY <1>1, <1>5, HeldKept DEF StockInv, StockTypes
<1>7. made' \in Nat
  BY <1>1 DEF StockInv, StockTypes
<1>8. QED
  BY <1>1, <1>5, <1>6, <1>7, StockKept

LEMMA StockStep == StockHolds /\ StockInv /\ [StockNext]_stock => StockInv'
<1>1. SUFFICES ASSUME StockHolds, StockInv, [StockNext]_stock PROVE StockInv'
  OBVIOUS
<1>2. CASE UNCHANGED stock
  BY <1>1, <1>2 DEF stock, StockInv, StockTypes, ListedHasDraft, Ids
<1>3. ASSUME NEW s \in Desks, NEW ids \in SUBSET Ids \ {{}},
             \/ \E start \in Starts \cup {Never} : ListingsBulk(s, ids, start)
             \/ MarkListings(s, ids)
             \/ \E fmt \in Channels : ExportRead(s, fmt, ids)
      PROVE  StockInv'
  BY <1>1, <1>3, ListingsBulkStep, MarkListingsStep, ExportReadStep
<1>4. ASSUME NEW s \in Desks,
             \/ \E do \in {"list", "listed", "in_stock"}, ids \in SUBSET Rows \ {{}} : RowsBulk(s, do, ids)
             \/ \E r \in Rows, at \in Starts : Build(s, r, at)
             \/ \E slab \in BOOLEAN : BlankListing(s, slab)
      PROVE  StockInv'
  BY <1>1, <1>4, RowsBulkStep, BuildStep, BlankListingStep
<1>5. ASSUME NEW s \in Desks,
             \/ InsertListing(s) \/ MarkRow(s) \/ MarkByHand(s)
             \/ ScheduleNext(s) \/ ExportMark(s) \/ Stop(s)
      PROVE  StockInv'
  BY <1>1, <1>5, InsertListingStep, MarkRowStep, MarkByHandStep, ScheduleNextStep, ExportMarkStep, StopStep
<1>6. CASE \E r \in Rows : Sell(r)
  BY <1>1, <1>6, SellStep
<1>7. CASE \E l \in Ids, status \in {"published", "ended"} : AtEbay(l, status)
  BY <1>1, <1>7, AtEbayStep
<1>8. QED
  BY <1>1, <1>2, <1>3, <1>4, <1>5, <1>6, <1>7 DEF StockNext

\* The rows, the listings and the requests keep their types: a schedule's times are numbers,
\* and no request runs on a row or a listing that is not there.
THEOREM StockTypesHold == StockSpec => []StockTypes
<1>1. StockInv => StockTypes
  BY DEF StockInv
<1>2. StockInit => StockInv
  BY StockStarts, StockAssumption
<1>3. StockInv /\ [StockNext]_stock => StockInv'
  BY StockStep, StockAssumption
<1>4. QED
  BY <1>1, <1>2, <1>3, PTL DEF StockSpec

\* Whatever requests are interleaved and wherever one of them stops, a row shown as listed has
\* a listing or was marked by hand.
THEOREM ListedRowsHaveDrafts == StockSpec => []ListedHasDraft
<1>1. StockInv => ListedHasDraft
  BY DEF StockInv
<1>2. StockInit => StockInv
  BY StockStarts, StockAssumption
<1>3. StockInv /\ [StockNext]_stock => StockInv'
  BY StockStep, StockAssumption
<1>4. QED
  BY <1>1, <1>2, <1>3, PTL DEF StockSpec

\* A request with a file in hand gives it up by marking what was read for the file, or by
\* stopping; a mark changes drafts and scheduled listings only.
LEMMA ExportStep ==
    StockInv /\ StockNext =>
        \A s \in Desks : desk[s].pc = "exported" /\ desk'[s] # desk[s] =>
            \A l \in Ids : lst'[l].status # lst[l].status =>
                /\ lst[l].status \in {"draft", "scheduled"}
                /\ l \in desk[s].file \/ (l \in desk[s].ids /\ LeftOut(l, desk[s].do))
<1>1. SUFFICES ASSUME StockInv, StockNext, NEW s \in Desks, NEW l \in Ids,
                      desk[s].pc = "exported", desk'[s] # desk[s], lst'[l].status # lst[l].status
               PROVE  /\ lst[l].status \in {"draft", "scheduled"}
                      /\ l \in desk[s].file \/ (l \in desk[s].ids /\ LeftOut(l, desk[s].do))
  OBVIOUS
<1>2. \A t \in Desks : \A r : t # s /\ desk' = [desk EXCEPT ![t] = r] => desk'[s] = desk[s]
  BY DEF StockInv, StockTypes
<1>3. \A t \in Desks : \A r : ~Request(t, r)
  <2>1. ASSUME NEW t \in Desks, NEW r, Request(t, r) PROVE FALSE
    BY <1>1, <1>2, <2>1 DEF Request
  <2>2. QED
    BY <2>1
<1>4. \A t \in Desks : \A id : desk[t].pc # "exported" => ~Advance(t, id)
  <2>1. ASSUME NEW t \in Desks, NEW id, desk[t].pc # "exported", Advance(t, id) PROVE FALSE
    BY <1>1, <1>2, <2>1 DEF Advance
  <2>2. QED
    BY <2>1
<1>5. ASSUME NEW t \in Desks, ExportMark(t)
      PROVE  /\ lst[l].status \in {"draft", "scheduled"}
             /\ l \in desk[s].file \/ (l \in desk[s].ids /\ LeftOut(l, desk[s].do))
  <2>1. t = s
    BY <1>1, <1>2, <1>5 DEF ExportMark
  <2>2. l \in desk[s].ids /\ lst[l].status \in {"draft", "scheduled"}
    BY <1>1, <1>5, <2>1 DEF ExportMark, Exported
  <2>3. Held(desk[s], lst)
    BY <1>1 DEF StockInv
  <2>4. QED
    BY <1>1, <2>2, <2>3 DEF Held, LeftOut
<1>6. ASSUME NEW t \in Desks, Stop(t) PROVE FALSE
  BY <1>1, <1>6 DEF Stop
<1>7. ASSUME NEW t \in Desks, InsertListing(t) PROVE FALSE
  <2>1. PICK r : desk' = [desk EXCEPT ![t].pc = "mark", ![t].cur = r]
    BY <1>7 DEF InsertListing
  <2>2. t # s
    BY <1>1, <1>7 DEF InsertListing
  <2>3. QED
    BY <1>1, <2>1, <2>2 DEF StockInv, StockTypes
<1>8. ASSUME NEW t \in Desks, \/ MarkRow(t) \/ MarkByHand(t) \/ ScheduleNext(t) PROVE FALSE
  <2>1. desk[t].pc # "exported" /\ \E id : Advance(t, id)
    BY <1>8 DEF MarkRow, MarkByHand, ScheduleNext
  <2>2. QED
    BY <1>4, <2>1
<1>9. ASSUME NEW t \in Desks,
             \/ \E do \in {"list", "listed", "in_stock"}, ids \in SUBSET Rows \ {{}} : RowsBulk(t, do, ids)
             \/ \E r \in Rows, at \in Starts : Build(t, r, at)
             \/ \E slab \in BOOLEAN : BlankListing(t, slab)
             \/ \E ids \in SUBSET Ids \ {{}} :
                   \/ \E start \in Starts \cup {Never} : ListingsBulk(t, ids, start)
                   \/ MarkListings(t, ids)
                   \/ \E fmt \in Channels : ExportRead(t, fmt, ids)
      PROVE  FALSE
  <2>1. \E r : Request(t, r)
    BY <1>9 DEF RowsBulk, Build, BlankListing, ListingsBulk, MarkListings,
                ExportRead
  <2>2. QED
    BY <1>3, <2>1
<1>10. \A r \in Rows : ~Sell(r)
  BY <1>1 DEF Sell
<1>11. \A k \in Ids, status \in {"published", "ended"} : ~AtEbay(k, status)
  BY <1>1 DEF AtEbay
<1>12. QED
  BY <1>1, <1>5, <1>6, <1>7, <1>8, <1>9, <1>10, <1>11 DEF StockNext

\* What an export marks was read for it and was a draft or scheduled when it was marked,
\* whatever happened in between, and is in the file the seller got but for what the file leaves
\* out: a listing with a row behind it, and a slab of a TCGplayer export.
THEOREM ExportMarksTheFile == StockSpec => ExportTrue
<1>1. (StockInit => StockInv) /\ (StockInv /\ [StockNext]_stock => StockInv')
  BY StockStarts, StockStep, StockAssumption
<1>2. StockInv /\ [StockNext]_stock =>
         [\A s \in Desks : desk[s].pc = "exported" /\ desk'[s] # desk[s] =>
            \A l \in Ids : lst'[l].status # lst[l].status =>
                /\ lst[l].status \in {"draft", "scheduled"}
                /\ l \in desk[s].file \/ (l \in desk[s].ids /\ LeftOut(l, desk[s].do))]_stock
  BY ExportStep
<1>3. QED
  BY <1>1, <1>2, PTL DEF StockSpec, ExportTrue

-----------------------------------------------------------------------------
(* Titles: what is computed part by part.                                   *)

\* Induction over a set of numbers.
LEMMA Induct ==
    ASSUME NEW good, 0 \in good, \A n \in Nat : n \in good => n + 1 \in good
    PROVE  \A n \in Nat : n \in good
<1> DEFINE R == {ss \in Nat \X Nat : ss[1] < ss[2]}
           bad == {n \in Nat : n \notin good}
<1>1. IsWellFoundedOn(R, Nat)
  BY NatLessThanWellFounded DEF OpToRel
<1>2. CASE bad = {}
  BY <1>2
<1>3. CASE bad # {}
  <2>1. PICK n \in bad : \A m \in bad : ~ (<<m, n>> \in R)
    BY <1>1, <1>3, WFMin
  <2>2. n \in Nat /\ n # 0 /\ n \notin good
    OBVIOUS
  <2>3. n - 1 \in Nat /\ (n - 1) + 1 = n /\ <<n - 1, n>> \in R
    BY <2>2
  <2>4. n - 1 \in good
    BY <2>1, <2>3
  <2> QED
    BY <2>2, <2>3, <2>4
<1> QED
  BY <1>2, <1>3

\* From a first value and a step to the next, the values up to N.
StepsBy(f, h, base, N) == f[0] = base /\ \A n \in 1..N : f[n] = h[<<f[n - 1], n>>]

LEMMA Recurses ==
    ASSUME NEW S, NEW N \in Nat, NEW base \in S, NEW h \in [S \X (1..N) -> S]
    PROVE  \E f \in [0..N -> S] : StepsBy(f, h, base, N)
<1> DEFINE Upto(f, m) == f[0] = base /\ \A n \in 1..N : n <= m => f[n] = h[<<f[n - 1], n>>]
           some == {m \in Nat : m <= N => \E f \in [0..N -> S] : Upto(f, m)}
<1>1. 0 \in some
  <2>1. Upto([n \in 0..N |-> base], 0) /\ [n \in 0..N |-> base] \in [0..N -> S]
    OBVIOUS
  <2> QED
    BY <2>1
<1>2. ASSUME NEW m \in Nat, m \in some PROVE m + 1 \in some
  <2> SUFFICES ASSUME m + 1 <= N PROVE \E f \in [0..N -> S] : Upto(f, m + 1)
    OBVIOUS
  <2>1. PICK f \in [0..N -> S] : Upto(f, m)
    BY <1>2
  <2>2. PICK x \in S : x = h[<<f[m], m + 1>>]
    OBVIOUS
  <2>3. PICK g : g = [f EXCEPT ![m + 1] = x]
    OBVIOUS
  <2>4. /\ g \in [0..N -> S] /\ g[m + 1] = x
        /\ \A n \in 0..N : n # m + 1 => g[n] = f[n]
    BY <2>2, <2>3
  <2>5. ASSUME NEW n \in 1..N, n <= m + 1 PROVE g[n] = h[<<g[n - 1], n>>]
    <3>1. g[n - 1] = f[n - 1]
      BY <2>4, <2>5
    <3>2. CASE n = m + 1
      BY <2>2, <2>4, <3>1, <3>2
    <3>3. CASE n # m + 1
      BY <2>1, <2>4, <2>5, <3>1, <3>3
    <3> QED
      BY <3>2, <3>3
  <2>6. Upto(g, m + 1)
    BY <2>1, <2>4, <2>5
  <2> QED
    BY <2>4, <2>6
<1>3. N \in some
  <2> HIDE DEF some
  <2> QED
    BY <1>1, <1>2, Induct
<1> QED
  BY <1>3 DEF StepsBy

\* What is collected up to each place.
Collects(f, s, places) ==
    /\ f[0] = <<>>
    /\ \A n \in 1..Len(s) : f[n] = IF n \in places THEN Append(f[n - 1], s[n]) ELSE f[n - 1]

LEMMA ThoseIs ==
    ASSUME NEW S, NEW s \in Seq(S), NEW places
    PROVE  \E f : Collects(f, s, places) /\ Those(s, places) = f[Len(s)]
<1> DEFINE N == Len(s)
           Step(f, n) == IF n = 0 THEN <<>> ELSE IF n \in places THEN Append(f[n - 1], s[n]) ELSE f[n - 1]
           upto == CHOOSE f : f = [n \in 0..N |-> Step(f, n)]
           h == [e \in Seq(S) \X (1..N) |-> IF e[2] \in places THEN Append(e[1], s[e[2]]) ELSE e[1]]
<1>1. N \in Nat /\ \A n \in 1..N : s[n] \in S
  BY LenProperties, ElementOfSeq
<1>2. h \in [Seq(S) \X (1..N) -> Seq(S)]
  BY <1>1, AppendProperties
<1>3. PICK f \in [0..N -> Seq(S)] : f[0] = <<>> /\ \A n \in 1..N : f[n] = h[<<f[n - 1], n>>]
  <2>1. <<>> \in Seq(S)
    OBVIOUS
  <2> HIDE DEF h, N
  <2>2. \E f \in [0..N -> Seq(S)] : StepsBy(f, h, <<>>, N)
    BY <1>1, <1>2, <2>1, Recurses
  <2> QED
    BY <2>2 DEF StepsBy
<1>4. f = [n \in 0..N |-> Step(f, n)]
  <2>1. ASSUME NEW n \in 1..N PROVE f[n] = Step(f, n)
    <3>1. f[n - 1] \in Seq(S) /\ n # 0
      BY <1>1
    <3>2. h[<<f[n - 1], n>>] = IF n \in places THEN Append(f[n - 1], s[n]) ELSE f[n - 1]
      BY <3>1
    <3> QED
      BY <1>3, <3>1, <3>2
  <2>2. \A n \in 0..N : f[n] = Step(f, n)
    <3> HIDE DEF Step
    <3>1. f[0] = Step(f, 0)
      BY <1>3 DEF Step
    <3>2. \A n \in 0..N : n = 0 \/ n \in 1..N
      BY <1>1
    <3> QED
      BY <2>1, <3>1, <3>2
  <2> HIDE DEF Step
  <2> QED
    BY <1>3, <2>2
<1>5. upto = [n \in 0..N |-> Step(upto, n)]
  BY <1>4
<1>6. PICK g : g = upto
  OBVIOUS
<1>7. g = [n \in 0..N |-> Step(g, n)]
  BY <1>5, <1>6
<1>8. Collects(g, s, places)
  <2>1. \A n \in 0..N : g[n] = Step(g, n)
    <3> HIDE DEF Step
    <3> QED
      BY <1>7
  <2>2. 0 \in 0..N /\ \A n \in 1..N : n \in 0..N /\ n # 0
    BY <1>1
  <2> QED
    BY <2>1, <2>2 DEF Collects
<1>9. Those(s, places) = upto[N]
  BY DEF Those
<1> QED
  BY <1>6, <1>8, <1>9

\* What is collected is of the sequence's members, those at the places and no others.
FromPlaces(f, s, places, n) ==
    /\ \A j \in 1..Len(f[n]) : \E i \in 1..n : i \in places /\ s[i] = f[n][j]
    /\ \A i \in 1..n : i \in places => \E j \in 1..Len(f[n]) : f[n][j] = s[i]

LEMMA Appended ==
    ASSUME NEW S, NEW s \in Seq(S), NEW x \in S, NEW t, t = Append(s, x)
    PROVE  /\ t \in Seq(S) /\ Len(s) \in Nat /\ Len(t) = Len(s) + 1
           /\ t[Len(s) + 1] = x /\ \A j \in 1..Len(s) : t[j] = s[j]
  BY AppendProperties, LenProperties

LEMMA CollectedFrom ==
    ASSUME NEW S, NEW s \in Seq(S), NEW places, NEW f, Collects(f, s, places)
    PROVE  \A n \in 0..Len(s) : f[n] \in Seq(S) /\ FromPlaces(f, s, places, n)
<1> DEFINE N == Len(s)
           good == {n \in Nat : n <= N => f[n] \in Seq(S) /\ FromPlaces(f, s, places, n)}
<1>1. N \in Nat /\ \A n \in 1..N : s[n] \in S
  BY LenProperties, ElementOfSeq
<1>2. 0 \in good
  <2>1. f[0] = <<>> /\ <<>> \in Seq(S) /\ Len(<<>>) = 0
    BY DEF Collects
  <2>2. FromPlaces(f, s, places, 0)
    BY <2>1 DEF FromPlaces
  <2> QED
    BY <2>1, <2>2
<1>3. ASSUME NEW n \in Nat, n \in good PROVE n + 1 \in good
  <2> SUFFICES ASSUME n + 1 <= N
               PROVE  f[n + 1] \in Seq(S) /\ FromPlaces(f, s, places, n + 1)
    OBVIOUS
  <2>1. n + 1 \in 1..N /\ (n + 1) - 1 = n /\ f[n] \in Seq(S) /\ FromPlaces(f, s, places, n)
    BY <1>1, <1>3
  <2>2. f[n + 1] = IF n + 1 \in places THEN Append(f[n], s[n + 1]) ELSE f[n]
    BY <2>1 DEF Collects
  <2>3. CASE n + 1 \notin places
    BY <2>1, <2>2, <2>3 DEF FromPlaces
  <2>4. CASE n + 1 \in places
    <3>1. PICK a \in Seq(S) : a = f[n]
      BY <2>1
    <3>2. PICK b : b = f[n + 1]
      OBVIOUS
    <3>3. /\ b \in Seq(S) /\ Len(a) \in Nat /\ Len(b) = Len(a) + 1
          /\ b[Len(a) + 1] = s[n + 1] /\ \A j \in 1..Len(a) : b[j] = a[j]
      BY <1>1, <2>1, <2>2, <2>4, <3>1, <3>2, Appended
    <3>4. ASSUME NEW j \in 1..Len(b) PROVE \E i \in 1..(n + 1) : i \in places /\ s[i] = b[j]
      <4>1. CASE j = Len(a) + 1
        BY <2>4, <3>3, <4>1
      <4>2. CASE j # Len(a) + 1
        <5>1. j \in 1..Len(a)
          BY <3>3, <4>2
        <5>2. PICK i \in 1..n : i \in places /\ s[i] = a[j]
          BY <2>1, <3>1, <5>1 DEF FromPlaces
        <5> QED
          BY <3>3, <5>1, <5>2
      <4> QED
        BY <4>1, <4>2
    <3>5. ASSUME NEW i \in 1..(n + 1), i \in places PROVE \E j \in 1..Len(b) : b[j] = s[i]
      <4>1. CASE i = n + 1
        BY <3>3, <4>1
      <4>2. CASE i # n + 1
        <5>1. PICK j \in 1..Len(a) : a[j] = s[i]
          BY <2>1, <3>1, <3>5, <4>2 DEF FromPlaces
        <5> QED
          BY <3>3, <5>1
      <4> QED
        BY <4>1, <4>2
    <3> QED
      BY <3>2, <3>3, <3>4, <3>5 DEF FromPlaces
  <2> QED
    BY <2>3, <2>4
<1>4. \A n \in Nat : n \in good
  <2> HIDE DEF good
  <2> QED
    BY <1>2, <1>3, Induct
<1> QED
  BY <1>1, <1>4

\* All of them, when every place is one.
LEMMA CollectedAll ==
    ASSUME NEW S, NEW s \in Seq(S), NEW places, NEW f, Collects(f, s, places), 1..Len(s) \subseteq places
    PROVE  f[Len(s)] = s
<1> DEFINE N == Len(s)
           good == {n \in Nat : n <= N => Len(f[n]) = n /\ \A j \in 1..n : f[n][j] = s[j]}
<1>1. N \in Nat /\ \A n \in 1..N : s[n] \in S
  BY LenProperties, ElementOfSeq
<1>2. \A n \in 0..N : f[n] \in Seq(S)
  BY CollectedFrom
<1>3. 0 \in good
  BY DEF Collects
<1>4. ASSUME NEW n \in Nat, n \in good PROVE n + 1 \in good
  <2> SUFFICES ASSUME n + 1 <= N
               PROVE  Len(f[n + 1]) = n + 1 /\ \A j \in 1..(n + 1) : f[n + 1][j] = s[j]
    OBVIOUS
  <2>1. n + 1 \in 1..N /\ n \in 0..N /\ (n + 1) - 1 = n /\ n + 1 \in places
    BY <1>1
  <2>2. PICK a \in Seq(S) : a = f[n] /\ Len(a) = n /\ \A j \in 1..n : a[j] = s[j]
    BY <1>1, <1>2, <1>4, <2>1
  <2>3. PICK b : b = f[n + 1] /\ b = Append(a, s[n + 1])
    BY <2>1, <2>2 DEF Collects
  <2>4. /\ Len(b) = n + 1 /\ b[n + 1] = s[n + 1] /\ \A j \in 1..n : b[j] = a[j]
    BY <1>1, <2>1, <2>2, <2>3, Appended
  <2> QED
    BY <2>2, <2>3, <2>4
<1>5. N \in good
  <2> HIDE DEF good
  <2> QED
    BY <1>1, <1>3, <1>4, Induct
<1>6. PICK t \in Seq(S) : t = f[N] /\ Len(t) = N /\ \A j \in 1..N : t[j] = s[j]
  BY <1>1, <1>2, <1>5
<1> QED
  BY <1>6, SeqEqual

\* What is collected first stays in front.
LEMMA CollectedStays ==
    ASSUME NEW S, NEW s \in Seq(S), NEW places, NEW f, Collects(f, s, places), NEW m \in 0..Len(s)
    PROVE  \A n \in 0..Len(s) : m <= n => /\ Len(f[m]) <= Len(f[n])
                                          /\ \A j \in 1..Len(f[m]) : f[n][j] = f[m][j]
<1> DEFINE N == Len(s)
           good == {n \in Nat : n <= N /\ m <= n => /\ Len(f[m]) <= Len(f[n])
                                                    /\ \A j \in 1..Len(f[m]) : f[n][j] = f[m][j]}
<1>1. N \in Nat /\ (\A n \in 1..N : s[n] \in S) /\ m \in Nat
  BY LenProperties, ElementOfSeq
<1>2. \A n \in 0..N : f[n] \in Seq(S) /\ Len(f[n]) \in Nat
  BY CollectedFrom, LenProperties
<1>3. 0 \in good
  BY <1>1, <1>2
<1>4. ASSUME NEW n \in Nat, n \in good PROVE n + 1 \in good
  <2> SUFFICES ASSUME n + 1 <= N, m <= n + 1
               PROVE  Len(f[m]) <= Len(f[n + 1]) /\ \A j \in 1..Len(f[m]) : f[n + 1][j] = f[m][j]
    OBVIOUS
  <2>1. CASE m = n + 1
    BY <1>1, <1>2, <2>1
  <2>2. CASE m # n + 1
    <3>1. n + 1 \in 1..N /\ n \in 0..N /\ (n + 1) - 1 = n /\ m <= n /\ n <= N
      BY <1>1, <2>2
    <3>2. Len(f[m]) <= Len(f[n]) /\ \A j \in 1..Len(f[m]) : f[n][j] = f[m][j]
      BY <1>4, <3>1
    <3>3. PICK a \in Seq(S) : a = f[n]
      BY <1>2, <3>1
    <3>4. PICK b : b = f[n + 1] /\ (b = a \/ b = Append(a, s[n + 1]))
      BY <3>1, <3>3 DEF Collects
    <3>5. Len(a) <= Len(b) /\ \A j \in 1..Len(a) : b[j] = a[j]
      <4>1. CASE b = a
        BY <1>2, <3>1, <3>3, <4>1
      <4>2. CASE b = Append(a, s[n + 1])
        <5>1. s[n + 1] \in S
          BY <1>1, <3>1
        <5>2. Len(a) \in Nat /\ Len(b) = Len(a) + 1 /\ \A j \in 1..Len(a) : b[j] = a[j]
          BY <4>2, <5>1, Appended
        <5> QED
          BY <5>2
      <4> QED
        BY <3>4, <4>1, <4>2
    <3>6. Len(f[m]) \in Nat /\ Len(a) \in Nat /\ Len(b) \in Nat
      BY <1>1, <1>2, <3>1, <3>3, <3>4
    <3> QED
      BY <3>2, <3>3, <3>4, <3>5, <3>6
  <2> QED
    BY <2>1, <2>2
<1>5. \A n \in Nat : n \in good
  <2> HIDE DEF good
  <2> QED
    BY <1>3, <1>4, Induct
<1> QED
  BY <1>1, <1>5

\* Two sequences that agree at the same places have the same collected of them.
Agree(s, P, t, Q) ==
    /\ Len(t) = Len(s)
    /\ \A n \in 1..Len(s) : (n \in P <=> n \in Q) /\ (n \in P => t[n] = s[n])

LEMMA CollectedAgrees ==
    ASSUME NEW S, NEW s \in Seq(S), NEW t \in Seq(S), NEW P, NEW Q, Agree(s, P, t, Q),
           NEW f, Collects(f, s, P), NEW g, Collects(g, t, Q)
    PROVE  g[Len(t)] = f[Len(s)]
<1> DEFINE N == Len(s)
           good == {n \in Nat : n <= N => g[n] = f[n]}
<1>1. N \in Nat /\ Len(t) = N
  BY LenProperties DEF Agree
<1>2. 0 \in good
  BY DEF Collects
<1>3. ASSUME NEW n \in Nat, n \in good PROVE n + 1 \in good
  <2> SUFFICES ASSUME n + 1 <= N PROVE g[n + 1] = f[n + 1]
    OBVIOUS
  <2>1. n + 1 \in 1..N /\ (n + 1) - 1 = n /\ g[n] = f[n]
    BY <1>1, <1>3
  <2>2. /\ f[n + 1] = IF n + 1 \in P THEN Append(f[n], s[n + 1]) ELSE f[n]
        /\ g[n + 1] = IF n + 1 \in Q THEN Append(g[n], t[n + 1]) ELSE g[n]
    BY <1>1, <2>1 DEF Collects
  <2>3. (n + 1 \in P <=> n + 1 \in Q) /\ (n + 1 \in P => t[n + 1] = s[n + 1])
    BY <2>1 DEF Agree
  <2> QED
    BY <2>1, <2>2, <2>3
<1>4. \A n \in Nat : n \in good
  <2> HIDE DEF good
  <2> QED
    BY <1>2, <1>3, Induct
<1> QED
  BY <1>1, <1>4

\* One that was not collected may go.
Shorter(s, P, t, Q, i) ==
    /\ Len(t) = Len(s) - 1
    /\ \A n \in 1..Len(t) : LET m == IF n < i THEN n ELSE n + 1
                            IN  t[n] = s[m] /\ (n \in Q <=> m \in P)

LEMMA CollectedWithout ==
    ASSUME NEW S, NEW s \in Seq(S), NEW t \in Seq(S), NEW P, NEW Q, NEW i \in 1..Len(s), i \notin P,
           Shorter(s, P, t, Q, i), NEW f, Collects(f, s, P), NEW g, Collects(g, t, Q)
    PROVE  g[Len(t)] = f[Len(s)]
<1> DEFINE N == Len(t)
           good == {n \in Nat : n <= N => g[n] = f[IF n < i THEN n ELSE n + 1]}
<1>1. N \in Nat /\ Len(s) = N + 1 /\ i \in Nat /\ 1 <= i /\ i <= N + 1
  BY LenProperties DEF Shorter
<1>2. 0 \in good
  BY <1>1 DEF Collects
<1>3. ASSUME NEW n \in Nat, n \in good PROVE n + 1 \in good
  <2> SUFFICES ASSUME n + 1 <= N PROVE g[n + 1] = f[IF n + 1 < i THEN n + 1 ELSE n + 2]
    OBVIOUS
  <2>1. n + 1 \in 1..N /\ (n + 1) - 1 = n /\ g[n] = f[IF n < i THEN n ELSE n + 1]
    BY <1>1, <1>3
  <2>2. g[n + 1] = IF n + 1 \in Q THEN Append(g[n], t[n + 1]) ELSE g[n]
    BY <2>1 DEF Collects
  <2>3. PICK m : m = IF n + 1 < i THEN n + 1 ELSE n + 2
    OBVIOUS
  <2>4. /\ m \in 1..(N + 1) /\ m - 1 = IF n + 1 < i THEN n ELSE n + 1
        /\ t[n + 1] = s[m] /\ (n + 1 \in Q <=> m \in P)
    BY <1>1, <2>1, <2>3 DEF Shorter
  <2>5. f[m] = IF m \in P THEN Append(f[m - 1], s[m]) ELSE f[m - 1]
    BY <1>1, <2>4 DEF Collects
  <2>6. g[n] = f[m - 1]
    <3>1. CASE n + 1 = i
      <4>1. f[i] = f[i - 1] /\ i - 1 = n
        BY <1>1, <3>1 DEF Collects
      <4> QED
        BY <1>1, <2>1, <2>4, <3>1, <4>1
    <3>2. CASE n + 1 # i
      BY <1>1, <2>1, <2>4, <3>2
    <3> QED
      BY <3>1, <3>2
  <2> QED
    BY <2>2, <2>3, <2>4, <2>5, <2>6
<1>4. N \in good
  <2> HIDE DEF good
  <2> QED
    BY <1>1, <1>2, <1>3, Induct
<1>5. g[N] = f[IF N < i THEN N ELSE N + 1]
  BY <1>1, <1>4
<1>6. CASE i = N + 1
  <2>1. f[i] = f[i - 1] /\ i - 1 = N
    BY <1>1, <1>6 DEF Collects
  <2> QED
    BY <1>1, <1>5, <1>6, <2>1
<1>7. CASE i # N + 1
  BY <1>1, <1>5, <1>7
<1> QED
  BY <1>6, <1>7

\* The length of parts joined is a number.
LEMMA JoinedIs ==
    ASSUME NEW s \in Seq(PartRec)
    PROVE  Joined(s) \in Nat
<1> DEFINE N == Len(s)
           more(c, n) == (IF n = 1 THEN 0 ELSE c + 1) + s[n].len
           Step(f, n) == IF n = 0 THEN 0 ELSE (IF n = 1 THEN 0 ELSE f[n - 1] + 1) + s[n].len
           chars == CHOOSE f : f = [n \in 0..N |-> Step(f, n)]
           h == [e \in Nat \X (1..N) |-> more(e[1], e[2])]
<1>1. N \in Nat /\ \A n \in 1..N : s[n].len \in Nat
  <2>1. N \in Nat /\ \A n \in 1..N : s[n] \in PartRec
    BY LenProperties, ElementOfSeq
  <2> QED
    BY <2>1 DEF PartRec
<1>2. h \in [Nat \X (1..N) -> Nat]
  BY <1>1
<1>3. PICK f \in [0..N -> Nat] : f[0] = 0 /\ \A n \in 1..N : f[n] = h[<<f[n - 1], n>>]
  <2>1. 0 \in Nat
    OBVIOUS
  <2> HIDE DEF h, N
  <2>2. \E f \in [0..N -> Nat] : StepsBy(f, h, 0, N)
    BY <1>1, <1>2, <2>1, Recurses
  <2> QED
    BY <2>2 DEF StepsBy
<1>4. f = [n \in 0..N |-> Step(f, n)]
  <2>1. ASSUME NEW n \in 1..N PROVE f[n] = Step(f, n)
    <3>1. f[n - 1] \in Nat /\ n # 0
      BY <1>1
    <3>2. h[<<f[n - 1], n>>] = more(f[n - 1], n)
      BY <3>1
    <3> QED
      BY <1>3, <3>1, <3>2
  <2>2. f[0] = Step(f, 0) /\ \A n \in 0..N : n = 0 \/ n \in 1..N
    BY <1>1, <1>3
  <2>3. \A n \in 0..N : f[n] = Step(f, n)
    <3> HIDE DEF Step
    <3> QED
      BY <2>1, <2>2
  <2> HIDE DEF Step
  <2> QED
    BY <1>3, <2>3
<1>5. PICK g : g = chars
  OBVIOUS
<1>6. g = [n \in 0..N |-> Step(g, n)]
  BY <1>4, <1>5
<1>7. \A n \in 0..N : g[n] = Step(g, n)
  <2> HIDE DEF Step
  <2> QED
    BY <1>6
<1> DEFINE good == {n \in Nat : n <= N => g[n] \in Nat}
<1>8. 0 \in good
  BY <1>1, <1>7
<1>9. ASSUME NEW n \in Nat, n \in good PROVE n + 1 \in good
  <2> SUFFICES ASSUME n + 1 <= N PROVE g[n + 1] \in Nat
    OBVIOUS
  <2>1. g[n] \in Nat /\ n + 1 \in 1..N /\ n + 1 \in 0..N /\ (n + 1) - 1 = n
    BY <1>1, <1>9
  <2>2. g[n + 1] = (IF n + 1 = 1 THEN 0 ELSE g[n] + 1) + s[n + 1].len
    BY <1>7, <2>1
  <2> QED
    BY <1>1, <2>1, <2>2
<1>10. N \in good
  <2> HIDE DEF good
  <2> QED
    BY <1>1, <1>8, <1>9, Induct
<1>11. Joined(s) = chars[N]
  BY DEF Joined
<1> QED
  BY <1>1, <1>5, <1>10, <1>11

Positive(s) == \A i \in 1..Len(s) : s[i].len > 0
Holds(s, x) == \E j \in 1..Len(s) : s[j] = x

\* The parts that say something.
LEMMA SaidIs ==
    ASSUME NEW s \in Seq(PartRec)
    PROVE  /\ Said(s) \in Seq(PartRec) /\ Positive(Said(s))
           /\ \A i \in 1..Len(s) : s[i].len > 0 => Holds(Said(s), s[i])
           /\ Positive(s) => Said(s) = s
<1> DEFINE places == {i \in DOMAIN s : s[i].len > 0}
<1>1. Len(s) \in Nat /\ DOMAIN s = 1..Len(s)
  BY LenProperties
<1>2. PICK f : Collects(f, s, places) /\ Those(s, places) = f[Len(s)]
  BY ThoseIs
<1>3. PICK t : t = f[Len(s)] /\ t = Said(s)
  BY <1>2 DEF Said
<1>4. t \in Seq(PartRec) /\ FromPlaces(f, s, places, Len(s))
  <2> HIDE DEF places
  <2>1. \A n \in 0..Len(s) : f[n] \in Seq(PartRec) /\ FromPlaces(f, s, places, n)
    BY <1>2, CollectedFrom
  <2>2. Len(s) \in 0..Len(s)
    BY <1>1
  <2>3. f[Len(s)] \in Seq(PartRec) /\ FromPlaces(f, s, places, Len(s))
    BY <2>1, <2>2
  <2> QED
    BY <1>3, <2>3
<1>5. Positive(t) /\ \A i \in 1..Len(s) : s[i].len > 0 => Holds(t, s[i])
  BY <1>1, <1>3, <1>4 DEF FromPlaces, Positive, Holds
<1>6. ASSUME Positive(s) PROVE t = s
  <2>1. 1..Len(s) \subseteq places
    BY <1>1, <1>6 DEF Positive
  <2> HIDE DEF places
  <2> QED
    BY <1>2, <1>3, <2>1, CollectedAll
<1> QED
  BY <1>3, <1>4, <1>5, <1>6

\* The parts never dropped.
LEMMA AnchoredIs ==
    ASSUME NEW s \in Seq(PartRec)
    PROVE  /\ Anchored(s) \in Seq(PartRec)
           /\ \A j \in 1..Len(Anchored(s)) : \E i \in 1..Len(s) : s[i] = Anchored(s)[j]
           /\ (\A i \in 1..Len(s) : s[i].k \in NeverDrop) => Anchored(s) = s
<1> DEFINE places == {i \in DOMAIN s : s[i].k \in NeverDrop}
<1>1. Len(s) \in Nat /\ DOMAIN s = 1..Len(s)
  BY LenProperties
<1>2. PICK f : Collects(f, s, places) /\ Those(s, places) = f[Len(s)]
  BY ThoseIs
<1>3. PICK t : t = f[Len(s)] /\ t = Anchored(s)
  BY <1>2 DEF Anchored
<1>4. t \in Seq(PartRec) /\ FromPlaces(f, s, places, Len(s))
  <2> HIDE DEF places
  <2>1. \A n \in 0..Len(s) : f[n] \in Seq(PartRec) /\ FromPlaces(f, s, places, n)
    BY <1>2, CollectedFrom
  <2>2. Len(s) \in 0..Len(s)
    BY <1>1
  <2>3. f[Len(s)] \in Seq(PartRec) /\ FromPlaces(f, s, places, Len(s))
    BY <2>1, <2>2
  <2> QED
    BY <1>3, <2>3
<1>5. \A j \in 1..Len(t) : \E i \in 1..Len(s) : s[i] = t[j]
  BY <1>3, <1>4 DEF FromPlaces
<1>6. ASSUME \A i \in 1..Len(s) : s[i].k \in NeverDrop PROVE t = s
  <2>1. 1..Len(s) \subseteq places
    BY <1>1, <1>6
  <2> HIDE DEF places
  <2> QED
    BY <1>2, <1>3, <2>1, CollectedAll
<1> QED
  BY <1>3, <1>4, <1>5, <1>6

\* The same anchored parts, whatever becomes of the others.
LEMMA AnchoredAgrees ==
    ASSUME NEW s \in Seq(PartRec), NEW t \in Seq(PartRec), Len(t) = Len(s),
           \A n \in 1..Len(s) : t[n].k = s[n].k /\ (s[n].k \in NeverDrop => t[n] = s[n])
    PROVE  Anchored(t) = Anchored(s)
<1> DEFINE P == {i \in DOMAIN s : s[i].k \in NeverDrop}
           Q == {i \in DOMAIN t : t[i].k \in NeverDrop}
<1>1. Len(s) \in Nat /\ DOMAIN s = 1..Len(s) /\ DOMAIN t = 1..Len(t)
  BY LenProperties
<1>2. PICK f : Collects(f, s, P) /\ Those(s, P) = f[Len(s)]
  BY ThoseIs
<1>3. PICK g : Collects(g, t, Q) /\ Those(t, Q) = g[Len(t)]
  BY ThoseIs
<1>4. Agree(s, P, t, Q)
  BY <1>1 DEF Agree
<1>5. g[Len(t)] = f[Len(s)]
  <2> HIDE DEF P, Q
  <2> QED
    BY <1>2, <1>3, <1>4, CollectedAgrees
<1> QED
  BY <1>2, <1>3, <1>5 DEF Anchored

LEMMA AnchoredWithout ==
    ASSUME NEW s \in Seq(PartRec), NEW t \in Seq(PartRec), NEW i \in 1..Len(s), s[i].k \notin NeverDrop,
           Len(t) = Len(s) - 1, \A n \in 1..Len(t) : t[n] = s[IF n < i THEN n ELSE n + 1]
    PROVE  Anchored(t) = Anchored(s)
<1> DEFINE P == {n \in DOMAIN s : s[n].k \in NeverDrop}
           Q == {n \in DOMAIN t : t[n].k \in NeverDrop}
<1>1. Len(s) \in Nat /\ DOMAIN s = 1..Len(s) /\ DOMAIN t = 1..Len(t)
  BY LenProperties
<1>2. PICK f : Collects(f, s, P) /\ Those(s, P) = f[Len(s)]
  BY ThoseIs
<1>3. PICK g : Collects(g, t, Q) /\ Those(t, Q) = g[Len(t)]
  BY ThoseIs
<1>4. Shorter(s, P, t, Q, i) /\ i \notin P
  BY <1>1 DEF Shorter
<1>5. g[Len(t)] = f[Len(s)]
  <2> HIDE DEF P, Q
  <2> QED
    BY <1>2, <1>3, <1>4, CollectedWithout
<1> QED
  BY <1>2, <1>3, <1>5 DEF Anchored

\* What comes first and says something comes first in what is said.
LEMMA SaidFirst ==
    ASSUME NEW a \in Seq(PartRec), NEW b \in Seq(PartRec), Positive(a)
    PROVE  /\ Len(a) <= Len(Said(a \o b))
           /\ \A j \in 1..Len(a) : Said(a \o b)[j] = a[j]
<1>1. PICK s : s = a \o b
  OBVIOUS
<1>2. /\ s \in Seq(PartRec) /\ Len(a) \in Nat /\ Len(b) \in Nat /\ Len(s) = Len(a) + Len(b)
      /\ \A n \in 1..Len(a) : s[n] = a[n]
  BY <1>1, ConcatProperties, LenProperties
<1> DEFINE places == {i \in DOMAIN s : s[i].len > 0}
<1>3. DOMAIN s = 1..Len(s)
  BY <1>2, LenProperties
<1>4. PICK f : Collects(f, s, places) /\ Those(s, places) = f[Len(s)]
  BY <1>2, ThoseIs
<1>5. 1..Len(a) \subseteq places
  BY <1>2, <1>3 DEF Positive
<1> HIDE DEF places
<1>6. Collects(f, a, places)
  BY <1>2, <1>4 DEF Collects
<1>7. f[Len(a)] = a
  BY <1>5, <1>6, CollectedAll
<1>8. Len(a) \in 0..Len(s) /\ Len(s) \in 0..Len(s) /\ Len(a) <= Len(s)
  BY <1>2
<1>9. Len(a) <= Len(f[Len(s)]) /\ \A j \in 1..Len(a) : f[Len(s)][j] = a[j]
  <2>1. PICK m \in 0..Len(s) : m = Len(a)
    BY <1>8
  <2>2. \A n \in 0..Len(s) : m <= n => /\ Len(f[m]) <= Len(f[n])
                                         /\ \A j \in 1..Len(f[m]) : f[n][j] = f[m][j]
    <3>1. s \in Seq(PartRec) /\ Collects(f, s, places)
      BY <1>2, <1>4
    <3> QED
      BY <3>1, CollectedStays
  <2>3. PICK t : t = f[Len(s)]
    OBVIOUS
  <2>4. f[m] = a /\ m <= Len(s) /\ Len(s) \in 0..Len(s)
    BY <1>7, <1>8, <2>1
  <2>5. Len(a) <= Len(t) /\ \A j \in 1..Len(a) : t[j] = a[j]
    BY <2>2, <2>3, <2>4
  <2> QED
    BY <2>3, <2>5
<1>10. Said(s) = f[Len(s)]
  BY <1>4 DEF Said, places
<1> QED
  BY <1>1, <1>9, <1>10

\* A set of numbers up to N has a greatest one.
LEMMA Greatest ==
    ASSUME NEW N \in Nat, NEW T, T \subseteq 0..N, T # {}
    PROVE  Max(T) \in T /\ \A n \in T : n <= Max(T)
<1> DEFINE good == {m \in Nat : (\E n \in T : n <= m) => \E x \in T : x <= m /\ \A y \in T : y <= m => y <= x}
<1>1. 0 \in good
  OBVIOUS
<1>2. ASSUME NEW m \in Nat, m \in good PROVE m + 1 \in good
  <2> SUFFICES ASSUME NEW n \in T, n <= m + 1
               PROVE  \E x \in T : x <= m + 1 /\ \A y \in T : y <= m + 1 => y <= x
    OBVIOUS
  <2>1. CASE m + 1 \in T
    BY <2>1
  <2>2. CASE m + 1 \notin T
    <3>1. \A y \in T : y \in Nat /\ (y <= m + 1 => y <= m)
      BY <2>2
    <3>2. PICK x \in T : x <= m /\ \A y \in T : y <= m => y <= x
      BY <1>2, <3>1
    <3> QED
      BY <3>1, <3>2
  <2> QED
    BY <2>1, <2>2
<1>3. N \in good
  <2> HIDE DEF good
  <2> QED
    BY <1>1, <1>2, Induct
<1>4. \E x \in T : \A y \in T : x >= y
  <2>1. \A y \in T : y \in Nat /\ y <= N
    OBVIOUS
  <2>2. PICK x \in T : \A y \in T : y <= N => y <= x
    BY <1>3, <2>1
  <2> QED
    BY <2>1, <2>2
<1> QED
  BY <1>4 DEF Max

\* A cut leaves whole every first part that fits.
LEMMA WholeHolds ==
    ASSUME Budget \in Nat, NEW s \in Seq(PartRec), NEW n \in 0..Len(Said(s)),
           Joined(SubSeq(Said(s), 1, n)) <= Budget
    PROVE  Whole(s) \in Seq(PartRec) /\ \A j \in 1..n : Holds(Whole(s), Said(s)[j])
<1>1. PICK t \in Seq(PartRec) : t = Said(s)
  BY SaidIs
<1>2. Len(t) \in Nat /\ n \in 0..Len(t) /\ \A i \in 1..Len(t) : t[i] \in PartRec
  BY <1>1, LenProperties, ElementOfSeq
<1> DEFINE fits == {i \in 0..Len(t) : Joined(SubSeq(t, 1, i)) <= Budget}
<1>3. n \in fits
  BY <1>1, <1>2
<1>4. PICK m : m = Max(fits)
  OBVIOUS
<1>5. m \in 0..Len(t) /\ n <= m
  <2>1. fits \subseteq 0..Len(t)
    OBVIOUS
  <2> HIDE DEF fits
  <2> QED
    BY <1>2, <1>3, <1>4, <2>1, Greatest
<1>6. PICK w : w = SubSeq(t, 1, m)
  OBVIOUS
<1>7. w \in Seq(PartRec) /\ Len(w) = m /\ \A j \in 1..m : w[j] = t[j]
  <2>1. m \in Int /\ 1 \in Int /\ \A i \in 1..m : t[i] \in PartRec
    BY <1>2, <1>5
  <2> QED
    BY <1>5, <1>6, <2>1, SubSeqProperties
<1>8. Whole(s) = w
  BY <1>1, <1>4, <1>6 DEF Whole
<1>9. \A j \in 1..n : Holds(w, t[j])
  BY <1>2, <1>5, <1>7 DEF Holds
<1> QED
  BY <1>1, <1>7, <1>8, <1>9

LEMMA OneWithout ==
    ASSUME NEW S, NEW s \in Seq(S), NEW k \in 1..Len(s)
    PROVE  /\ RemoveAt(s, k) \in Seq(S) /\ Len(RemoveAt(s, k)) = Len(s) - 1
           /\ \A i \in 1..(Len(s) - 1) : RemoveAt(s, k)[i] = s[IF i < k THEN i ELSE i + 1]
<1>0. PICK rest : rest = RemoveAt(s, k)
  OBVIOUS
<1>1. PICK n \in Nat : n = Len(s)
  OBVIOUS
<1>2. k \in Nat /\ 1 <= k /\ k <= n
  BY <1>1
<1>3. PICK a : a = SubSeq(s, 1, k - 1)
  OBVIOUS
<1>4. PICK b : b = SubSeq(s, k + 1, Len(s))
  OBVIOUS
<1>5. a \in Seq(S) /\ Len(a) = k - 1
  BY <1>3
<1>6. \A i \in 1..(k - 1) : a[i] = s[i]
  BY <1>3
<1>7. b \in Seq(S) /\ Len(b) = n - k
  BY <1>1, <1>2, <1>4
<1>8. \A i \in 1..(n - k) : b[i] = s[i + k]
  BY <1>1, <1>2, <1>4
<1>9. rest = a \o b
  BY <1>0, <1>3, <1>4 DEF RemoveAt
<1>10. /\ a \o b \in Seq(S) /\ Len(a \o b) = Len(a) + Len(b)
       /\ \A i \in 1..(Len(a) + Len(b)) : (a \o b)[i] = IF i <= Len(a) THEN a[i] ELSE b[i - Len(a)]
  BY <1>5, <1>7, ConcatProperties, Zenon
<1>11. rest \in Seq(S) /\ Len(rest) = Len(a) + Len(b)
  BY <1>9, <1>10, Zenon
<1>12. \A i \in 1..(Len(a) + Len(b)) : rest[i] = IF i <= Len(a) THEN a[i] ELSE b[i - Len(a)]
  BY <1>9, <1>10, Zenon
<1>13. Len(a) + Len(b) = n - 1
  BY <1>1, <1>2, <1>5, <1>7
<1>14. \A i \in 1..(n - 1) : rest[i] = s[IF i < k THEN i ELSE i + 1]
  <2> TAKE i \in 1..(n - 1)
  <2>1. CASE i < k
    BY <1>2, <1>5, <1>6, <1>12, <1>13, <2>1
  <2>2. CASE ~ (i < k)
    <3>1. rest[i] = b[i - (k - 1)] /\ i - (k - 1) \in 1..(n - k)
      BY <1>1, <1>2, <1>5, <1>12, <1>13, <2>2
    <3>2. b[i - (k - 1)] = s[(i - (k - 1)) + k] /\ (i - (k - 1)) + k = i + 1
      BY <1>1, <1>2, <1>8, <3>1
    <3> QED
      BY <2>2, <3>1, <3>2
  <2> QED
    BY <2>1, <2>2
<1> QED
  BY <1>0, <1>1, <1>11, <1>13, <1>14

LEMMA Least ==
    ASSUME NEW T, T \subseteq Nat, T # {}
    PROVE  Min(T) \in T
<1> DEFINE R == {ss \in Nat \X Nat : ss[1] < ss[2]}
<1>1. IsWellFoundedOn(R, Nat)
  BY NatLessThanWellFounded DEF OpToRel
<1>2. PICK n \in T : \A m \in T : ~ (<<m, n>> \in R)
  BY <1>1, WFMin
<1>3. ASSUME NEW m \in T PROVE n <= m
  <2>1. n \in Nat /\ m \in Nat
    OBVIOUS
  <2>2. m < n => <<m, n>> \in R
    BY <2>1
  <2> QED
    BY <1>2, <2>1, <2>2
<1> QED
  BY <1>3 DEF Min

-----------------------------------------------------------------------------
(* A title says its name and number.                                        *)

TitleKinds == {"structure", "builtin"}
AllFits == (\A i \in 1..Len(anchored) : Holds(blocks, anchored[i])) /\ Length(blocks) <= Budget
ComesFirst == \E rest \in Seq(PartRec) : blocks = anchored \o rest

TitleTypes == way \in TitleKinds /\ pc # "done" =>
                  blocks \in Seq(PartRec) /\ tail \in Seq(PartRec)
AnchoredTyped == way \in TitleKinds => anchored \in Seq(PartRec) /\ Positive(anchored)
FaceMeasured == pc # "idle" => Measured(face)
Stages ==
    /\ pc \in {"structure", "drop"} => way = "structure" /\ anchored = Anchored(blocks)
    /\ pc = "structure" => Positive(blocks)
    /\ pc = "builtin" => way = "builtin" /\ anchored = NameAndNumber
    /\ pc = "cut" /\ way \in TitleKinds => AllFits \/ ComesFirst
Begun == pc \in {"idle", "picked"} => way = "none"

TitleInv == TitleTypes /\ AnchoredTyped /\ FaceMeasured /\ Stages /\ Begun /\ NameKept

LEMMA TitleInit == TitlesInit => TitleInv
  BY DEF TitlesInit, TitleInv, TitleTypes, AnchoredTyped, FaceMeasured, Stages, Begun, TitleKinds,
         NameKept

LEMMA PickKeeps ==
    ASSUME TitleHolds, TitleInv, NEW p \in Printings, NEW c \in Copies, PickCopy(p, c)
    PROVE  TitleInv'
  BY DEF TitleHolds, PickCopy, TitleInv, TitleTypes, AnchoredTyped, FaceMeasured, Stages, Begun, TitleKinds,
         NameKept, Anchored

\* A name and a number.
LEMMA NameAndNumberIs ==
    ASSUME Measured(face)
    PROVE  NameAndNumber \in Seq(PartRec) /\ Positive(NameAndNumber)
<1>1. "name" \in Fields /\ "number" \in Fields
  BY DEF Fields, Rank
<1>2. Part("name", face.name) \in PartRec /\ Part("number", face.number) \in PartRec
  BY <1>1 DEF Measured, Part, PartRec, Fields
<1>3. PICK s : s = <<Part("name", face.name), Part("number", face.number)>>
  OBVIOUS
<1>4. s \in Seq(PartRec)
  BY <1>2, <1>3
<1> QED
  BY <1>3, <1>4, SaidIs DEF NameAndNumber

\* What a structure's blocks say of the card.
LEMMA BlocksAre ==
    ASSUME Measured(face), NEW b \in Seq(PartRec)
    PROVE  [i \in DOMAIN b |-> IF b[i].k = "text" THEN b[i]
                               ELSE Part(b[i].k, TokenValue(b[i].k, face))] \in Seq(PartRec)
<1>1. Len(b) \in Nat /\ DOMAIN b = 1..Len(b) /\ \A i \in 1..Len(b) : b[i] \in PartRec
  BY LenProperties, ElementOfSeq
<1>2. ASSUME NEW i \in 1..Len(b)
      PROVE  (IF b[i].k = "text" THEN b[i] ELSE Part(b[i].k, TokenValue(b[i].k, face))) \in PartRec
  <2>1. b[i].k \in DOMAIN Rank /\ b[i] \in PartRec
    BY <1>1 DEF PartRec
  <2>2. CASE b[i].k # "text"
    <3>1. b[i].k \in Fields /\ "condition" \in Fields /\ "language" \in Fields
      BY <2>1, <2>2 DEF Fields, Rank
    <3>2. face[b[i].k] \in Nat /\ face.condition \in Nat /\ face.language \in Nat
      BY <3>1 DEF Measured
    <3>3. TokenValue(b[i].k, face) \in Nat
      BY <3>2 DEF TokenValue
    <3> QED
      BY <2>1, <2>2, <3>3 DEF Part, PartRec
  <2> QED
    BY <2>1, <2>2
<1>3. PICK t : t = [i \in 1..Len(b) |-> IF b[i].k = "text" THEN b[i]
                               ELSE Part(b[i].k, TokenValue(b[i].k, face))]
  OBVIOUS
<1>4. t \in [1..Len(b) -> PartRec]
  BY <1>2, <1>3
<1> QED
  BY <1>1, <1>3, <1>4, SeqDef

\* A title that is cut as it is, whatever way it came.
LEMMA AsIsKeeps ==
    ASSUME TitleInv, NEW how, how \notin TitleKinds, NEW parts, Begin("cut", how, parts, <<>>)
    PROVE  TitleInv'
  BY DEF Begin, TitleInv, TitleTypes, AnchoredTyped, FaceMeasured, Stages, Begun, TitleKinds,
         NameKept

LEMMA StructuredKeeps ==
    ASSUME TitleHolds, TitleInv, NEW st \in Structures, Structured(st)
    PROVE  TitleInv'
<1>1. PICK parts : parts = [i \in DOMAIN st.blocks |->
                   IF st.blocks[i].k = "text" THEN st.blocks[i]
                   ELSE Part(st.blocks[i].k, TokenValue(st.blocks[i].k, face))]
  OBVIOUS
<1>2. pc = "picked" /\ Measured(face) /\ st.blocks \in Seq(PartRec) /\ st.optimize \in BOOLEAN
  BY DEF Structured, Begin, TitleInv, FaceMeasured, TitleHolds
<1>3. parts \in Seq(PartRec)
  BY <1>1, <1>2, BlocksAre
<1>4. PICK said : said = Said(parts)
  OBVIOUS
<1>5. said \in Seq(PartRec) /\ Positive(said)
  BY <1>3, <1>4, SaidIs
<1>6. Begin(IF st.optimize THEN "structure" ELSE "cut",
                  IF st.optimize THEN "structure" ELSE "as is", said, <<>>)
  BY <1>1, <1>4 DEF Structured
<1>7. CASE st.optimize = FALSE
  <2>1. Begin("cut", "as is", said, <<>>) /\ "as is" \notin TitleKinds
    BY <1>6, <1>7 DEF TitleKinds
  <2> QED
    BY <2>1, AsIsKeeps
<1>8. CASE st.optimize = TRUE
  <2>1. Begin("structure", "structure", said, <<>>)
    BY <1>6, <1>8
  <2>2. /\ pc' = "structure" /\ way' = "structure" /\ blocks' = said /\ tail' = <<>>
        /\ anchored' = Anchored(said) /\ face' = face
    BY <2>1 DEF Begin
  <2>3. PICK a : a = Anchored(said)
    OBVIOUS
  <2>4. a \in Seq(PartRec) /\ Positive(a)
    <3>1. a \in Seq(PartRec) /\ \A j \in 1..Len(a) : \E i \in 1..Len(said) : said[i] = a[j]
      BY <1>5, <2>3, AnchoredIs
    <3> QED
      BY <1>5, <3>1 DEF Positive
  <2>5. TitleTypes' /\ AnchoredTyped'
    BY <1>5, <2>2, <2>3, <2>4 DEF TitleTypes, AnchoredTyped, TitleKinds
  <2>6. FaceMeasured'
    BY <1>2, <2>2 DEF FaceMeasured
  <2>7. Stages'
    BY <1>5, <2>2 DEF Stages, Anchored, NeverDrop, Those
  <2>8. Begun' /\ NameKept'
    BY <2>2 DEF Begun, NameKept
  <2> QED
    BY <2>5, <2>6, <2>7, <2>8 DEF TitleInv
<1> QED
  BY <1>2, <1>7, <1>8

LEMMA BuiltInKeeps ==
    ASSUME TitleHolds, TitleInv, BuiltIn
    PROVE  TitleInv'
<1>1. pc = "picked" /\ Measured(face)
  BY DEF BuiltIn, Begin, TitleInv, FaceMeasured
<1>2. \A k \in Fields : Part(k, face[k]) \in PartRec /\ Part(k, 0) \in PartRec
  BY <1>1 DEF Measured, Part, PartRec, Fields
<1>3. {"year", "game", "setcode", "set", "rarity", "finish", "grade", "condition", "language"} \subseteq Fields
  BY DEF Fields, Rank
<1>4. PICK r : r = Part("rarity", IF face.finishsays THEN 0 ELSE face.rarityabbr)
  OBVIOUS
<1>5. r \in PartRec
  <2>1. r.len \in {0, face.rarityabbr}
    BY <1>4 DEF Part
  <2> QED
    BY <1>1, <1>3, <1>4 DEF Part, PartRec, Measured, Fields
<1>6. PICK front : front = <<Part("year", face.year), Part("game", face.game),
            IF face.setcode > 0 THEN Part("setcode", face.setcode) ELSE Part("set", face.set)>>
  OBVIOUS
<1>7. front \in Seq(PartRec)
  BY <1>2, <1>3, <1>6
<1>8. PICK mid : mid = <<r, Part("finish", face.finish)>>
  OBVIOUS
<1>9. mid \in Seq(PartRec)
  BY <1>2, <1>3, <1>5, <1>8
<1>10. PICK said : said = Said(mid)
  OBVIOUS
<1>11. said \in Seq(PartRec)
  BY <1>9, <1>10, SaidIs
<1>12. PICK copy : copy = <<IF face.grade > 0 THEN Part("grade", face.grade)
                            ELSE Part("condition", face.condition)>>
  OBVIOUS
<1>13. copy \in Seq(PartRec)
  BY <1>2, <1>3, <1>12
<1>14. PICK lang : lang = IF face.gamesays THEN <<>> ELSE <<Part("language", face.language)>>
  OBVIOUS
<1>15. lang \in Seq(PartRec)
  BY <1>2, <1>3, <1>14
<1>16. PICK after : after = (said \o copy) \o lang
  OBVIOUS
<1>17. after \in Seq(PartRec)
  BY <1>11, <1>13, <1>15, <1>16, ConcatProperties
<1>18. Begin("builtin", "builtin", front, after)
  BY <1>4, <1>6, <1>8, <1>10, <1>12, <1>14, <1>16 DEF BuiltIn
<1>19. /\ pc' = "builtin" /\ way' = "builtin" /\ blocks' = front /\ tail' = after
       /\ anchored' = NameAndNumber /\ face' = face
  BY <1>18 DEF Begin
<1>20. TitleTypes' /\ AnchoredTyped'
  BY <1>1, <1>7, <1>17, <1>19, NameAndNumberIs DEF TitleTypes, AnchoredTyped
<1>21. FaceMeasured' /\ Begun' /\ NameKept'
  BY <1>1, <1>19 DEF FaceMeasured, Begun, NameKept
<1>22. Stages'
  BY <1>19 DEF Stages, NameAndNumber
<1> QED
  BY <1>20, <1>21, <1>22 DEF TitleInv

LEMMA LengthIs ==
    ASSUME NEW s \in Seq(PartRec)
    PROVE  Length(s) \in Nat
<1>1. PICK t \in Seq(PartRec) : t = Said(s)
  BY SaidIs
<1> QED
  BY <1>1, JoinedIs DEF Length

\* Blocks within the budget hold all that is anchored in them.
LEMMA FittingHold ==
    ASSUME NEW s \in Seq(PartRec), NEW j \in 1..Len(Anchored(s))
    PROVE  Holds(s, Anchored(s)[j])
  BY AnchoredIs DEF Holds

\* The blocks of a structure, a step later, still have the same anchored ones.
LEMMA SameAnchored ==
    ASSUME TitleHolds, TitleInv, way = "structure", way' = way, tail' = tail, anchored' = anchored, face' = face,
           pc \in {"structure", "drop"}, pc' \in {"drop", "cut"},
           blocks' \in Seq(PartRec), Anchored(blocks') = Anchored(blocks),
           pc' = "cut" => Length(blocks') <= Budget
    PROVE  TitleInv'
<1>1. anchored = Anchored(blocks) /\ TitleTypes /\ AnchoredTyped /\ FaceMeasured
  BY DEF TitleInv, Stages
<1>2. PICK b : b = blocks'
  OBVIOUS
<1>3. b \in Seq(PartRec) /\ anchored = Anchored(b)
  BY <1>1, <1>2
<1>4. \A i \in 1..Len(anchored) : Holds(b, anchored[i])
  BY <1>3, FittingHold
<1>5. TitleTypes' /\ AnchoredTyped' /\ FaceMeasured' /\ Begun'
  BY <1>1, <1>2, <1>3 DEF TitleTypes, AnchoredTyped, FaceMeasured, Begun, TitleKinds
<1>6. pc' = "cut" => AllFits'
  BY <1>2, <1>4 DEF AllFits, Holds, Length, Said, Those, Joined
<1>7. anchored' = Anchored(blocks)'
  BY <1>2, <1>3 DEF Anchored, Those, NeverDrop
<1>8. Stages' /\ NameKept'
  BY <1>6, <1>7 DEF Stages, NameKept
<1> QED
  BY <1>5, <1>8 DEF TitleInv

LEMMA AbbreviateKeeps ==
    ASSUME TitleHolds, TitleInv, Abbreviate
    PROVE  TitleInv'
<1>1. /\ pc = "structure" /\ way = "structure" /\ blocks \in Seq(PartRec)
      /\ way' = way /\ tail' = tail /\ anchored' = anchored /\ face' = face
  BY DEF Abbreviate, TitleInv, TitleTypes, Stages, TitleKinds
<1>2. Measured(face) /\ Budget \in Nat
  BY <1>1 DEF TitleInv, FaceMeasured, TitleHolds
<1>3. Length(blocks) \in Nat
  BY <1>1, LengthIs
<1>4. CASE Length(blocks) > Budget
  <2>1. PICK r : r = Part("rarity", Abbreviated(face))
    OBVIOUS
  <2>2. r \in PartRec /\ r.k = "rarity"
    <3>1. "rarity" \in Fields
      BY DEF Fields, Rank
    <3>2. Abbreviated(face) \in Nat
      BY <1>2, <3>1 DEF Abbreviated, Measured
    <3> QED
      BY <2>1, <3>1, <3>2 DEF Part, PartRec, Fields
  <2>3. PICK b : b = [i \in DOMAIN blocks |-> IF blocks[i].k = "rarity" THEN r ELSE blocks[i]]
    OBVIOUS
  <2>4. pc' = "drop" /\ blocks' = b
    BY <1>4, <2>1, <2>3 DEF Abbreviate
  <2>5. Len(blocks) \in Nat /\ DOMAIN blocks = 1..Len(blocks) /\ \A i \in 1..Len(blocks) : blocks[i] \in PartRec
    BY <1>1, LenProperties, ElementOfSeq
  <2>6. b \in [1..Len(blocks) -> PartRec]
    BY <2>2, <2>3, <2>5
  <2>7. b \in Seq(PartRec) /\ Len(b) = Len(blocks)
    BY <2>5, <2>6, SeqDef, LenProperties
  <2>8. \A n \in 1..Len(blocks) : b[n].k = blocks[n].k /\ (blocks[n].k \in NeverDrop => b[n] = blocks[n])
    BY <2>2, <2>3, <2>5 DEF NeverDrop
  <2>9. Anchored(b) = Anchored(blocks)
    BY <1>1, <2>7, <2>8, AnchoredAgrees
  <2>10. Anchored(blocks') = Anchored(blocks) /\ blocks' \in Seq(PartRec)
    BY <2>4, <2>7, <2>9
  <2> QED
    BY <1>1, <2>4, <2>10, SameAnchored
<1>5. CASE Length(blocks) <= Budget
  <2>1. pc' = "cut" /\ blocks' = blocks
    BY <1>2, <1>3, <1>5 DEF Abbreviate
  <2> QED
    BY <1>1, <1>5, <2>1, SameAnchored
<1> QED
  BY <1>2, <1>3, <1>4, <1>5

\* The first of those with the highest rank is one that may be dropped.
LEMMA DropsOne ==
    ASSUME blocks \in Seq(PartRec), Droppable # {}
    PROVE  LET rank(i) == Rank[blocks[i].k]
           IN  Min({j \in Droppable : \A h \in Droppable : rank(h) <= rank(j)})
                   \in Droppable
<1> DEFINE rank(i) == Rank[blocks[i].k]
           ranks == {rank(i) : i \in Droppable}
           top == {j \in Droppable : \A h \in Droppable : rank(h) <= rank(j)}
<1>1. Len(blocks) \in Nat /\ DOMAIN blocks = 1..Len(blocks) /\ \A i \in 1..Len(blocks) : blocks[i] \in PartRec
  BY LenProperties, ElementOfSeq
<1>2. \A k \in DOMAIN Rank : Rank[k] \in 0..95
  <2>1. DOMAIN Rank = {"name", "number", "grade", "condition", "finish", "rarity", "language", "text",
                             "setcode", "set", "game", "year", "sku"}
    BY DEF Rank
  <2> SUFFICES ASSUME NEW k \in {"name", "number", "grade", "condition", "finish", "rarity", "language", "text",
                                 "setcode", "set", "game", "year", "sku"}
               PROVE  Rank[k] \in 0..95
    BY <2>1
  <2>2. /\ Rank.name \in 0..95 /\ Rank.number \in 0..95 /\ Rank.grade \in 0..95
        /\ Rank.condition \in 0..95 /\ Rank.finish \in 0..95 /\ Rank.rarity \in 0..95
        /\ Rank.language \in 0..95 /\ Rank.text \in 0..95 /\ Rank.setcode \in 0..95
        /\ Rank.set \in 0..95 /\ Rank.game \in 0..95 /\ Rank.year \in 0..95
        /\ Rank.sku \in 0..95
    BY DEF Rank
  <2> QED
    BY <2>2
<1>3. \A i \in Droppable : i \in Nat /\ rank(i) \in 0..95
  <2> TAKE i \in Droppable
  <2>1. i \in 1..Len(blocks)
    BY <1>1 DEF Droppable
  <2>2. blocks[i].k \in DOMAIN Rank
    BY <1>1, <2>1 DEF PartRec
  <2> QED
    BY <1>1, <1>2, <2>1, <2>2
<1>4. ranks \subseteq 0..95 /\ ranks # {}
  BY <1>3
<1>5. PICK m \in ranks : \A n \in ranks : n <= m
  <2> HIDE DEF ranks
  <2>1. 95 \in Nat
    OBVIOUS
  <2> QED
    BY <1>4, <2>1, Greatest
<1>6. PICK j \in Droppable : rank(j) = m
  BY <1>5
<1>7. j \in top
  BY <1>5, <1>6
<1>8. top \subseteq Nat /\ top # {}
  BY <1>3, <1>7
<1>9. Min(top) \in top
  <2> HIDE DEF top
  <2> QED
    BY <1>8, Least
<1> QED
  BY <1>9

LEMMA DropBlockKeeps ==
    ASSUME TitleHolds, TitleInv, DropBlock
    PROVE  TitleInv'
<1>1. /\ pc = "drop" /\ way = "structure" /\ blocks \in Seq(PartRec) /\ anchored = Anchored(blocks)
      /\ way' = way /\ tail' = tail /\ anchored' = anchored /\ face' = face
  BY DEF DropBlock, TitleInv, TitleTypes, Stages, TitleKinds
<1>2. Budget \in Nat /\ Length(blocks) \in Nat
  BY <1>1, LengthIs DEF TitleHolds
<1>3. Len(blocks) \in Nat /\ DOMAIN blocks = 1..Len(blocks)
  BY <1>1, LenProperties
<1>4. CASE Length(blocks) > Budget /\ Droppable # {}
  <2> DEFINE rank(i) == Rank[blocks[i].k]
             i0 == Min({j \in Droppable : \A h \in Droppable : rank(h) <= rank(j)})
  <2>1. PICK i : i = i0
    OBVIOUS
  <2>2. i \in Droppable
    BY <1>1, <1>4, <2>1, DropsOne
  <2>3. pc' = pc /\ blocks' = RemoveAt(blocks, i)
    BY <1>4, <2>1 DEF DropBlock
  <2> HIDE DEF i0
  <2>4. i \in 1..Len(blocks) /\ blocks[i].k \notin NeverDrop
    BY <1>3, <2>2 DEF Droppable
  <2>5. PICK b : b = RemoveAt(blocks, i)
    OBVIOUS
  <2>6. /\ b \in Seq(PartRec) /\ Len(b) = Len(blocks) - 1
        /\ \A n \in 1..Len(b) : b[n] = blocks[IF n < i THEN n ELSE n + 1]
    BY <1>1, <2>4, <2>5, OneWithout
  <2>7. Anchored(b) = Anchored(blocks)
    BY <1>1, <2>4, <2>6, AnchoredWithout
  <2>8. blocks' \in Seq(PartRec) /\ Anchored(blocks') = Anchored(blocks) /\ pc' = "drop"
    BY <1>1, <2>3, <2>5, <2>6, <2>7
  <2> QED
    BY <1>1, <2>8, SameAnchored
<1>5. CASE ~ (Length(blocks) > Budget /\ Droppable # {})
  <2>1. pc' = "cut" /\ blocks' = blocks
    BY <1>5 DEF DropBlock
  <2>2. CASE Length(blocks) <= Budget
    BY <1>1, <2>1, <2>2, SameAnchored
  <2>3. CASE Droppable = {}
    <3>1. \A i \in 1..Len(blocks) : blocks[i].k \in NeverDrop
      BY <1>3, <2>3 DEF Droppable
    <3>2. blocks = anchored
      BY <1>1, <3>1, AnchoredIs
    <3>3. <<>> \in Seq(PartRec) /\ blocks = anchored \o <<>>
      BY <1>1, <3>2, ConcatEmptySeq
    <3>4. ComesFirst'
      BY <1>1, <2>1, <3>3 DEF ComesFirst
    <3>5. Stages' /\ NameKept' /\ Begun'
      BY <2>1, <3>4 DEF Stages, NameKept, Begun
    <3>6. TitleTypes' /\ AnchoredTyped' /\ FaceMeasured'
      BY <1>1, <2>1 DEF TitleInv, TitleTypes, AnchoredTyped, FaceMeasured
    <3> QED
      BY <3>5, <3>6 DEF TitleInv
  <2> QED
    BY <1>2, <1>5, <2>2, <2>3
<1> QED
  BY <1>4, <1>5

LEMMA DropTokenKeeps ==
    ASSUME TitleHolds, TitleInv, DropToken
    PROVE  TitleInv'
<1>1. /\ pc = "builtin" /\ way = "builtin" /\ blocks \in Seq(PartRec) /\ tail \in Seq(PartRec)
      /\ anchored \in Seq(PartRec) /\ Positive(anchored) /\ anchored = NameAndNumber
      /\ way' = way /\ anchored' = anchored /\ face' = face /\ Measured(face) /\ Budget \in Nat
  BY DEF DropToken, TitleInv, TitleTypes, AnchoredTyped, FaceMeasured, Stages, TitleKinds, TitleHolds
<1>2. AnchoredTyped' /\ FaceMeasured'
  BY <1>1 DEF AnchoredTyped, FaceMeasured
<1>3. PICK front : front = blocks \o anchored
  OBVIOUS
<1>4. PICK all : all = front \o tail
  OBVIOUS
<1>5. /\ front \in Seq(PartRec) /\ Len(front) = Len(blocks) + Len(anchored)
      /\ \A n \in 1..Len(front) : front[n] = IF n <= Len(blocks) THEN blocks[n] ELSE anchored[n - Len(blocks)]
  BY <1>1, <1>3, ConcatProperties
<1>6. /\ all \in Seq(PartRec) /\ Len(all) = Len(front) + Len(tail)
      /\ \A n \in 1..Len(front) : all[n] = front[n]
  <2>1. Len(front) \in Nat /\ Len(tail) \in Nat
    BY <1>1, <1>5, LenProperties
  <2>2. /\ front \o tail \in Seq(PartRec) /\ Len(front \o tail) = Len(front) + Len(tail)
        /\ \A n \in 1..(Len(front) + Len(tail)) :
              (front \o tail)[n] = IF n <= Len(front) THEN front[n] ELSE tail[n - Len(front)]
    <3>1. front \in Seq(PartRec) /\ tail \in Seq(PartRec)
      BY <1>1, <1>5
    <3> QED
      BY <3>1, ConcatProperties, Zenon
  <2>3. \A n \in 1..Len(front) : n \in 1..(Len(front) + Len(tail)) /\ n <= Len(front)
    BY <2>1
  <2>4. \A n \in 1..Len(front) : all[n] = front[n]
    <3> TAKE n \in 1..Len(front)
    <3>1. (front \o tail)[n] = front[n]
      BY <2>2, <2>3, Zenon
    <3> QED
      BY <1>4, <3>1, Zenon
  <2> QED
    BY <1>4, <2>2, <2>4, Zenon
<1>7. Assembled = all /\ Length(all) \in Nat
  BY <1>1, <1>3, <1>4, <1>6, LengthIs DEF Assembled
<1>8. Len(blocks) \in Nat /\ Len(anchored) \in Nat /\ Len(tail) \in Nat
  BY <1>1, LenProperties
<1>9. CASE Length(all) > Budget /\ Len(tail) > 1
  <2>1. pc' = pc /\ blocks' = blocks /\ tail' = SubSeq(tail, 1, Len(tail) - 1)
    BY <1>7, <1>9 DEF DropToken, Front
  <2>2. tail' \in Seq(PartRec)
    <3>1. \A i \in 1..(Len(tail) - 1) : tail[i] \in PartRec
      BY <1>1, <1>8, ElementOfSeq
    <3>2. Len(tail) - 1 \in Int /\ 1 \in Int
      BY <1>8
    <3> QED
      BY <2>1, <3>1, <3>2, SubSeqProperties
  <2>3. TitleTypes' /\ Begun' /\ NameKept' /\ Stages'
    BY <1>1, <2>1, <2>2 DEF TitleTypes, Begun, NameKept, Stages, NameAndNumber
  <2> QED
    BY <1>2, <2>3 DEF TitleInv
<1>10. CASE Length(all) > Budget /\ ~ (Len(tail) > 1) /\ blocks # <<>>
  <2>1. pc' = pc /\ tail' = tail /\ blocks' = Tail(blocks)
    BY <1>7, <1>10 DEF DropToken
  <2>2. blocks' \in Seq(PartRec)
    BY <1>1, <1>10, <2>1, HeadTailProperties
  <2>3. TitleTypes' /\ Begun' /\ NameKept' /\ Stages'
    BY <1>1, <2>1, <2>2 DEF TitleTypes, Begun, NameKept, Stages, NameAndNumber
  <2> QED
    BY <1>2, <2>3 DEF TitleInv
<1>11. CASE ~ (Length(all) > Budget /\ (Len(tail) > 1 \/ blocks # <<>>))
  <2>1. pc' = "cut" /\ blocks' = all /\ tail' = <<>>
    BY <1>7, <1>11 DEF DropToken
  <2>2. TitleTypes' /\ Begun' /\ NameKept'
    BY <1>1, <1>6, <2>1 DEF TitleTypes, Begun, NameKept
  <2>3. CASE Length(all) <= Budget
    <3>1. \A i \in 1..Len(anchored) : Holds(all, anchored[i])
      <4> TAKE i \in 1..Len(anchored)
      <4>1. Len(blocks) + i \in 1..Len(front) /\ Len(blocks) + i \in 1..Len(all)
        BY <1>5, <1>6, <1>8
      <4>2. all[Len(blocks) + i] = anchored[i]
        BY <1>5, <1>6, <1>8, <4>1
      <4> QED
        BY <4>1, <4>2 DEF Holds
    <3>2. AllFits'
      <4>1. Length(blocks') <= Budget
        BY <2>1, <2>3
      <4>2. \A i \in 1..Len(anchored) : Holds(blocks', anchored[i])
        BY <2>1, <3>1
      <4> QED
        BY <1>1, <4>1, <4>2 DEF AllFits, Holds, Length, Said, Those, Joined
    <3> QED
      BY <1>2, <2>1, <2>2, <3>2 DEF TitleInv, Stages
  <2>4. CASE blocks = <<>>
    <3>1. front = anchored
      BY <1>1, <1>3, <2>4, ConcatEmptySeq
    <3>2. ComesFirst'
      BY <1>1, <1>4, <2>1, <3>1 DEF ComesFirst
    <3> QED
      BY <1>2, <2>1, <2>2, <3>2 DEF TitleInv, Stages
  <2> QED
    BY <1>1, <1>7, <1>11, <2>3, <2>4
<1> QED
  BY <1>9, <1>10, <1>11

LEMMA CutKeeps ==
    ASSUME TitleHolds, TitleInv, CutTitle
    PROVE  TitleInv'
<1>1. /\ pc = "cut" /\ pc' = "done" /\ blocks' = Whole(blocks)
      /\ face' = face /\ way' = way /\ tail' = tail /\ anchored' = anchored
  BY DEF CutTitle
<1>2. Budget \in Nat /\ AnchoredTyped /\ FaceMeasured
  BY DEF TitleHolds, TitleInv
<1>3. TitleTypes' /\ AnchoredTyped' /\ FaceMeasured' /\ Begun' /\ Stages'
  BY <1>1, <1>2 DEF TitleTypes, AnchoredTyped, FaceMeasured, Begun, Stages
<1>4. ASSUME way \in TitleKinds, Length(anchored) <= Budget, NEW i \in DOMAIN anchored
      PROVE  anchored[i] \in ToSet(blocks')
  <2>1. /\ blocks \in Seq(PartRec) /\ anchored \in Seq(PartRec) /\ Positive(anchored)
        /\ AllFits \/ ComesFirst
    BY <1>1, <1>4 DEF TitleInv, TitleTypes, AnchoredTyped, Stages
  <2>2. PICK t : t = Said(blocks)
    OBVIOUS
  <2>3. t \in Seq(PartRec) /\ Len(t) \in Nat
    BY <2>1, <2>2, SaidIs, LenProperties
  <2>4. i \in 1..Len(anchored) /\ anchored[i].len > 0 /\ Len(anchored) \in Nat
    BY <1>4, <2>1, LenProperties DEF Positive
  <2>5. Whole(blocks) \in Seq(PartRec) /\ Holds(Whole(blocks), anchored[i])
    <3>1. CASE AllFits
      <4>1. Holds(blocks, anchored[i])
        BY <2>4, <3>1 DEF AllFits
      <4>2. PICK j \in 1..Len(t) : t[j] = anchored[i]
        BY <2>1, <2>2, <2>4, <4>1, SaidIs DEF Holds
      <4>3. SubSeq(t, 1, Len(t)) = t /\ Len(t) \in 0..Len(t)
        <5>1. \A n \in 1..Len(t) : t[n] \in PartRec
          BY <2>3, ElementOfSeq
        <5>2. PICK u : u = SubSeq(t, 1, Len(t))
          OBVIOUS
        <5>3. Len(t) \in Int /\ 1 \in Int
          BY <2>3
        <5>4. u \in Seq(PartRec) /\ Len(u) = Len(t) /\ \A n \in 1..Len(t) : u[n] = t[n]
          BY <2>3, <5>1, <5>2, <5>3, SubSeqProperties
        <5> QED
          BY <2>3, <5>2, <5>4, SeqEqual
      <4>4. Joined(SubSeq(Said(blocks), 1, Len(t))) <= Budget
        BY <2>2, <3>1, <4>3 DEF AllFits, Length
      <4>5. Len(t) \in 0..Len(Said(blocks))
        BY <2>2, <4>3
      <4>6. /\ Whole(blocks) \in Seq(PartRec)
            /\ \A n \in 1..Len(t) : Holds(Whole(blocks), Said(blocks)[n])
        BY <1>2, <2>1, <4>4, <4>5, WholeHolds
      <4> QED
        BY <2>2, <4>2, <4>6
    <3>2. CASE ComesFirst
      <4>1. PICK rest \in Seq(PartRec) : blocks = anchored \o rest
        BY <3>2 DEF ComesFirst
      <4>2. Len(anchored) <= Len(t) /\ \A n \in 1..Len(anchored) : t[n] = anchored[n]
        BY <2>1, <2>2, <4>1, SaidFirst
      <4>3. PICK m : m = Len(anchored)
        OBVIOUS
      <4>4. PICK u : u = SubSeq(t, 1, m)
        OBVIOUS
      <4>5. u = anchored
        <5>1. \A n \in 1..m : t[n] \in PartRec
          BY <2>1, <4>2, <4>3, ElementOfSeq
        <5>2. m \in Int /\ 1 \in Int
          BY <2>4, <4>3
        <5>3. u \in Seq(PartRec) /\ Len(u) = m /\ \A n \in 1..m : u[n] = t[n]
          BY <2>4, <4>3, <4>4, <5>1, <5>2, SubSeqProperties
        <5> QED
          BY <2>1, <4>2, <4>3, <5>3, SeqEqual
      <4>6. Joined(anchored) <= Budget
        BY <1>4, <2>1, SaidIs DEF Length
      <4>7. m \in 0..Len(Said(blocks)) /\ Joined(SubSeq(Said(blocks), 1, m)) <= Budget
        <5>1. m \in 0..Len(t)
          BY <2>3, <2>4, <4>2, <4>3
        <5>2. Joined(u) <= Budget
          BY <4>5, <4>6
        <5> QED
          BY <2>2, <4>4, <5>1, <5>2
      <4>8. /\ Whole(blocks) \in Seq(PartRec)
            /\ \A n \in 1..m : Holds(Whole(blocks), Said(blocks)[n])
        BY <1>2, <2>1, <4>7, WholeHolds
      <4> QED
        BY <2>2, <2>4, <4>2, <4>3, <4>8
    <3> QED
      BY <2>1, <3>1, <3>2
  <2>6. PICK w : w = Whole(blocks)
    OBVIOUS
  <2>7. PICK j \in 1..Len(w) : w[j] = anchored[i]
    BY <2>5, <2>6 DEF Holds
  <2>8. w \in Seq(PartRec)
    BY <2>5, <2>6
  <2>9. j \in DOMAIN w
    BY <2>7, <2>8, LenProperties
  <2> QED
    BY <1>1, <2>6, <2>7, <2>9 DEF ToSet
<1>5. NameKept'
  <2> SUFFICES ASSUME (Length(anchored) <= Budget)', way \in TitleKinds
               PROVE  (\A i \in DOMAIN anchored : anchored[i] \in ToSet(blocks))'
    BY <1>1 DEF NameKept, TitleKinds
  <2>1. Length(anchored) <= Budget
    BY <1>1
  <2>2. \A i \in DOMAIN anchored : anchored[i] \in ToSet(blocks')
    BY <1>4, <2>1
  <2> QED
    BY <1>1, <2>2 DEF ToSet
<1> QED
  BY <1>3, <1>5 DEF TitleInv

-----------------------------------------------------------------------------

LEMMA TitleStep ==
    ASSUME TitleHolds, TitleInv, [TitlesNext]_titles
    PROVE  TitleInv'
<1>1. ASSUME NEW p \in Printings, NEW c \in Copies, PickCopy(p, c) PROVE TitleInv'
  BY <1>1, PickKeeps
<1>2. ASSUME NEW template, FromTemplate(template) PROVE TitleInv'
  <2>1. PICK parts : Begin("cut", "template", parts, <<>>)
    BY <1>2 DEF FromTemplate
  <2>2. "template" \notin TitleKinds
    BY DEF TitleKinds
  <2> QED
    BY <2>1, <2>2, AsIsKeeps
<1>3. ASSUME NEW st \in Structures, NEW template \in Templates, SellerTitle(st, template) PROVE TitleInv'
  <2>1. Structured(st) \/ FromTemplate(template) \/ BuiltIn
    BY <1>3 DEF SellerTitle
  <2> QED
    BY <1>2, <2>1, StructuredKeeps, BuiltInKeeps
<1>4. ASSUME NEW len \in Overrides, Typed(len) PROVE TitleInv'
  <2>1. PICK parts : Begin("cut", "typed", parts, <<>>)
    BY <1>4 DEF Typed
  <2>2. "typed" \notin TitleKinds
    BY DEF TitleKinds
  <2> QED
    BY <2>1, <2>2, AsIsKeeps
<1>5. CASE UNCHANGED titles
  <2>1. /\ pc' = pc /\ face' = face /\ way' = way /\ blocks' = blocks /\ tail' = tail /\ anchored' = anchored
    BY <1>5 DEF titles
  <2>2. TitleTypes' /\ AnchoredTyped' /\ FaceMeasured' /\ Begun'
    BY <2>1 DEF TitleInv, TitleTypes, AnchoredTyped, FaceMeasured, Begun
  <2>3. (AllFits => AllFits') /\ (ComesFirst => ComesFirst')
    BY <2>1 DEF AllFits, ComesFirst
  <2>4. Stages'
    BY <2>1, <2>3 DEF TitleInv, Stages, NameAndNumber
  <2>5. NameKept'
    BY <2>1 DEF TitleInv, NameKept
  <2> QED
    BY <2>2, <2>4, <2>5 DEF TitleInv
<1> QED
  BY <1>1, <1>2, <1>3, <1>4, <1>5, AbbreviateKeeps, DropBlockKeeps, DropTokenKeeps, CutKeeps
     DEF TitlesNext

\* A title put together by the built-in rules, or by a structure that is kept within
\* the limit, says the whole name and the whole number wherever they were to stand, if
\* those alone fit: whatever the fields' lengths, the structure, the copy and the
\* limit (NEVER_DROP in renderStructuredTitle, app/title.ts; composeTitle,
\* app/compose.ts).
THEOREM NameIsKept == TitlesSpec => []NameKept
<1>1. TitleInv /\ [TitlesNext]_titles => TitleInv'
  BY TitleStep, TitlesAssumption
<1>2. TitleInv => NameKept
  BY DEF TitleInv
<1>3. TitlesSpec => []TitleInv
  BY <1>1, TitleInit, PTL DEF TitlesSpec
<1> QED
  BY <1>2, <1>3, PTL

=============================================================================
