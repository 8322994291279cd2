------------------------------- MODULE Publish -------------------------------
(***************************************************************************)
(* A seller's eBay listings from draft to live to ended: the in-process    *)
(* scheduler, publishListing, endListing and the buttons that write a      *)
(* listing's status (app/ebay-sell.ts, app/store.ts, server.ts), with the  *)
(* statements and eBay calls of concurrent requests interleaved.           *)
(*                                                                         *)
(* eBay is external: a POST of an offer makes an offer, a publish makes it *)
(* live, a withdraw ends it.  A call times out after 30 seconds, so it may *)
(* fail after eBay has carried it out.  Titles, prices, pictures, policies *)
(* and the inventory item are data; what is wrong with them makes a        *)
(* listing fail, which any listing may.                                    *)
(***************************************************************************)
EXTENDS Integers, FiniteSets

CONSTANTS
    Listings,     \* listing ids
    MaxAttempts,  \* MAX_ATTEMPTS
    Sessions,     \* requests being served at the same time
    Clock,        \* the session that is the scheduler's timer
    MaxOffers,    \* bound: that many POSTs of an offer for one listing, or more
    Worlds        \* the circumstances a behaviour may be in, one of them throughout

Kinds == {"create", "schedule", "unschedule", "export", "mark", "automatic",
          "publish", "end", "run", "connect"}

NoOffer == 0
NoListing == 0

Points == {"run", "offer", "publish", "save", "bump", "park", "withdraw", "endSave"}

\* timer: the timer ticks.  limit: a run takes that many due listings at most (50).
\* budget: the requests of each kind that are made.  fails, lost: calls that may
\* fail, and whose answer may be lost.  dies: where a request may stop.
WorldRec == [timer : BOOLEAN, limit : Nat \ {0}, budget : [Kinds -> Nat],
             fails : SUBSET {"prepare", "offer", "publish", "withdraw"},
             lost : SUBSET {"offer", "publish", "withdraw"}, dies : SUBSET Points]

ASSUME PublishAssumption ==
    /\ Listings \subseteq Nat \ {NoListing}
    /\ IsFiniteSet(Listings)
    /\ MaxAttempts \in Nat \ {0}
    /\ MaxOffers \in Nat \ {0}
    /\ IsFiniteSet(Sessions)
    /\ \A w \in Worlds : w \in WorldRec

Statuses == {"none", "draft", "scheduled", "exported", "published", "ended"}

VARIABLES
    listing,    \* listings: status, scheduled_at, publish_attempts, ebay_offer_id
    connected,  \* does the seller have a row in ebay_connections?
    offers,     \* offers[l]: offers POSTed to eBay for listing l (external)
    live,       \* live[l]: those of them that are live (external)
    asked,      \* how many requests of each kind were made
    world,      \* the circumstances; they do not change
    sess        \* the request each session is serving and what it has read

vars == <<listing, connected, offers, live, asked, world, sess>>
ebay == <<offers, live>>

Idle == [pc |-> "idle", todo |-> {}, l |-> NoListing, was |-> "none",
         old |-> NoOffer, offer |-> NoOffer, runner |-> FALSE]

Init ==
    /\ listing = [l \in Listings |->
                     [status |-> "none", at |-> "never", attempts |-> 0, offer |-> NoOffer]]
    /\ connected = TRUE
    /\ offers = [l \in Listings |-> 0]
    /\ live = [l \in Listings |-> {}]
    /\ asked = [k \in Kinds |-> 0]
    /\ world \in Worlds
    /\ sess = [s \in Sessions |-> Idle]

-----------------------------------------------------------------------------

Ask(s, kind) ==
    /\ sess[s].pc = "idle"
    /\ s # Clock
    /\ asked[kind] < world.budget[kind]
    /\ asked' = [asked EXCEPT ![kind] = @ + 1]

Goto(s, pc) == sess' = [sess EXCEPT ![s] = [sess[s] EXCEPT !.pc = pc]]

\* A request ends; a run goes on to the next listing it read as due.
NextUp(s) ==
    sess' = [sess EXCEPT ![s] = IF sess[s].runner
                                THEN [Idle EXCEPT !.pc = "run", !.runner = TRUE, !.todo = sess[s].todo]
                                ELSE Idle]

\* publishListing threw: a run counts the attempt, a request shows the error.
Threw(s) == IF sess[s].runner THEN Goto(s, "bump") ELSE NextUp(s)

Set(l, status) == listing' = [listing EXCEPT ![l].status = status]

-----------------------------------------------------------------------------
(* The buttons that write a listing's row, one statement each.             *)

\* createListing: a draft, or scheduled for a time that may be past already.
Create(s, l, at) ==
    /\ Ask(s, "create")
    /\ listing[l].status = "none"
    /\ listing' = [listing EXCEPT ![l] =
           [listing[l] EXCEPT !.status = IF at = "never" THEN "draft" ELSE "scheduled", !.at = at]]
    /\ UNCHANGED <<connected, ebay, sess>>

\* scheduleListing with a time, or (at = "never") back to a draft.
Schedule(s, l, at) ==
    /\ Ask(s, IF at = "never" THEN "unschedule" ELSE "schedule")
    /\ listing[l].status \in {"draft", "scheduled", "exported"}
    /\ listing' = [listing EXCEPT ![l] =
           [listing[l] EXCEPT !.status = IF at = "never" THEN "draft" ELSE "scheduled",
                              !.at = at, !.attempts = 0]]
    /\ UNCHANGED <<connected, ebay, sess>>

\* markListingsExported: the listing went into a CSV file.
Export(s, l) ==
    /\ Ask(s, "export")
    /\ listing[l].status \in {"draft", "scheduled"}
    /\ Set(l, "exported")
    /\ UNCHANGED <<connected, ebay, sess>>

\* "Mark as listed" (setListingsStatus) asks nothing of the old status.
MarkListed(s, l) ==
    /\ Ask(s, "mark")
    /\ listing[l].status # "none"
    /\ Set(l, "exported")
    /\ UNCHANGED <<connected, ebay, sess>>

\* Automatic inventory's mark-live and end buttons (setListingStatus).
Automatic(s, l, st) ==
    /\ Ask(s, "automatic")
    /\ listing[l].status # "none"
    /\ Set(l, st)
    /\ UNCHANGED <<connected, ebay, sess>>

\* Connecting the eBay account and disconnecting it.
Connect(s) ==
    /\ Ask(s, "connect")
    /\ connected' = ~connected
    /\ UNCHANGED <<listing, ebay, sess>>

\* scheduled_at passes.
TimePasses(l) ==
    /\ listing[l].at = "later"
    /\ listing' = [listing EXCEPT ![l].at = "now"]
    /\ UNCHANGED <<connected, ebay, asked, sess>>

-----------------------------------------------------------------------------
(* publishListing: read the listing, then eBay's offer and publish calls,  *)
(* then one UPDATE that stores the offer and the status.                   *)

\* prepare finds a problem (no connection is one), or the listing as it is now.
Prepare(s, l, todo, runner) ==
    LET r == [Idle EXCEPT !.l = l, !.todo = todo, !.runner = runner]
        goes == [r EXCEPT !.pc = "offer", !.was = listing[l].status,
                          !.old = listing[l].offer, !.offer = listing[l].offer]
        throws == IF runner THEN [r EXCEPT !.pc = "bump"] ELSE Idle
    IN  \/ connected /\ sess' = [sess EXCEPT ![s] = goes]
        \/ (~connected \/ "prepare" \in world.fails) /\ sess' = [sess EXCEPT ![s] = throws]

PublishStart(s, l) ==
    /\ Ask(s, "publish")
    /\ listing[l].status # "none"
    /\ Prepare(s, l, {}, FALSE)
    /\ UNCHANGED <<listing, connected, ebay>>

\* PUT of the offer the row knows, else POST of a new one.
Offer(s) ==
    /\ sess[s].pc = "offer"
    /\ LET l == sess[s].l
           posts == sess[s].old = NoOffer
           made == IF offers[l] < MaxOffers THEN offers[l] + 1 ELSE MaxOffers
           carriedOut == connected /\ offers' = [offers EXCEPT ![l] = IF posts THEN made ELSE @]
       IN  \/ /\ carriedOut
              /\ sess' = [sess EXCEPT ![s] = [sess[s] EXCEPT !.pc = "publish",
                                                  !.offer = IF posts THEN made ELSE @]]
           \/ "offer" \in world.lost /\ carriedOut /\ Threw(s)
           \/ (~connected \/ "offer" \in world.fails) /\ UNCHANGED offers /\ Threw(s)
    /\ UNCHANGED <<listing, connected, live, asked>>

\* A listing that was published with an offer has only been revised.
PublishOffer(s) ==
    /\ sess[s].pc = "publish"
    /\ LET carriedOut == connected /\ live' = [live EXCEPT ![sess[s].l] = @ \cup {sess[s].offer}]
       IN  IF sess[s].old # NoOffer /\ sess[s].was = "published"
           THEN Goto(s, "save") /\ UNCHANGED live
           ELSE \/ carriedOut /\ Goto(s, "save")
                \/ "publish" \in world.lost /\ carriedOut /\ Threw(s)
                \/ (~connected \/ "publish" \in world.fails) /\ UNCHANGED live /\ Threw(s)
    /\ UNCHANGED <<listing, connected, offers, asked>>

\* Mutant of PublishSave: the offer id is not stored.
PublishSaveStatus(s) ==
    /\ sess[s].pc = "save"
    /\ Set(sess[s].l, "published")
    /\ NextUp(s)
    /\ UNCHANGED <<connected, ebay, asked>>

PublishSave(s) ==
    /\ sess[s].pc = "save"
    /\ listing' = [listing EXCEPT ![sess[s].l] =
           [listing[sess[s].l] EXCEPT !.status = "published", !.offer = sess[s].offer]]
    /\ NextUp(s)
    /\ UNCHANGED <<connected, ebay, asked>>

-----------------------------------------------------------------------------
(* runScheduledPublishes: the timer's tick, or the seller's "run due".     *)

Due(l) == /\ connected
          /\ listing[l].status = "scheduled" /\ listing[l].at = "now"
          /\ listing[l].attempts < MaxAttempts

\* The oldest due listings; which ones these are is left open.
RunStart(s) ==
    /\ sess[s].pc = "idle"
    /\ IF s = Clock THEN world.timer /\ UNCHANGED asked ELSE Ask(s, "run")
    /\ \E todo \in SUBSET {l \in Listings : Due(l)} :
          /\ todo # {}
          /\ Cardinality(todo) <= world.limit
          /\ Cardinality(todo) = world.limit \/ todo = {l \in Listings : Due(l)}
          /\ sess' = [sess EXCEPT ![s] = [Idle EXCEPT !.pc = "run", !.todo = todo, !.runner = TRUE]]
    /\ UNCHANGED <<listing, connected, ebay>>

\* publishListing on the next one, whatever has become of it since.
RunNext(s) ==
    /\ sess[s].pc = "run"
    /\ \E l \in sess[s].todo : Prepare(s, l, sess[s].todo \ {l}, TRUE)
    /\ UNCHANGED <<listing, connected, ebay, asked>>

RunDone(s) ==
    /\ sess[s].pc = "run"
    /\ sess[s].todo = {}
    /\ sess' = [sess EXCEPT ![s] = Idle]
    /\ UNCHANGED <<listing, connected, ebay, asked>>

\* Mutant of Bump: the listing is parked one failure too late.
BumpLate(s) ==
    /\ sess[s].pc = "bump"
    /\ LET n == listing[sess[s].l].attempts + 1
       IN  /\ listing' = [listing EXCEPT ![sess[s].l].attempts = n]
           /\ IF n > MaxAttempts THEN Goto(s, "park") ELSE NextUp(s)
    /\ UNCHANGED <<connected, ebay, asked>>

\* A failed attempt is counted, in a statement of its own; the third parks the listing.
Bump(s) ==
    /\ sess[s].pc = "bump"
    /\ LET n == listing[sess[s].l].attempts + 1
       IN  /\ listing' = [listing EXCEPT ![sess[s].l].attempts = n]
           /\ IF n >= MaxAttempts THEN Goto(s, "park") ELSE NextUp(s)
    /\ UNCHANGED <<connected, ebay, asked>>

Park(s) ==
    /\ sess[s].pc = "park"
    /\ Set(sess[s].l, "draft")
    /\ NextUp(s)
    /\ UNCHANGED <<connected, ebay, asked>>

-----------------------------------------------------------------------------
(* endListing: read the offer, withdraw it, write the status.              *)

\* Mutant of EndStart: the offer is left as it is.
EndStartLocally(s, l) ==
    /\ Ask(s, "end")
    /\ listing[l].status # "none"
    /\ sess' = [sess EXCEPT ![s] = [Idle EXCEPT !.pc = "endSave", !.l = l]]
    /\ UNCHANGED <<listing, connected, ebay>>

EndStart(s, l) ==
    /\ Ask(s, "end")
    /\ listing[l].status # "none"
    /\ sess' = [sess EXCEPT ![s] = [Idle EXCEPT
                    !.pc = IF listing[l].offer = NoOffer THEN "endSave" ELSE "withdraw",
                    !.l = l, !.offer = listing[l].offer]]
    /\ UNCHANGED <<listing, connected, ebay>>

Withdraw(s) ==
    /\ sess[s].pc = "withdraw"
    /\ LET carriedOut == connected /\ live' = [live EXCEPT ![sess[s].l] = @ \ {sess[s].offer}]
       IN  \/ carriedOut /\ Goto(s, "endSave")
           \/ "withdraw" \in world.lost /\ carriedOut /\ NextUp(s)
           \/ (~connected \/ "withdraw" \in world.fails) /\ UNCHANGED live /\ NextUp(s)
    /\ UNCHANGED <<listing, connected, offers, asked>>

EndSave(s) ==
    /\ sess[s].pc = "endSave"
    /\ Set(sess[s].l, "ended")
    /\ NextUp(s)
    /\ UNCHANGED <<connected, ebay, asked>>

\* A failed statement or a restart: the rest of the request, or of the run, is lost.
Die(s) ==
    /\ sess[s].pc \in world.dies
    /\ sess' = [sess EXCEPT ![s] = Idle]
    /\ UNCHANGED <<listing, connected, ebay, asked>>

-----------------------------------------------------------------------------

Buttons(s) ==
    \/ \E l \in Listings, at \in {"never", "later", "now"} : Create(s, l, at) \/ Schedule(s, l, at)
    \/ \E l \in Listings : Export(s, l) \/ MarkListed(s, l)
    \/ \E l \in Listings, st \in {"published", "ended"} : Automatic(s, l, st)
    \/ Connect(s)

Steps(s) ==
    \/ Offer(s) \/ PublishOffer(s) \/ PublishSave(s)
    \/ RunNext(s) \/ RunDone(s) \/ Bump(s) \/ Park(s)
    \/ Withdraw(s) \/ EndSave(s)

Next ==
    /\ \/ \E s \in Sessions :
             \/ Buttons(s)
             \/ \E l \in Listings : PublishStart(s, l) \/ EndStart(s, l)
             \/ RunStart(s)
             \/ Steps(s)
             \/ Die(s)
       \/ \E l \in Listings : TimePasses(l)
    /\ UNCHANGED world

Spec == Init /\ [][Next]_vars

\* The timer ticks while no run is busy, and every statement and call returns or
\* times out, so a request and a run always go on.
FairSpec ==
    /\ Spec
    /\ WF_vars(RunStart(Clock) /\ UNCHANGED world)
    /\ \A s \in Sessions : WF_vars(Steps(s) /\ UNCHANGED world)

-----------------------------------------------------------------------------
(* Properties.                                                             *)

\* "So nothing loops forever" (the scheduler's comment): however eBay answers, and
\* whatever the seller does beside the timer, a listing that is due does not stay
\* due; it is live or a draft in the end.  No run may stop half way for good.
DueHandled ==
    \A l \in Listings :
        (world.timer /\ world.dies = {} /\ connected /\ listing[l].status = "scheduled" /\ listing[l].at = "now")
            ~> (listing[l].status # "scheduled" \/ listing[l].at # "now" \/ ~connected)

\* One request at a time, and no row written by hand.
InTurn == /\ ~world.timer /\ Cardinality(Sessions \ {Clock}) <= 1
          /\ world.budget["mark"] = 0 /\ world.budget["automatic"] = 0

\* Where requests come one at a time: a listing no request has in hand that is shown
\* as a draft, scheduled or ended is not live on eBay, and one shown as published is.
StatusMatchesEbay ==
    \A l \in Listings :
        (InTurn /\ \A s \in Sessions : sess[s].l # l) =>
            /\ listing[l].status \in {"draft", "scheduled", "ended"} => live[l] = {}
            /\ listing[l].status = "published" => listing[l].offer \in live[l]

\* "Publish (or revise, when already on eBay)": one request at a time, a listing has one
\* offer at eBay, however often it is published, revised, ended and published again.
OneOffer == InTurn => \A l \in Listings : offers[l] <= 1

=============================================================================
