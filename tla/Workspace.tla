------------------------------ MODULE Workspace ------------------------------
(***************************************************************************)
(* Whose workspace a request runs in (server.ts resolveAccount, handleApp, *)
(* handleAdmin): the customer's own, or, for the owner with the console    *)
(* open, the owner's or the customer's whose dashboard was opened.  The    *)
(* cookies of each browser, the paywall, the activity log (app/admin.ts),  *)
(* the priced lists and their share links (app/store.ts), and the notes to *)
(* the owner (app/feedback.ts).                                            *)
(*                                                                         *)
(* One person sits at each browser.  Signing in with a password is in      *)
(* Accounts; here a browser has a live session or none.  Cards put into a  *)
(* list are in Upload and BatchCommit.                                     *)
(***************************************************************************)
EXTENDS Naturals, Sequences, FiniteSets, SequencesExt, Functions

CONSTANTS
    Customers,    \* sellers other than the owner's row
    Own,          \* the owner's own seller row
    Browsers,
    Person,       \* [Browsers -> Customers \cup {Own}]: who sits there
    AttemptLimit, \* ATTEMPT_LIMIT
    Free,         \* the customers on the free plan as the behaviour begins
    Address,      \* [Browsers -> the address its requests come from]
    DeskBudget,   \* bound: requests and events of each kind
    DeskEvents    \* bound: requests and events of all kinds

Nobody == "nobody"
Sellers == Customers \cup {Own}
DeskKinds == {"session", "console", "app", "login", "fault"}

\* What the constants must satisfy.
DeskHolds ==
    /\ Own \notin Customers /\ Nobody \notin Sellers
    /\ Person \in [Browsers -> Sellers]
    /\ AttemptLimit \in Nat \ {0}
    /\ Free \subseteq Customers
    /\ DeskEvents \in Nat /\ DeskBudget \in [DeskKinds -> Nat]
ASSUME WorkspaceAssumption == DeskHolds

VARIABLES
    customer,  \* whose live session the browser's cookie names
    console,   \* the browser has a live owner session
    actas,     \* the act-as cookie
    tries,     \* attempts: failures counted for each address, and whether it is locked
    plan,      \* sellers.plan_tier is pro
    seen,      \* who has moved each seller's last_seen_at
    feed,      \* activity_log: for whom, by the owner or not, and who it really was
    lists,     \* scan_batches
    notes,     \* feedback
    req,       \* the request under way at each browser
    counted    \* how many of what DeskBudget bounds there were
deskVars == <<customer, console, actas, tries, plan, seen, feed, lists, notes, req, counted>>

NoReq == [at |-> "idle", path |-> "none", seller |-> Nobody, owner |-> FALSE, list |-> 0]

DeskInit ==
    /\ customer = [b \in Browsers |-> Nobody]
    /\ console = [b \in Browsers |-> FALSE]
    /\ actas = [b \in Browsers |-> Nobody]
    /\ tries = [a \in Range(Address) |-> [count |-> 0, locked |-> FALSE]]
    /\ plan = [i \in Sellers |-> i \notin Free]
    /\ seen = [i \in Sellers |-> {}] /\ feed = {}
    /\ lists = <<>> /\ notes = <<>>
    /\ req = [b \in Browsers |-> NoReq]
    /\ counted = [k \in DeskKinds |-> 0]

Count(kind) ==
    /\ counted[kind] < DeskBudget[kind]
    /\ FoldFunction(+, 0, counted) < DeskEvents
    /\ counted' = [counted EXCEPT ![kind] = @ + 1]
Ready(b) == req[b].at = "idle"

\* logActivity: a row, and for the seller's own doings the time they were last seen.
Logged(b, i, byOwner) ==
    /\ feed' = feed \cup {[seller |-> i, byOwner |-> byOwner, by |-> Person[b]]}
    /\ seen' = IF byOwner THEN seen ELSE [seen EXCEPT ![i] = @ \cup {Person[b]}]

-----------------------------------------------------------------------------
(* Sessions.                                                               *)

SignInHere(b) ==
    /\ Ready(b) /\ customer[b] = Nobody /\ Count("session")
    /\ customer' = [customer EXCEPT ![b] = Person[b]]
    /\ Logged(b, Person[b], FALSE)
    /\ UNCHANGED <<console, actas, tries, plan, lists, notes, req>>

SignOutHere(b) ==
    /\ Ready(b) /\ customer[b] # Nobody /\ Count("session")
    /\ Logged(b, customer[b], FALSE)
    /\ customer' = [customer EXCEPT ![b] = Nobody]
    /\ UNCHANGED <<console, actas, tries, plan, lists, notes, req>>

\* A session's time is over; the act-as cookie stays in the browser.
SessionOver(b) ==
    /\ Count("fault")
    /\ \/ customer[b] # Nobody /\ customer' = [customer EXCEPT ![b] = Nobody] /\ UNCHANGED console
       \/ console[b] /\ console' = [console EXCEPT ![b] = FALSE] /\ UNCHANGED customer
    /\ UNCHANGED <<actas, tries, plan, seen, feed, lists, notes, req>>

\* adminAuthenticate: a locked address is refused unheard; the right password clears the count ...
OwnerSignsIn(b) ==
    /\ Ready(b) /\ Person[b] = Own /\ ~tries[Address[b]].locked /\ Count("session")
    /\ tries' = [tries EXCEPT ![Address[b]] = [count |-> 0, locked |-> FALSE]]
    /\ console' = [console EXCEPT ![b] = TRUE]
    /\ UNCHANGED <<customer, actas, plan, seen, feed, lists, notes, req>>

\* ... and the fifth wrong one locks the address and starts the count again.
WrongPassword(b) ==
    /\ Ready(b) /\ ~tries[Address[b]].locked /\ Count("login")
    /\ LET n == tries[Address[b]].count + 1
       IN  tries' = [tries EXCEPT ![Address[b]] = [count |-> IF n >= AttemptLimit THEN 0 ELSE n,
                                          locked |-> n >= AttemptLimit]]
    /\ UNCHANGED <<customer, console, actas, plan, seen, feed, lists, notes, req>>

\* Fifteen minutes after the lock.
LockOver(b) ==
    /\ tries[Address[b]].locked
    /\ tries' = [tries EXCEPT ![Address[b]].locked = FALSE]
    /\ UNCHANGED <<customer, console, actas, plan, seen, feed, lists, notes, req, counted>>

\* The owner signs out; both cookies go.
OwnerSignsOut(b) ==
    /\ Ready(b) /\ console[b] /\ Count("console")
    /\ console' = [console EXCEPT ![b] = FALSE]
    /\ actas' = [actas EXCEPT ![b] = Nobody]
    /\ UNCHANGED <<customer, tries, plan, seen, feed, lists, notes, req>>

\* The process starts again: the counts are in its memory, the sessions are not.
StartsAgain ==
    /\ Count("fault")
    /\ tries' = [a \in Range(Address) |-> [count |-> 0, locked |-> FALSE]]
    /\ req' = [b \in Browsers |-> NoReq]
    /\ UNCHANGED <<customer, console, actas, plan, seen, feed, lists, notes>>

-----------------------------------------------------------------------------
(* The console.                                                            *)

AtConsole(b) == Ready(b) /\ console[b] /\ Count("console")

OpenDashboard(b, i) ==
    /\ AtConsole(b)
    /\ Logged(b, i, TRUE)
    /\ actas' = [actas EXCEPT ![b] = i]
    /\ UNCHANGED <<customer, console, tries, plan, lists, notes, req>>

StopActing(b) ==
    /\ AtConsole(b) /\ actas[b] # Nobody
    /\ actas' = [actas EXCEPT ![b] = Nobody]
    /\ UNCHANGED <<customer, console, tries, plan, seen, feed, lists, notes, req>>

\* A seller moves to the other plan, while requests of theirs may be under way.
ChangePlan(b, i) ==
    /\ AtConsole(b)
    /\ plan' = [plan EXCEPT ![i] = ~@]
    /\ Logged(b, i, TRUE)
    /\ UNCHANGED <<customer, console, actas, tries, lists, notes, req>>

\* The owner's uploader works in the owner's row and leads to its review page, so the
\* act-as cookie is set to that row.
OwnerUploads(b) ==
    /\ AtConsole(b)
    /\ lists' = Append(lists, [seller |-> Own, kind |-> "scan", shared |-> FALSE])
    /\ actas' = [actas EXCEPT ![b] = Own]
    /\ UNCHANGED <<customer, console, tries, plan, seen, feed, notes, req>>

\* Closing a note keeps the reply it has unless another one is given.
CloseNote(b, n) ==
    /\ AtConsole(b)
    /\ \E said \in BOOLEAN :
          notes' = [notes EXCEPT ![n].status = "closed", ![n].answered = @ \/ said]
    /\ UNCHANGED <<customer, console, actas, tries, plan, seen, feed, lists, req>>

ReplyNote(b, n) ==
    /\ AtConsole(b)
    /\ notes' = [notes EXCEPT ![n].status = "answered", ![n].answered = TRUE]
    /\ UNCHANGED <<customer, console, actas, tries, plan, seen, feed, lists, req>>

-----------------------------------------------------------------------------
(* A request to the workspace.  "page" stands for the pages and forms that *)
(* other modules are about, "bulk" for those only Pro accounts may use,    *)
(* "scan" for the forms that put cards in the inventory: the page is free  *)
(* and the kind is looked at where the form is handled.                    *)

Paths == {"page", "bulk", "price", "scan", "convert", "share", "unshare", "note"}

\* proRequired.
ProRequired(path) == path \in {"bulk", "convert"}

\* resolveAccount: the act-as cookie counts beside a live owner session only; without it and
\* without a login of their own the owner works in the owner's row.
Acting(b) ==
    IF ~console[b] THEN Nobody
    ELSE IF actas[b] # Nobody THEN actas[b]
    ELSE IF customer[b] = Nobody THEN Own ELSE Nobody

WorksAs(b) == IF Acting(b) # Nobody THEN Acting(b) ELSE customer[b]

\* A request without any session is sent to the sign-in page.
Request(b, path, l) ==
    /\ Ready(b) /\ WorksAs(b) # Nobody /\ Count("app")
    /\ IF path \in {"convert", "share", "unshare"} THEN l \in DOMAIN lists ELSE l = 0
    /\ LET as == Acting(b)
       IN  req' = [req EXCEPT ![b] =
                      [at |-> IF as = Nobody THEN "gate" ELSE IF as = Own THEN "body" ELSE "log",
                       path |-> path, seller |-> WorksAs(b), owner |-> as # Nobody, list |-> l]]
    /\ UNCHANGED <<customer, console, actas, tries, plan, seen, feed, lists, notes>>

\* The paywall reads the plan of this moment.
Gate(b) ==
    /\ req[b].at = "gate"
    /\ req' = [req EXCEPT ![b] = IF ProRequired(req[b].path) /\ ~plan[req[b].seller] THEN NoReq
                                 ELSE [@ EXCEPT !.at = "log"]]
    /\ UNCHANGED <<customer, console, actas, tries, plan, seen, feed, lists, notes, counted>>

\* Mutant of LogIt: whoever it was, it is logged as the seller.
LogItPlain(b) ==
    /\ req[b].at = "log"
    /\ req' = [req EXCEPT ![b].at = "body"]
    /\ Logged(b, req[b].seller, FALSE)
    /\ UNCHANGED <<customer, console, actas, tries, plan, lists, notes, counted>>

\* The activity is logged; a failure there does not break the request.
LogIt(b) ==
    /\ req[b].at = "log"
    /\ req' = [req EXCEPT ![b].at = "body"]
    /\ \/ Logged(b, req[b].seller, req[b].owner) /\ UNCHANGED counted
       \/ Count("fault") /\ UNCHANGED <<seen, feed>>
    /\ UNCHANGED <<customer, console, actas, tries, plan, lists, notes>>

Opens(b, kind) ==
    lists' = Append(lists, [seller |-> req[b].seller, kind |-> kind, shared |-> FALSE])

Changed(b, field, v) == [lists EXCEPT ![req[b].list][field] = v]

\* Mutant of Change: the list is found by its number alone.
ChangeAny(b, field, v) == lists' = Changed(b, field, v)

\* Every query names the seller the request runs as.
Change(b, field, v) ==
    lists' = IF lists[req[b].list].seller = req[b].seller THEN Changed(b, field, v) ELSE lists

Body(b) ==
    /\ req[b].at = "body"
    /\ LET path == req[b].path
           pro == req[b].owner \/ plan[req[b].seller]
       IN  /\ CASE path = "price" -> Opens(b, "pricing")
                [] path = "scan" /\ pro -> Opens(b, "scan")
                [] path = "convert" -> Change(b, "kind", "scan")
                [] path = "share" -> Change(b, "shared", TRUE)
                [] path = "unshare" -> Change(b, "shared", FALSE)
                [] OTHER -> UNCHANGED lists
           /\ notes' = IF path = "note"
                       THEN Append(notes, [seller |-> req[b].seller, status |-> "open", answered |-> FALSE])
                       ELSE notes
    /\ req' = [req EXCEPT ![b] = NoReq]
    /\ UNCHANGED <<customer, console, actas, tries, plan, seen, feed, counted>>

DeskNext ==
    \/ StartsAgain
    \/ \E b \in Browsers :
          \/ SignInHere(b) \/ SignOutHere(b) \/ SessionOver(b)
          \/ OwnerSignsIn(b) \/ WrongPassword(b) \/ LockOver(b) \/ OwnerSignsOut(b)
          \/ \E i \in Sellers : OpenDashboard(b, i) \/ ChangePlan(b, i)
          \/ StopActing(b) \/ OwnerUploads(b)
          \/ \E n \in DOMAIN notes : CloseNote(b, n) \/ ReplyNote(b, n)
          \/ \E path \in Paths : \E l \in 0..Len(lists) : Request(b, path, l)
          \/ Gate(b) \/ LogIt(b) \/ Body(b)

DeskSpec == DeskInit /\ [][DeskNext]_deskVars

-----------------------------------------------------------------------------
(* Properties.                                                             *)

\* "by_owner marks events the owner caused inside a customer's workspace": no row says that a
\* seller did what somebody else did, and nobody but the seller moves the time they were
\* last seen, whatever sessions ended and whatever cookies were left behind.
OwnerMarked ==
    /\ \A e \in feed : IF e.byOwner THEN e.by = Own ELSE e.by = e.seller
    /\ \A i \in Sellers : seen[i] \subseteq {i}

\* "No query can read or write another customer's": a list is changed by a request of its own
\* seller, or by the owner in that seller's workspace; and an answered note stays answered.
NothingTaken ==
    [][/\ \A l \in DOMAIN lists : lists'[l] # lists[l] =>
             \E b \in Browsers : /\ req[b].at = "body" /\ req[b].seller = lists[l].seller
                                 /\ Person[b] \in {Own, lists[l].seller}
       /\ \A n \in DOMAIN notes : notes[n].answered => notes'[n].answered]_<<lists, notes, req>>

=============================================================================
