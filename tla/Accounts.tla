------------------------------ MODULE Accounts ------------------------------
(***************************************************************************)
(* Seller accounts (app/auth.ts), the one-time move to Pro                 *)
(* (app/billing.ts), the owner's own seller row (app/admin.ts), and the    *)
(* requests of server.ts that use them: sign-up, sign-in, sign-out,        *)
(* password reset, change of plan, beside a boot or a restart.             *)
(*                                                                         *)
(* A person is an e-mail address.  A password is the person and a number:  *)
(* 0 the one chosen at sign-up, l the one typed into reset link l.  Mail   *)
(* is external; what the activity log says is data.                        *)
(***************************************************************************)
EXTENDS Naturals, Sequences, FiniteSets

CONSTANTS
    People,    \* people with an e-mail address
    Boss,      \* ADMIN_EMAIL
    Tokens,    \* how many sessions a behaviour may create (bound)
    Links,     \* how many reset links a behaviour may create (bound)
    Sessions,  \* requests at the same time
    Serves,    \* Serves[s]: the kinds of request session s makes
    Budget,    \* bound: requests of each kind, and restarts, failures and expiries, in a behaviour
    MayDie     \* the steps before which a request may end, by a failed statement or a restart

Kinds == {"signup", "signin", "logout", "ask", "use", "plan", "fault"}
NoOne == "none"
NoPass == <<NoOne, 0>>

ASSUME AccountsAssumption ==
    /\ NoOne \notin People
    /\ Boss \in People
    /\ Tokens \in Nat /\ Links \in Nat
    /\ Serves \in [Sessions -> SUBSET Kinds]
    /\ Budget \in [Kinds -> Nat]

Passwords == People \X (0..Links)

VARIABLES
    up,         \* the server answers requests; before that it boots
    boot,       \* where the boot is
    meta,       \* meta.paywall_grandfathered_at is set
    configured, \* ADMIN_EMAIL and ADMIN_PASSWORD are set
    seller,     \* table sellers, in order of id
    token,      \* table sessions, in order of creation; by: whose browser has the cookie
    link,       \* table password_resets, in order of creation
    asked,      \* how many of what Budget bounds there were
    sess        \* what each request is doing and what it has read

vars == <<up, boot, meta, configured, seller, token, link, asked, sess>>

SellerRec == [email : People \cup {NoOne}, pass : Passwords \cup {NoPass},
              tier : {"free", "pro"}, owner : BOOLEAN]
\* late: the password was changed while the sign-in was checking it.
TokenRec == [seller : Nat, by : People, pass : Passwords, late : BOOLEAN, live : BOOLEAN]
LinkRec == [seller : Nat, state : {"sent", "used", "void", "expired"}, uses : Nat]

Locals == [pc : {"idle", "hash", "claim", "insert", "token", "replace", "send",
                 "burn", "password", "signout"},
           by : People \cup {NoOne}, id : Nat, pass : Passwords \cup {NoPass}, link : Nat]
Idle == [pc |-> "idle", by |-> NoOne, id |-> 0, pass |-> NoPass, link |-> 0]

Ids == DOMAIN seller

\* The single-tenant program left one seller without e-mail or password.
Init ==
    /\ up = FALSE /\ boot = "paywall" /\ meta = FALSE
    /\ configured \in BOOLEAN
    /\ seller = <<[email |-> NoOne, pass |-> NoPass, tier |-> "free", owner |-> FALSE]>>
    /\ token = <<>> /\ link = <<>>
    /\ asked = [k \in Kinds |-> 0]
    /\ sess = [s \in Sessions |-> Idle]

Charge(kind) == asked[kind] < Budget[kind] /\ asked' = [asked EXCEPT ![kind] = @ + 1]

Ask(s, kind) == up /\ sess[s].pc = "idle" /\ kind \in Serves[s] /\ Charge(kind)

At(s, pc) == sess[s].pc = pc

Goto(s, pc) == sess' = [sess EXCEPT ![s].pc = pc]

Done(s) == sess' = [sess EXCEPT ![s] = Idle]

\* findSellerByEmail; the unique index leaves at most one.
Of(email) == {i \in Ids : seller[i].email = email}

-----------------------------------------------------------------------------
(* The boot, before the server listens.                                    *)

\* grandfatherExistingToPro: unless the flag is set, everyone becomes Pro ...
Grandfather ==
    /\ ~up /\ boot = "paywall"
    /\ IF meta THEN boot' = "owner" /\ UNCHANGED seller
       ELSE /\ boot' = "flag"
            /\ seller' = [i \in Ids |-> [seller[i] EXCEPT !.tier = "pro"]]
    /\ UNCHANGED <<up, meta, configured, token, link, asked, sess>>

\* ... and then the flag is set.
SetFlag ==
    /\ ~up /\ boot = "flag"
    /\ meta' = TRUE
    /\ boot' = "owner"
    /\ UNCHANGED <<up, configured, seller, token, link, asked, sess>>

\* ensureOwnerSeller: the flagged row, else the customer with the owner's e-mail, else a
\* new row; then the server listens.
OwnerRow ==
    /\ ~up /\ boot = "owner"
    /\ seller' =
          IF ~configured \/ \E i \in Ids : seller[i].owner THEN seller
          ELSE IF Of(Boss) # {}
               THEN [i \in Ids |-> IF i \in Of(Boss) THEN [seller[i] EXCEPT !.owner = TRUE, !.tier = "pro"]
                                   ELSE seller[i]]
               ELSE Append(seller, [email |-> Boss, pass |-> NoPass, tier |-> "pro", owner |-> TRUE])
    /\ up' = TRUE /\ boot' = "done"
    /\ UNCHANGED <<meta, configured, token, link, asked, sess>>

\* The process stops, also while it boots; the owner's keys may be set by the next boot.
Restart ==
    /\ Charge("fault")
    /\ \A s \in Sessions : sess[s].pc \in MayDie \cup {"idle"}
    /\ up' = FALSE /\ boot' = "paywall"
    /\ configured' \in {configured, TRUE}
    /\ sess' = [s \in Sessions |-> Idle]
    /\ UNCHANGED <<meta, seller, token, link>>

-----------------------------------------------------------------------------
(* Sign-up.                                                                *)

\* createAccount reads whether the e-mail is taken.
SignUp(s, p) ==
    /\ Ask(s, "signup")
    /\ Of(p) = {}
    /\ sess' = [sess EXCEPT ![s] = [Idle EXCEPT !.pc = "hash", !.by = p, !.pass = <<p, 0>>]]
    /\ UNCHANGED <<up, boot, meta, configured, seller, token, link>>

Legacy == {i \in Ids : seller[i].email = NoOne /\ seller[i].pass = NoPass}

\* After hashing the password it reads the seller nobody has claimed yet, the first by id.
Hash(s) ==
    /\ At(s, "hash")
    /\ IF Legacy = {} THEN Goto(s, "insert")
       ELSE sess' = [sess EXCEPT ![s].pc = "claim",
                         ![s].id = CHOOSE i \in Legacy : \A j \in Legacy : i <= j]
    /\ UNCHANGED <<up, boot, meta, configured, seller, token, link, asked>>

\* Mutant of Claim: the password is written and the e-mail is not.
ClaimNameless(s) ==
    /\ At(s, "claim")
    /\ seller' = [seller EXCEPT ![sess[s].id] = [seller[sess[s].id] EXCEPT !.pass = sess[s].pass]]
    /\ Goto(s, "token")
    /\ UNCHANGED <<up, boot, meta, configured, token, link, asked>>

\* The claimed row is written without another look; the unique index may refuse the e-mail.
Claim(s) ==
    /\ At(s, "claim")
    /\ IF Of(sess[s].by) \subseteq {sess[s].id}
       THEN /\ seller' = [seller EXCEPT ![sess[s].id] =
                             [seller[sess[s].id] EXCEPT !.email = sess[s].by, !.pass = sess[s].pass]]
            /\ Goto(s, "token")
       ELSE Done(s) /\ UNCHANGED seller
    /\ UNCHANGED <<up, boot, meta, configured, token, link, asked>>

Insert(s) ==
    /\ At(s, "insert")
    /\ IF Of(sess[s].by) = {}
       THEN /\ seller' = Append(seller, [email |-> sess[s].by, pass |-> sess[s].pass,
                                         tier |-> "free", owner |-> FALSE])
            /\ sess' = [sess EXCEPT ![s].pc = "token", ![s].id = Len(seller) + 1]
       ELSE Done(s) /\ UNCHANGED seller
    /\ UNCHANGED <<up, boot, meta, configured, token, link, asked>>

\* createSession: the browser gets the cookie.
NewToken(s) ==
    /\ At(s, "token")
    /\ Len(token) < Tokens
    /\ token' = Append(token, [seller |-> sess[s].id, by |-> sess[s].by, pass |-> sess[s].pass,
                               late |-> seller[sess[s].id].pass # sess[s].pass, live |-> TRUE])
    /\ Done(s)
    /\ UNCHANGED <<up, boot, meta, configured, seller, link, asked>>

-----------------------------------------------------------------------------
(* Sign-in and sign-out.                                                   *)

\* authenticate reads the seller with that e-mail, then verifies it, which takes a
\* while, and creates the session; last_login_at is data.
SignIn(s, p, n) ==
    /\ Ask(s, "signin")
    /\ \E i \in Of(p) :
          sess' = [sess EXCEPT ![s] =
                      IF seller[i].pass = <<p, n>>
                      THEN [Idle EXCEPT !.pc = "token", !.by = p, !.id = i, !.pass = <<p, n>>]
                      ELSE Idle]
    /\ UNCHANGED <<up, boot, meta, configured, seller, token, link>>

Logout(s, t) ==
    /\ Ask(s, "logout")
    /\ t \in DOMAIN token /\ token[t].live
    /\ token' = [token EXCEPT ![t].live = FALSE]
    /\ UNCHANGED <<up, boot, meta, configured, seller, link, sess>>

\* A session ends after 30 days, a link after an hour.
Expire ==
    /\ Charge("fault")
    /\ \/ \E t \in DOMAIN token : /\ token[t].live
                                  /\ token' = [token EXCEPT ![t].live = FALSE]
                                  /\ UNCHANGED link
       \/ \E l \in DOMAIN link : /\ link[l].state = "sent"
                                 /\ link' = [link EXCEPT ![l].state = "expired"]
                                 /\ UNCHANGED token
    /\ UNCHANGED <<up, boot, meta, configured, seller, sess>>

-----------------------------------------------------------------------------
(* Password reset.                                                         *)

\* createPasswordReset: for a seller who has a password.
AskReset(s, p) ==
    /\ Ask(s, "ask")
    /\ \E i \in Of(p) : /\ seller[i].pass # NoPass
                        /\ sess' = [sess EXCEPT ![s] = [Idle EXCEPT !.pc = "replace", !.by = p, !.id = i]]
    /\ UNCHANGED <<up, boot, meta, configured, seller, token, link>>

\* The seller's links that are not used are deleted ...
VoidLinks(s) ==
    /\ At(s, "replace")
    /\ link' = [l \in DOMAIN link |->
                   IF link[l].seller = sess[s].id /\ link[l].state # "used"
                   THEN [link[l] EXCEPT !.state = "void"] ELSE link[l]]
    /\ Goto(s, "send")
    /\ UNCHANGED <<up, boot, meta, configured, seller, token, asked>>

\* ... and the new one is stored and mailed.
SendLink(s) ==
    /\ At(s, "send")
    /\ Len(link) < Links
    /\ link' = Append(link, [seller |-> sess[s].id, state |-> "sent", uses |-> 0])
    /\ Done(s)
    /\ UNCHANGED <<up, boot, meta, configured, seller, token, asked>>

\* consumePasswordReset: somebody with the mail sets the password of link l.
UseLink(s, l) ==
    /\ Ask(s, "use")
    /\ l \in DOMAIN link
    /\ sess' = [sess EXCEPT ![s] = [Idle EXCEPT !.pc = "burn", !.link = l]]
    /\ UNCHANGED <<up, boot, meta, configured, seller, token, link>>

\* Mutant of Burn: the link is looked at here and spent nowhere.
BurnLater(s) ==
    /\ At(s, "burn")
    /\ LET l == sess[s].link
           i == link[l].seller
       IN  IF link[l].state = "sent"
           THEN /\ link' = [link EXCEPT ![l].uses = @ + 1]
                /\ sess' = [sess EXCEPT ![s] = [sess[s] EXCEPT !.pc = "password", !.id = i,
                                !.by = seller[i].email, !.pass = <<seller[i].email, l>>]]
           ELSE Done(s) /\ UNCHANGED link
    /\ UNCHANGED <<up, boot, meta, configured, seller, token, asked>>

\* One UPDATE ... RETURNING spends the link if it is unused and young enough.
Burn(s) ==
    /\ At(s, "burn")
    /\ LET l == sess[s].link
           i == link[l].seller
       IN  IF link[l].state = "sent"
           THEN /\ link' = [link EXCEPT ![l].state = "used", ![l].uses = @ + 1]
                /\ sess' = [sess EXCEPT ![s] = [sess[s] EXCEPT !.pc = "password", !.id = i,
                                !.by = seller[i].email, !.pass = <<seller[i].email, l>>]]
           ELSE Done(s) /\ UNCHANGED link
    /\ UNCHANGED <<up, boot, meta, configured, seller, token, asked>>

SetPassword(s) ==
    /\ At(s, "password")
    /\ seller' = [seller EXCEPT ![sess[s].id].pass = sess[s].pass]
    /\ Goto(s, "signout")
    /\ UNCHANGED <<up, boot, meta, configured, token, link, asked>>

\* Mutant of SignOutAll: the sessions are left as they are.
SignOutNone(s) ==
    /\ At(s, "signout")
    /\ Goto(s, "token")
    /\ UNCHANGED <<up, boot, meta, configured, seller, token, link, asked>>

\* "Sign out every existing session for the account"; a fresh session follows.
SignOutAll(s) ==
    /\ At(s, "signout")
    /\ token' = [t \in DOMAIN token |->
                    IF token[t].seller = sess[s].id THEN [token[t] EXCEPT !.live = FALSE] ELSE token[t]]
    /\ Goto(s, "token")
    /\ UNCHANGED <<up, boot, meta, configured, seller, link, asked>>

-----------------------------------------------------------------------------

\* The owner's console puts a seller on the other plan.
SetPlan(s, i) ==
    /\ Ask(s, "plan")
    /\ configured
    /\ i \in Ids
    /\ seller' = [seller EXCEPT ![i].tier = IF @ = "pro" THEN "free" ELSE "pro"]
    /\ UNCHANGED <<up, boot, meta, configured, token, link, sess>>

\* A statement fails: the request ends with "Please try again".
Die(s) ==
    /\ sess[s].pc \in MayDie
    /\ Charge("fault")
    /\ Done(s)
    /\ UNCHANGED <<up, boot, meta, configured, seller, token, link>>

Steps(s) ==
    \/ Hash(s) \/ Claim(s) \/ Insert(s) \/ NewToken(s)
    \/ VoidLinks(s) \/ SendLink(s) \/ Burn(s) \/ SetPassword(s) \/ SignOutAll(s)

Requests(s) ==
    \/ \E p \in People : SignUp(s, p) \/ AskReset(s, p)
    \/ \E p \in People, n \in 0..Links : SignIn(s, p, n)
    \/ \E t \in 1..Tokens : Logout(s, t)
    \/ \E l \in 1..Links : UseLink(s, l)
    \/ \E i \in Ids : SetPlan(s, i)

Next ==
    \/ Grandfather \/ SetFlag \/ OwnerRow \/ Restart \/ Expire
    \/ \E s \in Sessions : Requests(s) \/ Steps(s) \/ Die(s)

Spec == Init /\ [][Next]_vars

-----------------------------------------------------------------------------
(* Properties.                                                             *)

\* "Every account after is isolated" (README): whoever is signed in works in the row that
\* carries their own e-mail, whichever sign-ups, claims and resets came before.
Isolated == \A t \in DOMAIN token : token[t].live => seller[token[t].seller].email = token[t].by

\* "The link works once", also when it is opened twice at the same time, and "any earlier
\* unused links for the account are voided": an account has one link that still works.
ResetLinks ==
    /\ \A l \in DOMAIN link : link[l].uses <= 1
    /\ \A k, l \in DOMAIN link :
          (link[k].seller = link[l].seller /\ link[k].state = "sent" /\ link[l].state = "sent") => k = l

\* "Whoever had the old password loses access": when no reset is under way, a session goes
\* back to the password the seller has now, unless its sign-in overlapped the reset.
OldPasswordOut ==
    \A t \in DOMAIN token :
        (token[t].live /\ \A s \in Sessions : ~(At(s, "signout") /\ sess[s].id = token[t].seller))
            => token[t].late \/ token[t].pass = seller[token[t].seller].pass

=============================================================================
