----------------------------- MODULE Connection -----------------------------
(***************************************************************************)
(* A seller's eBay connection: the consent flow, tokens and their refresh, *)
(* business policies (app/ebay-sell.ts), and eBay's account-deletion       *)
(* notices, which remove what is held about a member who left              *)
(* (app/ebay-deletion.ts, server.ts).                                      *)
(*                                                                         *)
(* eBay is external: its members, their names, their consent and its       *)
(* notices.  A token, a user name or a policy is the member it is of.      *)
(***************************************************************************)
EXTENDS Naturals, FiniteSets

CONSTANTS
    Sellers,    \* sellers of the program
    Members,    \* eBay members, as sellers and as buyers
    SignsIn,    \* SignsIn[x]: the eBay accounts seller x signs in with
    OnePolicy,  \* members with a single policy of a kind
    Orders,     \* eBay orders the sellers may pull
    BuyerOf,    \* BuyerOf[o]: the member who placed order o
    States,     \* one-time states of the consent flow
    Sessions,   \* requests at the same time
    Serves,     \* Serves[s]: the kinds of request session s makes
    Budget,     \* bound: requests of each kind, accounts closed, and changes of name or faults, in a behaviour
    OneAtATime  \* a seller signs in at eBay only while not connected and nothing else of theirs runs

Kinds == {"page", "return", "disconnect", "refresh", "notice", "close", "mishap", "clear"}
NoSeller == "none"
NoMember == "none"
NoState == "none"
NoOrder == "none"

ASSUME ConnectionAssumption ==
    /\ NoSeller \notin Sellers
    /\ NoMember \notin Members
    /\ NoState \notin States
    /\ NoOrder \notin Orders
    /\ SignsIn \in [Sellers -> SUBSET Members]
    /\ OnePolicy \subseteq Members
    /\ BuyerOf \in [Orders -> Members]
    /\ Serves \in [Sessions -> SUBSET Kinds]
    /\ Budget \in [Kinds -> Nat]
    /\ OneAtATime \in BOOLEAN

VARIABLES
    member,    \* member[m]: whether m's account is open, and m's user name (external)
    acked,     \* the closed members whose notice eBay holds for delivered (external)
    state,     \* state[t]: oauth_states, and who consented on eBay's page for it
    conn,      \* conn[x]: seller x's row of ebay_connections
    flag,      \* flag[x]: sellers.ebay_connected
    buyer,     \* buyer[o]: orders.buyer of a pulled order
    log,       \* ebay_deletion_log: the members whose notice has its receipt
    asked,     \* how many of what Budget bounds there were
    sess       \* what each session is doing and what it has read

vars == <<member, acked, state, conn, flag, buyer, log, asked, sess>>

\* A name is its member's and never another's (external); the number counts the changes of name.
Names == Members \X Nat
NoName == <<NoMember, 0>>
NameOf(m) == <<m, member[m].name>>

MemberRec == [open : BOOLEAN, name : Nat]
StateRec == [owner : Sellers \cup {NoSeller}, by : Members \cup {NoMember}, live : BOOLEAN]
Row == [access : Members, refresh : Members,
        user : Names \cup {NoName}, user_id : Members \cup {NoMember},
        policies : Members \cup {NoMember}, policy_ids : Members \cup {NoMember}]
Off == [access |-> NoMember]        \* no row
Connected(x) == conn[x] # Off

Idle == [pc |-> "idle", who |-> NoSeller, st |-> NoState, of |-> NoMember, name |-> NoName,
         order |-> NoOrder, todo |-> {}]

Init ==
    /\ member = [m \in Members |-> [open |-> TRUE, name |-> 0]]
    /\ acked = {}
    /\ state = [t \in States |-> [owner |-> NoSeller, by |-> NoMember, live |-> FALSE]]
    /\ conn = [x \in Sellers |-> Off]
    /\ flag = [x \in Sellers |-> FALSE]
    /\ buyer = [o \in Orders |-> NoName]
    /\ log = {}
    /\ asked = [k \in Kinds |-> 0]
    /\ sess = [s \in Sessions |-> Idle]

Charge(kind) == asked[kind] < Budget[kind] /\ asked' = [asked EXCEPT ![kind] = @ + 1]

Ask(s, kind) == sess[s].pc = "idle" /\ kind \in Serves[s] /\ Charge(kind)

At(s, pc) == sess[s].pc = pc

Goto(s, pc) == sess' = [sess EXCEPT ![s].pc = pc]

\* A request is over: answered, or refused with a message for the seller.
Done(s) == sess' = [sess EXCEPT ![s] = Idle]

-----------------------------------------------------------------------------
(* eBay's members.                                                         *)

Rename(m) ==
    /\ member[m].open
    /\ Charge("mishap")
    /\ member' = [member EXCEPT ![m].name = @ + 1]
    /\ UNCHANGED <<acked, state, conn, flag, buyer, log, sess>>

Close(m) ==
    /\ member[m].open
    /\ Charge("close")
    /\ member' = [member EXCEPT ![m].open = FALSE]
    /\ UNCHANGED <<acked, state, conn, flag, buyer, log, sess>>

\* The seller consents on eBay's page for state t, as member m.
SignIn(t, m) ==
    LET x == state[t].owner
    IN  /\ x # NoSeller /\ state[t].by = NoMember
        /\ m \in SignsIn[x] /\ member[m].open
        /\ OneAtATime => /\ ~Connected(x)
                         /\ \A s \in Sessions : sess[s].who # x
                         /\ \A u \in States : state[u].owner = x /\ state[u].live => state[u].by = NoMember
        /\ state' = [state EXCEPT ![t].by = m]
        /\ UNCHANGED <<member, acked, conn, flag, buyer, log, asked, sess>>

-----------------------------------------------------------------------------
(* The consent flow.                                                       *)

\* A state drawn at random: one never drawn before.
Fresh == LET unused == {t \in States : state[t].owner = NoSeller}
         IN  IF unused = {} THEN {} ELSE {CHOOSE t \in unused : TRUE}

\* beginConnect: a one-time state; states older than an hour are dropped.
Begin(s, x) ==
    /\ Ask(s, "page")
    /\ ~Connected(x)
    /\ \E old \in SUBSET {u \in States : state[u].live}, t \in Fresh :
          state' = [u \in States |->
                       IF u = t THEN [owner |-> x, by |-> NoMember, live |-> TRUE]
                       ELSE [state[u] EXCEPT !.live = @ /\ u \notin old]]
    /\ UNCHANGED <<member, acked, conn, flag, buyer, log, sess>>

\* The browser comes back with a code and the state, under whoever is signed in by then.
Return(s, x, t) ==
    /\ Ask(s, "return")
    /\ state[t].by # NoMember
    /\ sess' = [sess EXCEPT ![s] = [Idle EXCEPT !.pc = "redeem", !.who = x, !.st = t]]
    /\ UNCHANGED <<member, acked, state, conn, flag, buyer, log>>

\* DELETE ... RETURNING seller_id: a state is spent once, and only by the seller who began it.
Redeem(s) ==
    /\ At(s, "redeem")
    /\ LET t == sess[s].st
       IN  /\ state' = [state EXCEPT ![t].live = FALSE]
           /\ IF state[t].live /\ state[t].owner = sess[s].who THEN Goto(s, "exchange") ELSE Done(s)
    /\ UNCHANGED <<member, acked, conn, flag, buyer, log, asked>>

\* eBay exchanges the code for the tokens of the member who consented.
Exchange(s) ==
    /\ At(s, "exchange")
    /\ LET m == state[sess[s].st].by
       IN  IF member[m].open
           THEN sess' = [sess EXCEPT ![s].pc = "store", ![s].of = m]
           ELSE Done(s)
    /\ UNCHANGED <<member, acked, state, conn, flag, buyer, log, asked>>

\* The upsert replaces the tokens; the other columns of a row already there stay.
Store(s) ==
    /\ At(s, "store")
    /\ LET x == sess[s].who
           m == sess[s].of
       IN  conn' = [conn EXCEPT ![x] =
                       IF Connected(x) THEN [conn[x] EXCEPT !.access = m, !.refresh = m]
                       ELSE [access |-> m, refresh |-> m, user |-> NoName, user_id |-> NoMember,
                             policies |-> NoMember, policy_ids |-> NoMember]]
    /\ Goto(s, "flag")
    /\ UNCHANGED <<member, acked, state, flag, buyer, log, asked>>

Flag(s) ==
    /\ At(s, "flag")
    /\ flag' = [flag EXCEPT ![sess[s].who] = TRUE]
    /\ sess' = [sess EXCEPT ![s].pc = "identity", ![s].of = NoMember]
    /\ UNCHANGED <<member, acked, state, conn, buyer, log, asked>>

\* Whether eBay answers a call made with seller x's token.
Answers(x) == Connected(x) /\ member[conn[x].access].open

\* The best-effort identity call: a failure leaves the row without a name.
Identity(s) ==
    /\ At(s, "identity")
    /\ LET x == sess[s].who
       IN  \/ /\ Answers(x)
              /\ sess' = [sess EXCEPT ![s].pc = "name", ![s].of = conn[x].access,
                                      ![s].name = NameOf(conn[x].access)]
              /\ UNCHANGED asked
           \/ ~Answers(x) /\ Goto(s, "policies") /\ UNCHANGED asked
           \/ Charge("mishap") /\ Goto(s, "policies")
    /\ UNCHANGED <<member, acked, state, conn, flag, buyer, log>>

Name(s) ==
    /\ At(s, "name")
    /\ LET x == sess[s].who
       IN  conn' = IF Connected(x)
                   THEN [conn EXCEPT ![x] = [conn[x] EXCEPT !.user = sess[s].name, !.user_id = sess[s].of]]
                   ELSE conn
    /\ sess' = [sess EXCEPT ![s].pc = "policies", ![s].of = NoMember, ![s].name = NoName]
    /\ UNCHANGED <<member, acked, state, flag, buyer, log, asked>>

\* syncPolicies: eBay's policies for the account of the row's token.
Policies(s) ==
    /\ At(s, "policies")
    /\ LET x == sess[s].who
       IN  IF Answers(x)
           THEN sess' = [sess EXCEPT ![s].pc = "save", ![s].of = conn[x].access]
           ELSE Done(s)
    /\ UNCHANGED <<member, acked, state, conn, flag, buyer, log, asked>>

SavePolicies(s) ==
    /\ At(s, "save")
    /\ LET x == sess[s].who
       IN  conn' = IF Connected(x) THEN [conn EXCEPT ![x] = [conn[x] EXCEPT !.policies = sess[s].of]]
                   ELSE conn
    /\ Goto(s, "pick")
    /\ UNCHANGED <<member, acked, state, flag, buyer, log, asked>>

\* The ids chosen so far are read, and completed where there is one policy of a kind.
Pick(s) ==
    /\ At(s, "pick")
    /\ LET x == sess[s].who
           ids == IF Connected(x) THEN conn[x].policy_ids ELSE NoMember
       IN  sess' = [sess EXCEPT ![s].pc = "choose",
                        ![s].of = IF ids = NoMember /\ sess[s].of \in OnePolicy THEN sess[s].of ELSE ids]
    /\ UNCHANGED <<member, acked, state, conn, flag, buyer, log, asked>>

\* setPolicyIds; the policies' names, copied to the seller's CSV fields, are data.
Choose(s) ==
    /\ At(s, "choose")
    /\ LET x == sess[s].who
       IN  conn' = IF Connected(x) THEN [conn EXCEPT ![x] = [conn[x] EXCEPT !.policy_ids = sess[s].of]]
                   ELSE conn
    /\ Done(s)
    /\ UNCHANGED <<member, acked, state, flag, buyer, log, asked>>

\* "Sync policies from eBay" on the settings page.
Sync(s, x) ==
    /\ Ask(s, "page")
    /\ Connected(x)
    /\ sess' = [sess EXCEPT ![s] = [Idle EXCEPT !.pc = "policies", !.who = x]]
    /\ UNCHANGED <<member, acked, state, conn, flag, buyer, log>>

\* The settings form saves the policies the seller picked from the row's.
SaveSettings(s, x) ==
    /\ Ask(s, "page")
    /\ Connected(x)
    /\ sess' = [sess EXCEPT ![s] = [Idle EXCEPT !.pc = "choose", !.who = x, !.of = conn[x].policies]]
    /\ UNCHANGED <<member, acked, state, conn, flag, buyer, log>>

-----------------------------------------------------------------------------
(* Disconnecting, refreshing tokens, pulling orders.                       *)

Disconnect(s, x) ==
    /\ Ask(s, "disconnect")
    /\ Connected(x)
    /\ conn' = [conn EXCEPT ![x] = Off]
    /\ sess' = [sess EXCEPT ![s] = [Idle EXCEPT !.pc = "unflag", !.who = x]]
    /\ UNCHANGED <<member, acked, state, flag, buyer, log>>

Unflag(s) ==
    /\ At(s, "unflag")
    /\ flag' = [flag EXCEPT ![sess[s].who] = FALSE]
    /\ Done(s)
    /\ UNCHANGED <<member, acked, state, conn, buyer, log, asked>>

\* userToken, before any call to eBay: a token close to its expiry is refreshed.
Refresh(s, x) ==
    /\ Ask(s, "refresh")
    /\ Connected(x)
    /\ sess' = [sess EXCEPT ![s] = [Idle EXCEPT !.pc = "refresh", !.who = x, !.of = conn[x].refresh]]
    /\ UNCHANGED <<member, acked, state, conn, flag, buyer, log>>

Refreshed(s) ==
    /\ At(s, "refresh")
    /\ IF member[sess[s].of].open THEN Goto(s, "access") ELSE Done(s)
    /\ UNCHANGED <<member, acked, state, conn, flag, buyer, log, asked>>

\* Mutant of SaveAccess: the update without its seller_id.
SaveAccessAll(s) ==
    /\ At(s, "access")
    /\ conn' = [x \in Sellers |-> IF Connected(x) THEN [conn[x] EXCEPT !.access = sess[s].of] ELSE Off]
    /\ Done(s)
    /\ UNCHANGED <<member, acked, state, flag, buyer, log, asked>>

SaveAccess(s) ==
    /\ At(s, "access")
    /\ LET x == sess[s].who
       IN  conn' = IF Connected(x) THEN [conn EXCEPT ![x] = [conn[x] EXCEPT !.access = sess[s].of]]
                   ELSE conn
    /\ Done(s)
    /\ UNCHANGED <<member, acked, state, flag, buyer, log, asked>>

\* "Fetch eBay orders": an order not held yet comes with its buyer's name of the day.
Pull(s, x, o) ==
    /\ Ask(s, "page")
    /\ Answers(x)
    /\ buyer[o] = NoName
    /\ member[BuyerOf[o]].open
    /\ sess' = [sess EXCEPT ![s] = [Idle EXCEPT !.pc = "insert", !.who = x, !.order = o,
                                        !.name = NameOf(BuyerOf[o])]]
    /\ UNCHANGED <<member, acked, state, conn, flag, buyer, log>>

InsertOrder(s) ==
    /\ At(s, "insert")
    /\ buyer' = [buyer EXCEPT ![sess[s].order] = sess[s].name]
    /\ Done(s)
    /\ UNCHANGED <<member, acked, state, conn, flag, log, asked>>

-----------------------------------------------------------------------------
(* The account-deletion notice.                                            *)

\* Whether a request of a seller works on member m: such requests end, or time out after
\* 15 or 30 seconds, before eBay's notice about m arrives (external).
Handles(s, m) == sess[s].pc # "idle" /\ sess[s].who # NoSeller /\ (sess[s].of = m \/ sess[s].name[1] = m)

\* Mutant of Deliver: the notice is answered before it is applied.
DeliverAcked(s, m) ==
    /\ At(s, "idle") /\ "notice" \in Serves[s]
    /\ ~member[m].open /\ m \notin acked
    /\ \A r \in Sessions : ~Handles(r, m)
    /\ acked' = acked \cup {m}
    /\ sess' = [sess EXCEPT ![s] = [Idle EXCEPT !.pc = "seen", !.of = m, !.name = NameOf(m)]]
    /\ UNCHANGED <<member, state, conn, flag, buyer, log, asked>>

\* eBay posts, and posts again until it is answered, the notice that m left; its signature
\* is checked first, and one that fails the check is refused like any fault.
Deliver(s, m) ==
    /\ At(s, "idle") /\ "notice" \in Serves[s]
    /\ ~member[m].open /\ m \notin acked
    /\ \A r \in Sessions : ~Handles(r, m)
    /\ sess' = [sess EXCEPT ![s] = [Idle EXCEPT !.pc = "seen", !.of = m, !.name = NameOf(m)]]
    /\ UNCHANGED <<member, acked, state, conn, flag, buyer, log, asked>>

\* applyDeletion: a notice that has its receipt is a duplicate.
Seen(s) ==
    /\ At(s, "seen")
    /\ Goto(s, IF sess[s].of \in log THEN "answer" ELSE "forget")
    /\ UNCHANGED <<member, acked, state, conn, flag, buyer, log, asked>>

\* Mutant of Forget: rows match by the user name only.
ForgetByName(s) ==
    /\ At(s, "forget")
    /\ LET gone == {x \in Sellers : Connected(x) /\ conn[x].user = sess[s].name}
       IN  /\ conn' = [x \in Sellers |-> IF x \in gone THEN Off ELSE conn[x]]
           /\ sess' = [sess EXCEPT ![s].pc = "unmark", ![s].todo = gone]
    /\ UNCHANGED <<member, acked, state, flag, buyer, log, asked>>

\* DELETE FROM ebay_connections, by user id or by user name, RETURNING the sellers.
Forget(s) ==
    /\ At(s, "forget")
    /\ LET gone == {x \in Sellers : Connected(x) /\ (\/ conn[x].user_id = sess[s].of
                                                      \/ conn[x].user = sess[s].name)}
       IN  /\ conn' = [x \in Sellers |-> IF x \in gone THEN Off ELSE conn[x]]
           /\ sess' = [sess EXCEPT ![s].pc = "unmark", ![s].todo = gone]
    /\ UNCHANGED <<member, acked, state, flag, buyer, log, asked>>

\* One UPDATE sellers per connection that went.
Unmark(s) ==
    /\ At(s, "unmark")
    /\ \E x \in sess[s].todo :
          /\ flag' = [flag EXCEPT ![x] = FALSE]
          /\ sess' = [sess EXCEPT ![s].todo = @ \ {x}]
    /\ UNCHANGED <<member, acked, state, conn, buyer, log, asked>>

\* The buyer of pulled orders is cleared by name.  Names that compare alike are the same
\* member's; an old name of the member matches nothing.
Clear(s) ==
    /\ At(s, "unmark") /\ sess[s].todo = {}
    /\ buyer' = [o \in Orders |-> IF buyer[o] = sess[s].name THEN NoName ELSE buyer[o]]
    /\ Goto(s, "log")
    /\ UNCHANGED <<member, acked, state, conn, flag, log, asked>>

\* ... or that statement fails, which .catch(() => undefined) passes over.
ClearFails(s) ==
    /\ At(s, "unmark") /\ sess[s].todo = {}
    /\ Charge("clear")
    /\ Goto(s, "log")
    /\ UNCHANGED <<member, acked, state, conn, flag, buyer, log>>

\* The receipt, last.
Log(s) ==
    /\ At(s, "log")
    /\ log' = log \cup {sess[s].of}
    /\ Goto(s, "answer")
    /\ UNCHANGED <<member, acked, state, conn, flag, buyer, asked>>

\* 204.
Answer(s) ==
    /\ At(s, "answer")
    /\ acked' = acked \cup {sess[s].of}
    /\ Done(s)
    /\ UNCHANGED <<member, state, conn, flag, buyer, log, asked>>

\* A statement or a call fails, or the process restarts.
Die(s) ==
    /\ ~At(s, "idle")
    /\ Charge("mishap")
    /\ Done(s)
    /\ UNCHANGED <<member, acked, state, conn, flag, buyer, log>>

-----------------------------------------------------------------------------

SellerSteps(s) ==
    \/ Redeem(s) \/ Exchange(s) \/ Store(s) \/ Flag(s) \/ Identity(s) \/ Name(s)
    \/ Policies(s) \/ SavePolicies(s) \/ Pick(s) \/ Choose(s)
    \/ Unflag(s) \/ Refreshed(s) \/ SaveAccess(s) \/ InsertOrder(s)

NoticeSteps(s) ==
    \/ Seen(s) \/ Forget(s) \/ Unmark(s) \/ Clear(s) \/ ClearFails(s) \/ Log(s) \/ Answer(s)

Requests(s) ==
    \/ \E x \in Sellers, t \in States : Return(s, x, t)
    \/ \E x \in Sellers : Begin(s, x) \/ Sync(s, x) \/ SaveSettings(s, x) \/ Disconnect(s, x) \/ Refresh(s, x)
    \/ \E x \in Sellers, o \in Orders : Pull(s, x, o)

Next ==
    \/ \E m \in Members : Rename(m) \/ Close(m)
    \/ \E t \in States, m \in Members : SignIn(t, m)
    \/ \E s \in Sessions : Requests(s) \/ SellerSteps(s) \/ NoticeSteps(s) \/ Die(s)
    \/ \E s \in Sessions, m \in Members : Deliver(s, m)

Spec == Init /\ [][Next]_vars

\* Statements and calls return or time out, and eBay posts a notice until it is answered.
FairSpec ==
    /\ Spec
    /\ \A s \in Sessions : WF_vars(SellerSteps(s) \/ NoticeSteps(s))
    /\ WF_vars(\E s \in Sessions, m \in Members : Deliver(s, m))

-----------------------------------------------------------------------------
(* Properties.                                                             *)

\* Whatever a connection holds is of one eBay account, tokens, name and policies alike, also
\* when a refresh, a sync or a sign-in ends after the seller moved to another account.
OneMember ==
    \A x \in Sellers : Connected(x) =>
        /\ conn[x].refresh = conn[x].access
        /\ {conn[x].user_id, conn[x].user[1], conn[x].policies, conn[x].policy_ids}
               \subseteq {conn[x].access, NoMember}

\* Once its receipt is written, the program holds nothing it can tell to be of the member who
\* left: no connection by that user id, no token but of an unnamed row, no order by the
\* buyer's last name if clearing it never failed, whatever else failed, was repeated or
\* overlapped before.
Forgotten ==
    \A m \in log :
        /\ \A x \in Sellers : Connected(x) =>
              /\ m \notin {conn[x].user_id, conn[x].user[1]}
              /\ m \in {conn[x].access, conn[x].refresh} => conn[x].user = NoName
        /\ asked["clear"] = 0 => \A o \in Orders : buyer[o] # NameOf(m)

\* Every member who leaves is forgotten: from some time on, whoever has left has a receipt.
EventuallyForgotten == <>[](\A m \in Members : member[m].open \/ m \in log)

=============================================================================
