--------------------------- MODULE AccountsProofs ---------------------------
(***************************************************************************)
(* Theorems about Accounts for every number of people, requests, sessions  *)
(* and reset links; and about Workspace: what is logged, and whose lists a *)
(* request changes.                                                        *)
(***************************************************************************)
EXTENDS Accounts, Workspace, NaturalsInduction, WellFoundedInduction, SequenceTheorems, TLAPS

\* A nonempty set of ids has a least one.
LEMMA LeastId ==
    ASSUME NEW ids, ids \subseteq Nat, ids # {}
    PROVE  (CHOOSE i \in ids : \A j \in ids : i <= j) \in ids
<1> DEFINE R == {ss \in Nat \X Nat : ss[1] < ss[2]}
<1>1. IsWellFoundedOn(R, Nat)
  BY NatLessThanWellFounded DEF OpToRel
<1>2. PICK i \in ids : \A j \in ids : ~ (<<j, i>> \in R)
  BY <1>1, WFMin
<1>3. \A j \in Nat : i \in Nat /\ ~ (<<j, i>> \in R) => i <= j
  OBVIOUS
<1>4. \A j \in ids : i <= j
  BY <1>2, <1>3
<1>5. QED
  BY <1>4

\* A table rewritten row by row is as long as it was.
LEMMA RewriteSeq ==
    ASSUME NEW S, NEW q \in Seq(S), NEW r \in [DOMAIN q -> S]
    PROVE  r \in Seq(S) /\ Len(r) = Len(q) /\ DOMAIN r = DOMAIN q
<1>1. Len(q) \in Nat /\ DOMAIN q = 1..Len(q)
  BY LenProperties
<1>2. r \in [1..Len(q) -> S]
  BY <1>1
<1>3. r \in Seq(S)
  BY <1>1, <1>2, SeqDef
<1>4. DOMAIN r = 1..Len(r) /\ Len(r) \in Nat
  BY <1>3, LenProperties
<1>5. QED
  BY <1>1, <1>2, <1>3, <1>4

\* A table after a row is added.
LEMMA AddRow ==
    ASSUME NEW S, NEW q \in Seq(S), NEW e \in S
    PROVE  /\ Append(q, e) \in Seq(S)
           /\ Len(q) \in Nat
           /\ DOMAIN q = 1..Len(q)
           /\ DOMAIN Append(q, e) = DOMAIN q \cup {Len(q) + 1}
           /\ \A i \in DOMAIN q : Append(q, e)[i] = q[i]
           /\ Append(q, e)[Len(q) + 1] = e
<1>1. Len(q) \in Nat /\ DOMAIN q = 1..Len(q)
  BY LenProperties
<1>2. Append(q, e) \in Seq(S) /\ Len(Append(q, e)) = Len(q) + 1
  BY AppendProperties
<1>3. DOMAIN Append(q, e) = 1..(Len(q) + 1)
  BY <1>2, LenProperties
<1>4. \A i \in 1..Len(q) : Append(q, e)[i] = q[i]
  BY <1>1, AppendProperties
<1>5. QED
  BY <1>1, <1>2, <1>3, <1>4, AppendProperties

-----------------------------------------------------------------------------
(* Type correctness.                                                       *)

TypeOK ==
    /\ up \in BOOLEAN /\ boot \in {"paywall", "flag", "owner", "done"}
    /\ meta \in BOOLEAN /\ configured \in BOOLEAN
    /\ seller \in Seq(SellerRec)
    /\ token \in Seq(TokenRec)
    /\ link \in Seq(LinkRec)
    /\ asked \in [Kinds -> Nat]
    /\ sess \in [Sessions -> Locals]

Named(i) == i \in Ids /\ seller[i].email \in People

\* Beside the types: what a request has in hand, and that rows refer to rows.
LocalOK(r) ==
    /\ r.pc \in {"hash", "claim", "insert"} => r.by \in People /\ r.pass \in Passwords
    /\ r.pc = "claim" => r.id \in Ids
    /\ r.pc \in {"token", "replace", "send", "password", "signout"} => r.by \in People /\ Named(r.id)
    /\ r.pc \in {"token", "password", "signout"} => r.pass \in Passwords
    /\ r.pc = "burn" => r.link \in DOMAIN link

RefsOK ==
    /\ \A t \in DOMAIN token : Named(token[t].seller)
    /\ \A l \in DOMAIN link : Named(link[l].seller)
    /\ Len(link) <= Links

TypeInv == TypeOK /\ RefsOK /\ \A s \in Sessions : LocalOK(sess[s])

LEMMA TablesType ==
    ASSUME TypeOK
    PROVE  /\ Ids = 1..Len(seller) /\ Len(seller) \in Nat /\ \A i \in Ids : seller[i] \in SellerRec
           /\ DOMAIN token = 1..Len(token) /\ Len(token) \in Nat /\ \A t \in DOMAIN token : token[t] \in TokenRec
           /\ DOMAIN link = 1..Len(link) /\ Len(link) \in Nat /\ \A l \in DOMAIN link : link[l] \in LinkRec
BY LenProperties, ElementOfSeq DEF TypeOK, Ids

LEMMA IdleType == Idle \in Locals /\ Idle.pc = "idle"
BY DEF Idle, Locals

LEMMA ChargeType ==
    ASSUME TypeOK, NEW k \in Kinds, Charge(k)
    PROVE  asked' \in [Kinds -> Nat]
BY DEF Charge, TypeOK

LEMMA TypeInit == Init => TypeInv
<1> SUFFICES ASSUME Init PROVE TypeInv
  OBVIOUS
<1> DEFINE row == [email |-> NoOne, pass |-> NoPass, tier |-> "free", owner |-> FALSE]
<1>1. row \in SellerRec
  BY DEF SellerRec
<1>2. seller \in Seq(SellerRec)
  BY <1>1, SeqDef DEF Init
<1>3. token \in Seq(TokenRec) /\ link \in Seq(LinkRec) /\ DOMAIN token = {} /\ DOMAIN link = {} /\ Len(link) = 0
  BY EmptySeq DEF Init
<1>4. TypeOK
  BY <1>2, <1>3, IdleType DEF Init, TypeOK
<1>5. QED
  BY <1>3, <1>4, IdleType, AccountsAssumption DEF Init, TypeInv, RefsOK, LocalOK

-----------------------------------------------------------------------------
(* The tables, step by step.                                               *)

\* The sellers' table is written by these.
LEMMA SellerWriters ==
    ASSUME [Next]_vars, seller' # seller
    PROVE  \/ Grandfather \/ OwnerRow
           \/ \E s \in Sessions : \/ Claim(s) \/ Insert(s) \/ SetPassword(s)
                                  \/ \E i \in Ids : SetPlan(s, i)
<1>1. ASSUME NEW s \in Sessions, Requests(s) PROVE \E i \in Ids : SetPlan(s, i)
  BY <1>1 DEF Requests, SignUp, AskReset, SignIn, Logout, UseLink
<1>2. ASSUME NEW s \in Sessions, Steps(s) \/ Die(s) PROVE Claim(s) \/ Insert(s) \/ SetPassword(s)
  BY <1>2 DEF Steps, Die, Hash, NewToken, VoidLinks, SendLink, Burn, SignOutAll
<1>3. QED
  BY <1>1, <1>2 DEF Next, vars, SetFlag, Restart, Expire

\* The sessions' table.
LEMMA TokenWriters ==
    ASSUME [Next]_vars, token' # token
    PROVE  \/ Expire
           \/ \E s \in Sessions : \/ NewToken(s) \/ SignOutAll(s)
                                  \/ \E t \in 1..Tokens : Logout(s, t)
<1>1. ASSUME NEW s \in Sessions, Requests(s) PROVE \E t \in 1..Tokens : Logout(s, t)
  BY <1>1 DEF Requests, SignUp, AskReset, SignIn, UseLink, SetPlan
<1>2. ASSUME NEW s \in Sessions, Steps(s) \/ Die(s) PROVE NewToken(s) \/ SignOutAll(s)
  BY <1>2 DEF Steps, Die, Hash, Claim, Insert, SetPassword, VoidLinks, SendLink, Burn
<1>3. QED
  BY <1>1, <1>2 DEF Next, vars, SetFlag, Restart, Grandfather, OwnerRow

\* The table of reset links.
LEMMA LinkWriters ==
    ASSUME [Next]_vars, link' # link
    PROVE  Expire \/ \E s \in Sessions : VoidLinks(s) \/ SendLink(s) \/ Burn(s)
<1>1. ASSUME NEW s \in Sessions, Requests(s) PROVE FALSE
  BY <1>1 DEF Requests, SignUp, AskReset, SignIn, UseLink, SetPlan, Logout
<1>2. ASSUME NEW s \in Sessions, Steps(s) \/ Die(s) PROVE VoidLinks(s) \/ SendLink(s) \/ Burn(s)
  BY <1>2 DEF Steps, Die, Hash, Claim, Insert, SetPassword, NewToken, SignOutAll
<1>3. QED
  BY <1>1, <1>2 DEF Next, vars, SetFlag, Restart, Grandfather, OwnerRow

\* A request's locals change by a step of its own, or by a restart.
LEMMA OwnStep ==
    ASSUME TypeOK, [Next]_vars, NEW u \in Sessions, sess'[u] # sess[u]
    PROVE  Requests(u) \/ Steps(u) \/ Die(u) \/ (Restart /\ sess'[u] = Idle)
<1> USE DEF TypeOK
<1>1. ASSUME NEW s \in Sessions, s # u, Requests(s) PROVE sess'[u] = sess[u]
  BY <1>1 DEF Requests, SignUp, AskReset, SignIn, Logout, UseLink, SetPlan
<1>2. ASSUME NEW s \in Sessions, s # u, Steps(s) \/ Die(s) PROVE sess'[u] = sess[u]
  BY <1>2 DEF Steps, Die, Hash, Claim, Insert, NewToken, VoidLinks, SendLink, Burn, SetPassword, SignOutAll,
              Goto, Done
<1>3. QED
  BY <1>1, <1>2 DEF Next, vars, Grandfather, SetFlag, OwnerRow, Restart, Expire

\* A seller's row stays, with its e-mail and password but for a claim and a reset.
LEMMA SellerStep ==
    ASSUME TypeInv, [Next]_vars
    PROVE  /\ seller' \in Seq(SellerRec)
           /\ \A i \in Ids :
                 /\ i \in Ids'
                 /\ \/ seller'[i].email = seller[i].email /\ seller'[i].pass = seller[i].pass
                    \/ \E s \in Sessions : /\ Claim(s) /\ sess[s].id = i
                                           /\ seller'[i].email = sess[s].by /\ seller'[i].pass = sess[s].pass
                    \/ \E s \in Sessions : /\ SetPassword(s) /\ sess[s].id = i
                                           /\ seller'[i].email = seller[i].email /\ seller'[i].pass = sess[s].pass
<1> DEFINE Kept(i) ==
             /\ i \in Ids'
             /\ \/ seller'[i].email = seller[i].email /\ seller'[i].pass = seller[i].pass
                \/ \E s \in Sessions : /\ Claim(s) /\ sess[s].id = i
                                       /\ seller'[i].email = sess[s].by /\ seller'[i].pass = sess[s].pass
                \/ \E s \in Sessions : /\ SetPassword(s) /\ sess[s].id = i
                                       /\ seller'[i].email = seller[i].email /\ seller'[i].pass = sess[s].pass
           Goal == seller' \in Seq(SellerRec) /\ \A i \in Ids : Kept(i)
<1>0. TypeOK /\ seller \in Seq(SellerRec) /\ \A i \in Ids : seller[i] \in SellerRec
  BY TablesType DEF TypeInv, TypeOK
<1>1. CASE seller' = seller
  BY <1>0, <1>1 DEF Ids
<1>2. ASSUME seller' \in [Ids -> SellerRec],
             \A i \in Ids : seller'[i].email = seller[i].email /\ seller'[i].pass = seller[i].pass
      PROVE  Goal
  BY <1>0, <1>2, RewriteSeq DEF Ids
<1>3. CASE Grandfather
  <2>1. CASE seller' = [i \in Ids |-> [seller[i] EXCEPT !.tier = "pro"]]
    <3>1. ASSUME NEW i \in Ids
          PROVE  LET r == [seller[i] EXCEPT !.tier = "pro"]
                 IN  r \in SellerRec /\ r.email = seller[i].email /\ r.pass = seller[i].pass
      BY <1>0 DEF SellerRec
    <3>2. QED
      BY <1>2, <2>1, <3>1
  <2>2. QED
    BY <1>1, <1>3, <2>1 DEF Grandfather
<1>4. CASE OwnerRow
  <2>1. CASE seller' = [i \in Ids |-> IF i \in Of(Boss) THEN [seller[i] EXCEPT !.owner = TRUE, !.tier = "pro"]
                                      ELSE seller[i]]
    <3>1. ASSUME NEW i \in Ids
          PROVE  LET r == [seller[i] EXCEPT !.owner = TRUE, !.tier = "pro"]
                 IN  r \in SellerRec /\ r.email = seller[i].email /\ r.pass = seller[i].pass
      BY <1>0 DEF SellerRec
    <3>2. QED
      BY <1>0, <1>2, <2>1, <3>1
  <2>2. CASE seller' = Append(seller, [email |-> Boss, pass |-> NoPass, tier |-> "pro", owner |-> TRUE])
    <3> DEFINE row == [email |-> Boss, pass |-> NoPass, tier |-> "pro", owner |-> TRUE]
    <3>1. row \in SellerRec
      BY AccountsAssumption DEF SellerRec
    <3> HIDE DEF row
    <3>2. seller' = Append(seller, row)
      BY <2>2 DEF row
    <3>3. QED
      BY <1>0, <3>1, <3>2, AddRow DEF Ids
  <2>3. QED
    BY <1>1, <1>4, <2>1, <2>2 DEF OwnerRow
<1>5. ASSUME NEW s \in Sessions, Claim(s), seller' # seller PROVE Goal
  <2> DEFINE j == sess[s].id
             r == [seller[j] EXCEPT !.email = sess[s].by, !.pass = sess[s].pass]
  <2>1. j \in Ids /\ sess[s].by \in People /\ sess[s].pass \in Passwords
    BY <1>5 DEF Claim, At, TypeInv, LocalOK
  <2>2. r \in SellerRec /\ r.email = sess[s].by /\ r.pass = sess[s].pass
    BY <1>0, <2>1 DEF SellerRec
  <2>3. seller' = [seller EXCEPT ![j] = r]
    BY <1>5 DEF Claim
  <2> HIDE DEF j, r
  <2>4. seller' \in Seq(SellerRec) /\ DOMAIN seller' = Ids /\ seller'[j] = r
        /\ \A i \in Ids : i # j => seller'[i] = seller[i]
    BY <1>0, <2>1, <2>2, <2>3, TablesType, ExceptSeq DEF Ids
  <2>5. QED
    BY <1>5, <2>2, <2>4 DEF Ids, j
<1>6. ASSUME NEW s \in Sessions, Insert(s), seller' # seller PROVE Goal
  <2> DEFINE row == [email |-> sess[s].by, pass |-> sess[s].pass, tier |-> "free", owner |-> FALSE]
  <2>1. sess[s].by \in People /\ sess[s].pass \in Passwords
    BY <1>6 DEF Insert, At, TypeInv, LocalOK
  <2>2. row \in SellerRec
    BY <2>1 DEF SellerRec
  <2>3. seller' = Append(seller, row)
    BY <1>6 DEF Insert
  <2> HIDE DEF row
  <2>4. QED
    BY <1>0, <2>2, <2>3, AddRow DEF Ids
<1>7. ASSUME NEW s \in Sessions, SetPassword(s) PROVE Goal
  <2> DEFINE j == sess[s].id
             r == [seller[j] EXCEPT !.pass = sess[s].pass]
  <2>1. j \in Ids /\ sess[s].pass \in Passwords
    BY <1>7 DEF SetPassword, At, TypeInv, LocalOK, Named
  <2>2. r \in SellerRec /\ r.email = seller[j].email /\ r.pass = sess[s].pass
    BY <1>0, <2>1 DEF SellerRec
  <2>3. seller' = [seller EXCEPT ![j] = r]
    BY <1>7 DEF SetPassword
  <2> HIDE DEF j, r
  <2>4. seller' \in Seq(SellerRec) /\ DOMAIN seller' = Ids /\ seller'[j] = r
        /\ \A i \in Ids : i # j => seller'[i] = seller[i]
    BY <1>0, <2>1, <2>2, <2>3, TablesType, ExceptSeq DEF Ids
  <2>5. QED
    BY <1>7, <2>2, <2>4 DEF Ids, j
<1>8. ASSUME NEW s \in Sessions, NEW j \in Ids, SetPlan(s, j) PROVE Goal
  <2> DEFINE r == [seller[j] EXCEPT !.tier = IF @ = "pro" THEN "free" ELSE "pro"]
  <2>1. r \in SellerRec /\ r.email = seller[j].email /\ r.pass = seller[j].pass
    BY <1>0 DEF SellerRec
  <2>2. seller' = [seller EXCEPT ![j] = r]
    BY <1>8 DEF SetPlan
  <2> HIDE DEF r
  <2>3. seller' \in Seq(SellerRec) /\ DOMAIN seller' = Ids /\ seller'[j] = r
        /\ \A i \in Ids : i # j => seller'[i] = seller[i]
    BY <1>0, <2>1, <2>2, TablesType, ExceptSeq DEF Ids
  <2>4. QED
    BY <2>1, <2>3 DEF Ids
<1>9. QED
  BY <1>1, <1>3, <1>4, <1>5, <1>6, <1>7, <1>8, SellerWriters

\* A session of a browser stays what it was, but that it may end.
LEMMA TokenStep ==
    ASSUME TypeInv, [Next]_vars
    PROVE  /\ token' \in Seq(TokenRec)
           /\ \A t \in DOMAIN token' :
                 \/ /\ t \in DOMAIN token
                    /\ token'[t].seller = token[t].seller /\ token'[t].by = token[t].by
                    /\ token'[t].pass = token[t].pass /\ token'[t].late = token[t].late
                    /\ token'[t].live => token[t].live
                 \/ \E s \in Sessions :
                       /\ NewToken(s)
                       /\ token'[t] = [seller |-> sess[s].id, by |-> sess[s].by, pass |-> sess[s].pass,
                                       late |-> seller[sess[s].id].pass # sess[s].pass, live |-> TRUE]
<1> DEFINE Kept(t) == /\ token'[t].seller = token[t].seller /\ token'[t].by = token[t].by
                      /\ token'[t].pass = token[t].pass /\ token'[t].late = token[t].late
                      /\ token'[t].live => token[t].live
<1>0. TypeOK /\ token \in Seq(TokenRec) /\ \A t \in DOMAIN token : token[t] \in TokenRec
  BY TablesType DEF TypeInv, TypeOK
<1>1. CASE token' = token
  BY <1>0, <1>1
<1>2. ASSUME NEW t \in DOMAIN token
      PROVE  LET r == [token[t] EXCEPT !.live = FALSE]
             IN  /\ r \in TokenRec
                 /\ r.seller = token[t].seller /\ r.by = token[t].by /\ r.pass = token[t].pass
                 /\ r.late = token[t].late /\ r.live = FALSE
  BY <1>0 DEF TokenRec
<1>3. ASSUME NEW t \in DOMAIN token, token' = [token EXCEPT ![t].live = FALSE]
      PROVE  token' \in Seq(TokenRec) /\ DOMAIN token' = DOMAIN token /\ \A v \in DOMAIN token : Kept(v)
  <2> DEFINE r == [token[t] EXCEPT !.live = FALSE]
  <2>1. r \in TokenRec /\ token' = [token EXCEPT ![t] = r]
    BY <1>2, <1>3
  <2>2. r.seller = token[t].seller /\ r.by = token[t].by /\ r.pass = token[t].pass
        /\ r.late = token[t].late /\ r.live = FALSE
    BY <1>2
  <2> HIDE DEF r
  <2>3. token' \in [DOMAIN token -> TokenRec]
    BY <1>0, <2>1
  <2>4. QED
    BY <1>0, <2>1, <2>2, <2>3, RewriteSeq
<1>4. ASSUME NEW s \in Sessions, SignOutAll(s)
      PROVE  token' \in Seq(TokenRec) /\ DOMAIN token' = DOMAIN token /\ \A v \in DOMAIN token : Kept(v)
  <2>1. token' = [t \in DOMAIN token |-> IF token[t].seller = sess[s].id
                                         THEN [token[t] EXCEPT !.live = FALSE] ELSE token[t]]
    BY <1>4 DEF SignOutAll
  <2>2. token' \in [DOMAIN token -> TokenRec]
    BY <1>0, <1>2, <2>1
  <2>3. \A v \in DOMAIN token : Kept(v)
    BY <1>2, <2>1
  <2>4. QED
    BY <1>0, <2>2, <2>3, RewriteSeq
<1>5. ASSUME NEW s \in Sessions, NewToken(s)
      PROVE  /\ token' \in Seq(TokenRec)
             /\ \A t \in DOMAIN token' :
                   \/ t \in DOMAIN token /\ Kept(t)
                   \/ token'[t] = [seller |-> sess[s].id, by |-> sess[s].by, pass |-> sess[s].pass,
                                   late |-> seller[sess[s].id].pass # sess[s].pass, live |-> TRUE]
  <2> DEFINE late == seller[sess[s].id].pass # sess[s].pass
             r == [seller |-> sess[s].id, by |-> sess[s].by, pass |-> sess[s].pass, late |-> late, live |-> TRUE]
  <2>1. sess[s].id \in Nat /\ sess[s].by \in People /\ sess[s].pass \in Passwords
    BY <1>0, <1>5, TablesType DEF NewToken, At, TypeInv, LocalOK, Named
  <2>2. late \in BOOLEAN
    OBVIOUS
  <2>3. token' = Append(token, r)
    BY <1>5 DEF NewToken
  <2> HIDE DEF late
  <2>4. r \in TokenRec
    BY <2>1, <2>2 DEF TokenRec
  <2> HIDE DEF r
  <2>5. token' \in Seq(TokenRec) /\ \A t \in DOMAIN token' : (t \in DOMAIN token /\ token'[t] = token[t]) \/ token'[t] = r
    BY <1>0, <2>3, <2>4, AddRow
  <2>6. QED
    BY <2>5 DEF r, late
<1>6. CASE Expire
  BY <1>1, <1>3, <1>6 DEF Expire
<1>7. ASSUME NEW s \in Sessions, NEW t \in 1..Tokens, Logout(s, t)
      PROVE  token' \in Seq(TokenRec) /\ DOMAIN token' = DOMAIN token /\ \A v \in DOMAIN token : Kept(v)
  BY <1>3, <1>7 DEF Logout
<1>8. QED
  BY <1>1, <1>4, <1>5, <1>6, <1>7, TokenWriters

\* A reset link goes from sent to used, void or expired, and is counted when it is used.
LEMMA LinkStep ==
    ASSUME TypeInv, [Next]_vars
    PROVE  /\ link' \in Seq(LinkRec) /\ Len(link') <= Links
           /\ DOMAIN link \subseteq DOMAIN link'
           /\ \A l \in DOMAIN link' :
                 \/ /\ l \in DOMAIN link /\ link'[l].seller = link[l].seller
                    /\ \/ link'[l].state = link[l].state /\ link'[l].uses = link[l].uses
                       \/ /\ link[l].state # "used" /\ link'[l].state \in {"void", "expired"}
                          /\ link'[l].uses = link[l].uses
                       \/ /\ link[l].state = "sent" /\ link'[l].state = "used"
                          /\ link'[l].uses = link[l].uses + 1
                 \/ \E s \in Sessions : /\ SendLink(s) /\ l = Len(link) + 1
                                        /\ link'[l] = [seller |-> sess[s].id, state |-> "sent", uses |-> 0]
<1> DEFINE Kept(l) == /\ link'[l].seller = link[l].seller
                      /\ \/ link'[l].state = link[l].state /\ link'[l].uses = link[l].uses
                         \/ /\ link[l].state # "used" /\ link'[l].state \in {"void", "expired"}
                            /\ link'[l].uses = link[l].uses
                         \/ /\ link[l].state = "sent" /\ link'[l].state = "used"
                            /\ link'[l].uses = link[l].uses + 1
           Same == /\ link' \in Seq(LinkRec) /\ Len(link') = Len(link)
                   /\ DOMAIN link' = DOMAIN link /\ \A l \in DOMAIN link : Kept(l)
<1>0. TypeOK /\ link \in Seq(LinkRec) /\ (\A l \in DOMAIN link : link[l] \in LinkRec) /\ Len(link) <= Links
  BY TablesType DEF TypeInv, TypeOK, RefsOK
<1>1. CASE link' = link
  BY <1>0, <1>1
<1>2. ASSUME NEW l \in DOMAIN link, NEW st \in {"void", "expired"}
      PROVE  LET r == [link[l] EXCEPT !.state = st]
             IN  r \in LinkRec /\ r.seller = link[l].seller /\ r.state = st /\ r.uses = link[l].uses
  BY <1>0 DEF LinkRec
<1>3. CASE Expire
  <2>1. CASE UNCHANGED link
    BY <1>1, <2>1
  <2>2. ASSUME NEW l \in DOMAIN link, link[l].state = "sent", link' = [link EXCEPT ![l].state = "expired"]
        PROVE  Same
    <3>1. link' = [link EXCEPT ![l] = [link[l] EXCEPT !.state = "expired"]]
      BY <2>2
    <3>2. link' \in [DOMAIN link -> LinkRec] /\ \A k \in DOMAIN link : Kept(k)
      <4>1. PICK r : r = [link[l] EXCEPT !.state = "expired"]
        OBVIOUS
      <4>2. r \in LinkRec /\ r.seller = link[l].seller /\ r.state = "expired" /\ r.uses = link[l].uses
        BY <1>2, <4>1
      <4>3. link' = [link EXCEPT ![l] = r]
        BY <3>1, <4>1
      <4>4. link' \in [DOMAIN link -> LinkRec]
        BY <1>0, <4>2, <4>3
      <4>5. QED
        BY <2>2, <4>2, <4>3, <4>4
    <3>3. QED
      BY <1>0, <3>2, RewriteSeq
  <2>3. Same \/ UNCHANGED link
    BY <1>3, <2>2 DEF Expire
  <2>4. QED
    BY <1>0, <2>1, <2>3
<1>4. ASSUME NEW s \in Sessions, VoidLinks(s) PROVE Same
  <2>1. link' = [l \in DOMAIN link |-> IF link[l].seller = sess[s].id /\ link[l].state # "used"
                                       THEN [link[l] EXCEPT !.state = "void"] ELSE link[l]]
    BY <1>4 DEF VoidLinks
  <2>2. link' \in [DOMAIN link -> LinkRec]
    BY <1>0, <1>2, <2>1
  <2>3. \A l \in DOMAIN link : Kept(l)
    BY <1>2, <2>1
  <2>4. QED
    BY <1>0, <2>2, <2>3, RewriteSeq
<1>5. ASSUME NEW s \in Sessions, Burn(s), link' # link PROVE Same
  <2> DEFINE l == sess[s].link
             r == [link[l] EXCEPT !.state = "used", !.uses = @ + 1]
  <2>1. l \in DOMAIN link /\ link[l].state = "sent"
    BY <1>5 DEF Burn, At, TypeInv, LocalOK
  <2>2. r \in LinkRec /\ r.seller = link[l].seller /\ r.state = "used" /\ r.uses = link[l].uses + 1
    <3> DEFINE n == link[l].uses + 1
    <3>1. link[l] \in LinkRec /\ n \in Nat
      BY <1>0, <2>1 DEF LinkRec
    <3> HIDE DEF n, l
    <3>2. LET q == [link[l] EXCEPT !.state = "used", !.uses = n]
          IN  q \in LinkRec /\ q.seller = link[l].seller /\ q.state = "used" /\ q.uses = n
      BY <3>1 DEF LinkRec
    <3>3. QED
      BY <3>2 DEF n
  <2>3. link' = [link EXCEPT ![l] = r]
    BY <1>5 DEF Burn
  <2> HIDE DEF r, l
  <2>4. link' \in [DOMAIN link -> LinkRec] /\ \A k \in DOMAIN link : Kept(k)
    BY <1>0, <2>1, <2>2, <2>3
  <2>5. QED
    BY <1>0, <2>4, RewriteSeq
<1>6. ASSUME NEW s \in Sessions, SendLink(s)
      PROVE  /\ link' \in Seq(LinkRec) /\ Len(link') <= Links
             /\ DOMAIN link \subseteq DOMAIN link'
             /\ \A l \in DOMAIN link' : \/ l \in DOMAIN link /\ Kept(l)
                                        \/ /\ l = Len(link) + 1
                                           /\ link'[l] = [seller |-> sess[s].id, state |-> "sent", uses |-> 0]
  <2> DEFINE r == [seller |-> sess[s].id, state |-> "sent", uses |-> 0]
  <2>1. sess[s].id \in Nat
    BY <1>0, <1>6, TablesType DEF SendLink, At, TypeInv, LocalOK, Named
  <2>2. r \in LinkRec
    BY <2>1 DEF LinkRec
  <2>3. link' = Append(link, r) /\ Len(link) < Links
    BY <1>6 DEF SendLink
  <2> HIDE DEF r
  <2>4. /\ link' \in Seq(LinkRec) /\ DOMAIN link \subseteq DOMAIN link'
        /\ \A l \in DOMAIN link' : (l \in DOMAIN link /\ link'[l] = link[l]) \/ (l = Len(link) + 1 /\ link'[l] = r)
    BY <1>0, <2>2, <2>3, AddRow
  <2>5. Len(link') <= Links
    BY <1>0, <2>2, <2>3, AppendProperties, LenProperties, AccountsAssumption
  <2>6. QED
    BY <2>4, <2>5 DEF r
<1>7. QED
  BY <1>0, <1>1, <1>3, <1>4, <1>5, <1>6, LinkWriters

\* The rows that have a name keep having one.
LEMMA NamedStep ==
    ASSUME TypeInv, [Next]_vars, NEW i, Named(i)
    PROVE  Named(i)'
<1>1. i \in Ids /\ seller[i].email \in People
  BY DEF Named
<1>2. ASSUME NEW s \in Sessions, Claim(s) PROVE sess[s].by \in People
  BY <1>2 DEF Claim, At, TypeInv, LocalOK
<1>3. i \in Ids' /\ seller'[i].email \in People
  BY <1>1, <1>2, SellerStep
<1>4. QED
  BY <1>3 DEF Named

\* Whatever a request has in hand stays good while others move.
LEMMA LocalStep ==
    ASSUME TypeInv, [Next]_vars, NEW r \in Locals, LocalOK(r)
    PROVE  LocalOK(r)'
<1>1. r.id \in Ids => r.id \in Ids'
  BY SellerStep
<1>2. r.link \in DOMAIN link => r.link \in DOMAIN link'
  BY LinkStep
<1>3. Named(r.id) => Named(r.id)'
  BY NamedStep
<1>4. QED
  BY <1>1, <1>2, <1>3 DEF LocalOK

\* A request that starts has in hand what it needs.
LEMMA LocalRequests ==
    ASSUME TypeInv, NEW u \in Sessions, Requests(u)
    PROVE  sess' \in [Sessions -> Locals] /\ LocalOK(sess'[u])
<1>0. TypeOK /\ sess \in [Sessions -> Locals] /\ LocalOK(sess[u]) /\ Ids \subseteq Nat
  BY TablesType DEF TypeInv, TypeOK
<1>1. ASSUME NEW p \in People, SignUp(u, p) PROVE sess' \in [Sessions -> Locals] /\ LocalOK(sess'[u])
  <2> DEFINE r == [Idle EXCEPT !.pc = "hash", !.by = p, !.pass = <<p, 0>>]
  <2>1. <<p, 0>> \in Passwords
    BY AccountsAssumption DEF Passwords
  <2>2. r \in Locals /\ LocalOK(r)
    BY <2>1 DEF Idle, Locals, LocalOK
  <2>3. QED
    BY <1>0, <1>1, <2>2 DEF SignUp
<1>2. ASSUME NEW p \in People, AskReset(u, p) PROVE sess' \in [Sessions -> Locals] /\ LocalOK(sess'[u])
  <2>1. PICK i \in Of(p) : sess' = [sess EXCEPT ![u] = [Idle EXCEPT !.pc = "replace", !.by = p, !.id = i]]
    BY <1>2 DEF AskReset
  <2> DEFINE r == [Idle EXCEPT !.pc = "replace", !.by = p, !.id = i]
  <2>2. Named(i) /\ i \in Nat
    BY <1>0 DEF Of, Named
  <2>3. r \in Locals /\ LocalOK(r)
    BY <2>2 DEF Idle, Locals, LocalOK
  <2>4. QED
    BY <1>0, <2>1, <2>3
<1>3. ASSUME NEW p \in People, NEW n \in 0..Links, SignIn(u, p, n)
      PROVE  sess' \in [Sessions -> Locals] /\ LocalOK(sess'[u])
  <2>1. PICK i \in Of(p) : sess' = [sess EXCEPT ![u] =
                              IF seller[i].pass = <<p, n>>
                              THEN [Idle EXCEPT !.pc = "token", !.by = p, !.id = i, !.pass = <<p, n>>]
                              ELSE Idle]
    BY <1>3 DEF SignIn
  <2> DEFINE w == <<p, n>>
             r == [Idle EXCEPT !.pc = "token", !.by = p, !.id = i, !.pass = w]
  <2>2. Named(i) /\ i \in Nat /\ w \in Passwords
    BY <1>0 DEF Of, Named, Passwords
  <2>3. sess' = [sess EXCEPT ![u] = r] \/ sess' = [sess EXCEPT ![u] = Idle]
    BY <2>1
  <2> HIDE DEF w
  <2>4. r \in Locals /\ LocalOK(r)
    BY <2>2 DEF Idle, Locals, LocalOK
  <2>5. Idle \in Locals /\ LocalOK(Idle)
    BY IdleType DEF LocalOK
  <2> HIDE DEF r
  <2>6. QED
    BY <1>0, <2>3, <2>4, <2>5
<1>4. ASSUME NEW t \in 1..Tokens, Logout(u, t) PROVE sess' = sess
  BY <1>4 DEF Logout
<1>5. ASSUME NEW l \in 1..Links, UseLink(u, l) PROVE sess' \in [Sessions -> Locals] /\ LocalOK(sess'[u])
  <2> DEFINE r == [Idle EXCEPT !.pc = "burn", !.link = l]
  <2>0. l \in Nat /\ l \in DOMAIN link
    BY <1>5, AccountsAssumption DEF UseLink
  <2>1. r \in Locals /\ LocalOK(r)
    BY <2>0 DEF Idle, Locals, LocalOK
  <2>2. QED
    BY <1>0, <1>5, <2>1 DEF UseLink
<1>6. ASSUME NEW i \in Ids, SetPlan(u, i) PROVE sess' = sess
  BY <1>6 DEF SetPlan
<1>7. QED
  BY <1>0, <1>1, <1>2, <1>3, <1>4, <1>5, <1>6 DEF Requests

\* And so has one that moves on; a new row's id is there after the step.
LEMMA LocalSteps ==
    ASSUME TypeInv, NEW u \in Sessions, Steps(u) \/ Die(u)
    PROVE  /\ sess' \in [Sessions -> Locals]
           /\ LocalOK(sess'[u]) \/ Insert(u) \/ Claim(u)
<1>0. /\ TypeOK /\ sess \in [Sessions -> Locals] /\ LocalOK(sess[u]) /\ Ids \subseteq Nat /\ Len(seller) \in Nat
      /\ Idle \in Locals /\ LocalOK(Idle)
  BY TablesType, IdleType DEF TypeInv, TypeOK, LocalOK
<1>1. CASE Hash(u)
  <2> DEFINE i == CHOOSE j \in Legacy : \A k \in Legacy : j <= k
             r1 == [sess[u] EXCEPT !.pc = "insert"]
             r2 == [sess[u] EXCEPT !.pc = "claim", !.id = i]
  <2>1. Legacy # {} => i \in Ids
    <3>1. Legacy \subseteq Ids
      BY DEF Legacy
    <3>2. QED
      BY <1>0, <3>1, LeastId
  <2>2. sess' = [sess EXCEPT ![u] = r1] \/ (Legacy # {} /\ sess' = [sess EXCEPT ![u] = r2])
    BY <1>1 DEF Hash, Goto
  <2> HIDE DEF i
  <2>3. r1 \in Locals /\ LocalOK(r1)
    BY <1>0, <1>1 DEF Hash, At, Locals, LocalOK
  <2>4. Legacy # {} => r2 \in Locals /\ LocalOK(r2)
    BY <1>0, <1>1, <2>1 DEF Hash, At, Locals, LocalOK
  <2> HIDE DEF r1, r2
  <2>5. QED
    BY <1>0, <2>2, <2>3, <2>4
<1>2. CASE Claim(u)
  <2> DEFINE r == [sess[u] EXCEPT !.pc = "token"]
  <2>1. r \in Locals
    BY <1>0 DEF Locals
  <2>2. sess' = [sess EXCEPT ![u] = r] \/ sess' = [sess EXCEPT ![u] = Idle]
    BY <1>2 DEF Claim, Goto, Done
  <2> HIDE DEF r
  <2>3. sess' \in [Sessions -> Locals]
    BY <1>0, <2>1, <2>2
  <2>4. QED
    BY <1>2, <2>3
<1>3. CASE Insert(u)
  <2> DEFINE n == Len(seller) + 1
             r == [sess[u] EXCEPT !.pc = "token", !.id = n]
  <2>1. n \in Nat
    BY <1>0
  <2>2. sess' = [sess EXCEPT ![u] = r] \/ Done(u)
    BY <1>3 DEF Insert
  <2> HIDE DEF n
  <2>3. r \in Locals
    BY <1>0, <2>1 DEF Locals
  <2>4. QED
    BY <1>0, <1>3, <2>2, <2>3 DEF Done
<1>4. CASE VoidLinks(u)
  <2> DEFINE r == [sess[u] EXCEPT !.pc = "send"]
  <2>1. r \in Locals /\ LocalOK(r)
    BY <1>0, <1>4 DEF VoidLinks, At, Locals, LocalOK
  <2>2. QED
    BY <1>0, <1>4, <2>1 DEF VoidLinks, Goto
<1>5. CASE Burn(u)
  <2> DEFINE l == sess[u].link
             i == link[l].seller
             w == <<seller[i].email, l>>
             r == [sess[u] EXCEPT !.pc = "password", !.id = i, !.by = seller[i].email, !.pass = w]
  <2>1. l \in DOMAIN link /\ l \in 0..Links
    BY <1>0, <1>5, TablesType, AccountsAssumption DEF Burn, At, LocalOK, TypeInv, RefsOK
  <2>2. Named(i) /\ i \in Nat /\ seller[i].email \in People
    BY <1>0, <2>1 DEF TypeInv, RefsOK, Named
  <2>3. w \in Passwords
    BY <2>1, <2>2 DEF Passwords
  <2>4. sess' = [sess EXCEPT ![u] = r] \/ Done(u)
    BY <1>5 DEF Burn
  <2> HIDE DEF w, i, l
  <2>5. r \in Locals /\ LocalOK(r)
    BY <1>0, <2>2, <2>3 DEF Locals, LocalOK
  <2> HIDE DEF r
  <2>6. QED
    BY <1>0, <2>4, <2>5 DEF Done
<1>6. CASE SetPassword(u)
  <2> DEFINE r == [sess[u] EXCEPT !.pc = "signout"]
  <2>1. r \in Locals /\ LocalOK(r)
    BY <1>0, <1>6 DEF SetPassword, At, Locals, LocalOK
  <2>2. QED
    BY <1>0, <1>6, <2>1 DEF SetPassword, Goto
<1>7. CASE SignOutAll(u)
  <2> DEFINE r == [sess[u] EXCEPT !.pc = "token"]
  <2>1. r \in Locals /\ LocalOK(r)
    BY <1>0, <1>7 DEF SignOutAll, At, Locals, LocalOK
  <2>2. QED
    BY <1>0, <1>7, <2>1 DEF SignOutAll, Goto
<1>8. CASE NewToken(u) \/ SendLink(u) \/ Die(u)
  BY <1>0, <1>8 DEF NewToken, SendLink, Die, Done
<1>9. QED
  BY <1>1, <1>2, <1>3, <1>4, <1>5, <1>6, <1>7, <1>8 DEF Steps

\* The row a sign-up has just written carries its e-mail and password.
LEMMA SignedUp ==
    ASSUME TypeInv, NEW u \in Sessions, Claim(u) \/ Insert(u), sess'[u].pc # "idle"
    PROVE  /\ sess'[u].pc = "token" /\ sess'[u].by = sess[u].by /\ sess'[u].pass = sess[u].pass
           /\ sess'[u].id \in Ids' /\ sess[u].by \in People /\ sess[u].pass \in Passwords
           /\ seller'[sess'[u].id].email = sess[u].by /\ seller'[sess'[u].id].pass = sess[u].pass
           /\ Claim(u) => sess'[u].id = sess[u].id
           /\ Insert(u) => sess'[u].id \notin Ids
<1>0. /\ TypeOK /\ sess \in [Sessions -> Locals] /\ LocalOK(sess[u]) /\ seller \in Seq(SellerRec)
      /\ Ids = 1..Len(seller) /\ Len(seller) \in Nat /\ \A i \in Ids : seller[i] \in SellerRec
  BY TablesType DEF TypeInv, TypeOK
<1>1. CASE Claim(u)
  <2> DEFINE j == sess[u].id
             r == [seller[j] EXCEPT !.email = sess[u].by, !.pass = sess[u].pass]
  <2>1. sess' = [sess EXCEPT ![u].pc = "token"] /\ seller' = [seller EXCEPT ![j] = r]
    BY <1>0, <1>1, IdleType DEF Claim, Goto, Done
  <2>2. j \in Ids /\ sess[u].by \in People /\ sess[u].pass \in Passwords
    BY <1>0, <1>1 DEF Claim, At, LocalOK
  <2>3. r.email = sess[u].by /\ r.pass = sess[u].pass
    BY <1>0, <2>2 DEF SellerRec
  <2>4. seller'[j] = r /\ j \in Ids'
    BY <2>1, <2>2 DEF Ids
  <2>5. sess'[u].pc = "token" /\ sess'[u].by = sess[u].by /\ sess'[u].pass = sess[u].pass /\ sess'[u].id = j
    BY <1>0, <2>1 DEF Locals
  <2>6. ~ Insert(u)
    BY <1>1 DEF Claim, Insert, At
  <2>7. QED
    BY <2>2, <2>3, <2>4, <2>5, <2>6
<1>2. CASE Insert(u)
  <2> DEFINE row == [email |-> sess[u].by, pass |-> sess[u].pass, tier |-> "free", owner |-> FALSE]
  <2>1. seller' = Append(seller, row) /\ sess' = [sess EXCEPT ![u].pc = "token", ![u].id = Len(seller) + 1]
    BY <1>0, <1>2, IdleType DEF Insert, Done
  <2>2. sess[u].by \in People /\ sess[u].pass \in Passwords
    BY <1>0, <1>2 DEF Insert, At, LocalOK
  <2>3. row \in SellerRec
    BY <2>2 DEF SellerRec
  <2>4. Len(seller) + 1 \in Ids' /\ seller'[Len(seller) + 1] = row
    BY <1>0, <2>1, <2>3, AddRow DEF Ids
  <2>5. sess'[u].pc = "token" /\ sess'[u].by = sess[u].by /\ sess'[u].pass = sess[u].pass
        /\ sess'[u].id = Len(seller) + 1
    BY <1>0, <2>1 DEF Locals
  <2>6. ~ Claim(u)
    BY <1>2 DEF Claim, Insert, At
  <2>7. QED
    BY <1>0, <2>2, <2>4, <2>5, <2>6
<1>3. QED
  BY <1>1, <1>2

LEMMA TypeNext == TypeInv /\ [Next]_vars => TypeInv'
<1> SUFFICES ASSUME TypeInv, [Next]_vars PROVE TypeInv'
  OBVIOUS
<1>0. TypeOK /\ sess \in [Sessions -> Locals] /\ Idle \in Locals
  BY IdleType DEF TypeInv, TypeOK
<1>1. sess' \in [Sessions -> Locals]
  BY <1>0, LocalRequests, LocalSteps
     DEF Next, vars, Grandfather, SetFlag, OwnerRow, Restart, Expire
<1>2. ASSUME NEW u \in Sessions PROVE LocalOK(sess[u])'
  <2>1. CASE sess'[u] = sess[u]
    <3>1. LocalOK(sess[u]) /\ sess[u] \in Locals
      BY <1>0 DEF TypeInv
    <3>2. QED
      BY <2>1, <3>1, LocalStep DEF LocalOK, Named, Ids
  <2>2. CASE sess'[u] # sess[u]
    <3>1. CASE LocalOK(sess'[u])
      <4>1. sess'[u] \in Locals
        BY <1>1
      <4>2. /\ sess'[u].id \in Ids => sess'[u].id \in Ids'
            /\ sess'[u].link \in DOMAIN link => sess'[u].link \in DOMAIN link'
            /\ Named(sess'[u].id) => sess'[u].id \in Ids' /\ seller'[sess'[u].id].email \in People
        BY SellerStep, LinkStep, NamedStep DEF Named
      <4>3. QED
        BY <3>1, <4>2 DEF LocalOK, Named
    <3>2. CASE sess'[u].pc = "idle"
      BY <3>2 DEF LocalOK
    <3>3. CASE Insert(u) \/ Claim(u)
      BY <3>2, <3>3, SignedUp DEF LocalOK, Named
    <3>4. QED
      BY <2>2, <3>1, <3>2, <3>3, OwnStep, LocalRequests, LocalSteps, IdleType DEF TypeInv
  <2>3. QED
    BY <2>1, <2>2
<1>3. asked' \in [Kinds -> Nat]
  <2>1. ASSUME NEW s \in Sessions, NEW k \in Kinds, Ask(s, k) PROVE asked' \in [Kinds -> Nat]
    BY <1>0, <2>1, ChargeType DEF Ask
  <2>2. ASSUME NEW s \in Sessions, Requests(s) PROVE asked' \in [Kinds -> Nat]
    BY <2>1, <2>2 DEF Requests, SignUp, AskReset, SignIn, Logout, UseLink, SetPlan, Kinds
  <2>3. ASSUME NEW s \in Sessions, Steps(s) PROVE asked' = asked
    BY <2>3 DEF Steps, Hash, Claim, Insert, NewToken, VoidLinks, SendLink, Burn, SetPassword, SignOutAll
  <2>4. CASE Restart \/ Expire \/ \E s \in Sessions : Die(s)
    BY <1>0, <2>4, ChargeType DEF Restart, Expire, Die, Kinds
  <2>5. ASSUME Grandfather \/ SetFlag \/ OwnerRow \/ UNCHANGED vars PROVE asked' = asked
    <3>1. CASE Grandfather \/ SetFlag
      BY <3>1 DEF Grandfather, SetFlag
    <3>2. CASE OwnerRow
      BY <3>2 DEF OwnerRow
    <3>3. CASE UNCHANGED vars
      BY <3>3 DEF vars
    <3>4. QED
      BY <2>5, <3>1, <3>2, <3>3
  <2>6. QED
    BY <1>0, <2>2, <2>3, <2>4, <2>5 DEF Next, TypeOK
<1>4. up' \in BOOLEAN /\ boot' \in {"paywall", "flag", "owner", "done"} /\ meta' \in BOOLEAN /\ configured' \in BOOLEAN
  <2>1. ASSUME NEW s \in Sessions, Requests(s) PROVE UNCHANGED <<up, boot, meta, configured>>
    BY <2>1 DEF Requests, SignUp, AskReset, SignIn, Logout, UseLink, SetPlan
  <2>2. ASSUME NEW s \in Sessions, Steps(s) \/ Die(s) PROVE UNCHANGED <<up, boot, meta, configured>>
    BY <2>2 DEF Steps, Die, Hash, Claim, Insert, NewToken, VoidLinks, SendLink, Burn, SetPassword, SignOutAll
  <2>3. QED
    BY <1>0, <2>1, <2>2 DEF Next, vars, TypeOK, Grandfather, SetFlag, OwnerRow, Restart, Expire
<1>5. TypeOK'
  BY <1>1, <1>3, <1>4, SellerStep, TokenStep, LinkStep DEF TypeOK
<1>6. RefsOK'
  <2>1. ASSUME NEW s \in Sessions, NewToken(s) \/ SendLink(s) PROVE Named(sess[s].id)
    BY <2>1 DEF NewToken, SendLink, At, TypeInv, LocalOK
  <2>2. ASSUME NEW t \in DOMAIN token' PROVE Named(token[t].seller)'
    <3>1. Named(token'[t].seller)
      BY <2>1, TokenStep DEF TypeInv, RefsOK
    <3>2. QED
      BY <3>1, NamedStep DEF Named, Ids
  <2>3. ASSUME NEW l \in DOMAIN link' PROVE Named(link[l].seller)'
    <3>1. Named(link'[l].seller)
      BY <2>1, LinkStep DEF TypeInv, RefsOK
    <3>2. QED
      BY <3>1, NamedStep DEF Named, Ids
  <2>4. QED
    BY <2>2, <2>3, LinkStep DEF RefsOK
<1>7. QED
  BY <1>2, <1>5, <1>6 DEF TypeInv

\* The tables keep their types, and sessions and reset links go on referring to accounts that
\* have an e-mail, through every boot, restart and failure.
THEOREM AccountsTypes == Spec => [](TypeOK /\ RefsOK)
<1>1. TypeInv => TypeOK /\ RefsOK
  BY DEF TypeInv
<1>2. QED
  BY TypeInit, TypeNext, <1>1, PTL DEF Spec

-----------------------------------------------------------------------------
(* Reset links.                                                            *)

\* Requests for a link are made one at a time.
OneAsk == \A s, u \in Sessions : "ask" \in Serves[s] /\ "ask" \in Serves[u] => s = u

\* A link is used once: it leaves the state it is used from as it is counted.
UsesInv == \A l \in DOMAIN link : link[l].uses <= 1 /\ (link[l].state = "sent" => link[l].uses = 0)

LEMMA UsesInit == Init => UsesInv
BY EmptySeq DEF Init, UsesInv

LEMMA UsesNext == TypeInv /\ UsesInv /\ [Next]_vars => UsesInv'
<1> SUFFICES ASSUME TypeInv, UsesInv, [Next]_vars, NEW l \in DOMAIN link'
             PROVE  link'[l].uses <= 1 /\ (link'[l].state = "sent" => link'[l].uses = 0)
  BY DEF UsesInv
<1>1. l \in DOMAIN link => link[l].uses \in Nat
  BY TablesType DEF TypeInv, LinkRec
<1>2. QED
  BY <1>1, LinkStep DEF UsesInv

\* While a new link is being sent, the account has no other that works.
SentInv ==
    /\ \A s \in Sessions : sess[s].pc \in {"replace", "send"} => "ask" \in Serves[s]
    /\ \A s \in Sessions, l \in DOMAIN link :
          sess[s].pc = "send" /\ link[l].seller = sess[s].id => link[l].state # "sent"
    /\ \A k, l \in DOMAIN link :
          link[k].seller = link[l].seller /\ link[k].state = "sent" /\ link[l].state = "sent" => k = l

LEMMA SentInit == Init => SentInv
BY EmptySeq DEF Init, SentInv, Idle

\* A request comes to ask for a link, and to send one, in its own steps.
LEMMA AskStep ==
    ASSUME TypeInv, [Next]_vars, NEW u \in Sessions, sess'[u].pc \in {"replace", "send"}
    PROVE  \/ sess'[u] = sess[u]
           \/ \E p \in People : AskReset(u, p) /\ sess'[u].pc = "replace"
           \/ VoidLinks(u) /\ sess[u].pc = "replace" /\ sess'[u].id = sess[u].id
<1>0. sess \in [Sessions -> Locals]
  BY DEF TypeInv, TypeOK
<1>1. CASE Requests(u) /\ sess'[u] # sess[u]
  <2>1. ASSUME NEW p \in People, SignUp(u, p) PROVE FALSE
    BY <1>0, <2>1 DEF SignUp, Idle
  <2>2. ASSUME NEW p \in People, NEW n \in 0..Links, SignIn(u, p, n) PROVE FALSE
    BY <1>0, <2>2 DEF SignIn, Idle
  <2>3. ASSUME NEW t \in 1..Tokens, Logout(u, t) PROVE FALSE
    BY <1>1, <2>3 DEF Logout
  <2>4. ASSUME NEW l \in 1..Links, UseLink(u, l) PROVE FALSE
    BY <1>0, <2>4 DEF UseLink, Idle
  <2>5. ASSUME NEW i \in Ids, SetPlan(u, i) PROVE FALSE
    BY <1>1, <2>5 DEF SetPlan
  <2>6. ASSUME NEW p \in People, AskReset(u, p) PROVE sess'[u].pc = "replace"
    BY <1>0, <2>6 DEF AskReset, Idle
  <2>7. QED
    BY <1>1, <2>1, <2>2, <2>3, <2>4, <2>5, <2>6 DEF Requests
<1>2. CASE VoidLinks(u)
  BY <1>0, <1>2 DEF VoidLinks, At, Goto, Locals
<1>3. CASE Hash(u) \/ Claim(u) \/ Insert(u) \/ NewToken(u) \/ SendLink(u)
  BY <1>0, <1>3 DEF Hash, Claim, Insert, NewToken, SendLink, Goto, Done, Idle, Locals
<1>4. CASE Burn(u)
  <2> DEFINE i == link[sess[u].link].seller
             w == <<seller[i].email, sess[u].link>>
  <2>1. \/ Done(u)
        \/ sess' = [sess EXCEPT ![u] = [sess[u] EXCEPT !.pc = "password", !.id = i, !.by = seller[i].email, !.pass = w]]
    BY <1>4 DEF Burn
  <2>2. ASSUME NEW e, NEW v, NEW n, sess' = [sess EXCEPT ![u] = [sess[u] EXCEPT !.pc = "password", !.id = n, !.by = e, !.pass = v]]
        PROVE  sess'[u].pc = "password"
    BY <1>0, <2>2 DEF Locals
  <2>3. Done(u) => sess'[u].pc = "idle"
    BY <1>0 DEF Done, Idle
  <2>4. sess'[u].pc = "idle" \/ sess'[u].pc = "password"
    BY <2>1, <2>2, <2>3
  <2>5. QED
    BY <2>4
<1>5. CASE SetPassword(u) \/ SignOutAll(u)
  BY <1>0, <1>5 DEF SetPassword, SignOutAll, Goto, Locals
<1>6. CASE Die(u)
  BY <1>0, <1>6 DEF Die, Done, Idle
<1>7. QED
  BY <1>1, <1>2, <1>3, <1>4, <1>5, <1>6, OwnStep DEF Steps, TypeInv, Idle

LEMMA SentNext == OneAsk /\ TypeInv /\ SentInv /\ [Next]_vars => SentInv'
<1> SUFFICES ASSUME OneAsk, TypeInv, SentInv, [Next]_vars PROVE SentInv'
  OBVIOUS
<1>0. \A u \in Sessions : sess[u] \in Locals
  BY DEF TypeInv, TypeOK
<1>1. ASSUME NEW u \in Sessions, sess'[u].pc \in {"replace", "send"} PROVE "ask" \in Serves[u]
  BY <1>1, AskStep DEF SentInv, AskReset, Ask
<1>2. ASSUME NEW l \in DOMAIN link', link'[l].state = "sent"
      PROVE  \/ l \in DOMAIN link /\ link'[l].seller = link[l].seller /\ link[l].state = "sent"
             \/ \E s \in Sessions : SendLink(s) /\ l = Len(link) + 1 /\ link'[l].seller = sess[s].id
  BY <1>2, LinkStep
<1>3. ASSUME NEW u \in Sessions, NEW l \in DOMAIN link', sess'[u].pc = "send",
             link'[l].seller = sess'[u].id, link'[l].state = "sent"
      PROVE  FALSE
  <2>1. ~ \E s \in Sessions : SendLink(s)
    <3> SUFFICES ASSUME NEW s \in Sessions, SendLink(s) PROVE FALSE
      OBVIOUS
    <3>1. sess[s].pc = "send" /\ sess'[s].pc = "idle"
      BY <1>0 DEF SendLink, At, Done, Idle, TypeInv, TypeOK
    <3>2. s = u
      BY <1>1, <1>3, <3>1 DEF SentInv, OneAsk
    <3>3. QED
      BY <1>3, <3>1, <3>2
  <2>2. l \in DOMAIN link /\ link'[l].seller = link[l].seller /\ link[l].state = "sent"
    BY <1>2, <1>3, <2>1
  <2>3. CASE sess'[u] = sess[u]
    BY <1>3, <2>2, <2>3 DEF SentInv
  <2>4. CASE VoidLinks(u) /\ sess'[u].id = sess[u].id
    <3>1. link' = [k \in DOMAIN link |-> IF link[k].seller = sess[u].id /\ link[k].state # "used"
                                         THEN [link[k] EXCEPT !.state = "void"] ELSE link[k]]
      BY <2>4 DEF VoidLinks
    <3>2. link[l] \in LinkRec
      BY <2>2, TablesType DEF TypeInv
    <3>3. link'[l].state = "void"
      BY <1>3, <2>2, <2>4, <3>1, <3>2 DEF LinkRec
    <3>4. QED
      BY <1>3, <3>3
  <2>5. QED
    BY <1>3, <2>3, <2>4, AskStep
<1>4. ASSUME NEW k \in DOMAIN link', NEW l \in DOMAIN link', link'[k].seller = link'[l].seller,
             link'[k].state = "sent", link'[l].state = "sent"
      PROVE  k = l
  <2>1. ASSUME NEW s \in Sessions, SendLink(s), NEW j \in DOMAIN link, link[j].state = "sent",
               link[j].seller = sess[s].id
        PROVE  FALSE
    BY <2>1 DEF SentInv, SendLink, At
  <2>2. ASSUME NEW s \in Sessions, NEW u \in Sessions, SendLink(s), SendLink(u) PROVE s = u
    BY <2>2 DEF SentInv, OneAsk, SendLink, At
  <2>3. QED
    BY <1>2, <1>4, <2>1, <2>2 DEF SentInv
<1>5. QED
  BY <1>1, <1>3, <1>4 DEF SentInv

\* "The link works once", whoever opens it how often at the same time.
THEOREM AccountsLinkOnce == Spec => [](\A l \in DOMAIN link : link[l].uses <= 1)
<1>1. UsesInv => \A l \in DOMAIN link : link[l].uses <= 1
  BY DEF UsesInv
<1>2. QED
  BY TypeInit, TypeNext, UsesInit, UsesNext, <1>1, PTL DEF Spec

\* Beside that, an account has one link that works, where requests for a link are made one
\* at a time.
THEOREM AccountsResetLinks == OneAsk /\ Spec => []ResetLinks
<1>1. TypeInv /\ UsesInv /\ SentInv => ResetLinks
  BY DEF ResetLinks, UsesInv, SentInv
<1>2. OneAsk => OneAsk'
  BY DEF OneAsk
<1>3. QED
  BY TypeInit, TypeNext, UsesInit, UsesNext, SentInit, SentNext, <1>1, <1>2, PTL DEF Spec

-----------------------------------------------------------------------------
(* Whose row a browser works in.                                           *)

\* Sign-ups are made one at a time.
OneSignUp == \A s, u \in Sessions : "signup" \in Serves[s] /\ "signup" \in Serves[u] => s = u

\* A row about to be claimed is still nobody's; a request that goes on for somebody goes on
\* in the row that carries their e-mail.
MailOK(s) ==
    /\ sess[s].pc \in {"hash", "claim", "insert"} => "signup" \in Serves[s]
    /\ sess[s].pc = "claim" => seller[sess[s].id].email = NoOne
    /\ sess[s].pc \in {"token", "replace", "send", "password", "signout"} =>
          seller[sess[s].id].email = sess[s].by

MailInv == Isolated /\ \A s \in Sessions : MailOK(s)

LEMMA MailInit == Init => MailInv
BY EmptySeq DEF Init, MailInv, MailOK, Isolated, Idle

\* A row that has an e-mail keeps it: the only writer of e-mails claims a row of nobody.
LEMMA MailKept ==
    ASSUME TypeInv, MailInv, [Next]_vars, NEW i, Named(i)
    PROVE  seller'[i].email = seller[i].email
<1>1. i \in Ids /\ seller[i].email # NoOne
  BY AccountsAssumption DEF Named
<1>2. ASSUME NEW s \in Sessions, Claim(s) PROVE sess[s].id # i
  BY <1>1, <1>2 DEF Claim, At, MailInv, MailOK
<1>3. QED
  BY <1>1, <1>2, SellerStep

\* A request that starts.
LEMMA MailRequests ==
    ASSUME TypeInv, MailInv, NEW u \in Sessions, Requests(u), sess'[u] # sess[u]
    PROVE  MailOK(u)'
<1>0. sess \in [Sessions -> Locals] /\ Idle.pc = "idle"
  BY IdleType DEF TypeInv, TypeOK
<1>1. ASSUME NEW p \in People, SignUp(u, p) PROVE MailOK(u)'
  <2>1. sess'[u].pc = "hash" /\ "signup" \in Serves[u]
    BY <1>0, <1>1 DEF SignUp, Ask, Idle
  <2>2. QED
    BY <2>1 DEF MailOK
<1>2. ASSUME NEW p \in People, AskReset(u, p) PROVE MailOK(u)'
  <2>1. PICK i \in Of(p) : sess' = [sess EXCEPT ![u] = [Idle EXCEPT !.pc = "replace", !.by = p, !.id = i]]
    BY <1>2 DEF AskReset
  <2>2. sess'[u].pc = "replace" /\ sess'[u].by = p /\ sess'[u].id = i
    BY <1>0, <2>1 DEF Idle
  <2>3. seller'[i].email = p
    BY <1>2 DEF AskReset, Of
  <2>4. QED
    BY <2>2, <2>3 DEF MailOK
<1>3. ASSUME NEW p \in People, NEW n \in 0..Links, SignIn(u, p, n) PROVE MailOK(u)'
  <2> DEFINE w == <<p, n>>
  <2>1. PICK i \in Of(p) : \/ sess' = [sess EXCEPT ![u] = [Idle EXCEPT !.pc = "token", !.by = p, !.id = i, !.pass = w]]
                           \/ sess' = [sess EXCEPT ![u] = Idle]
    BY <1>3 DEF SignIn
  <2> HIDE DEF w
  <2>2. seller'[i].email = p
    BY <1>3 DEF SignIn, Of
  <2>3. CASE sess' = [sess EXCEPT ![u] = Idle]
    BY <1>0, <2>3 DEF MailOK
  <2>4. CASE sess' = [sess EXCEPT ![u] = [Idle EXCEPT !.pc = "token", !.by = p, !.id = i, !.pass = w]]
    <3>1. sess'[u].pc = "token" /\ sess'[u].by = p /\ sess'[u].id = i
      BY <1>0, <2>4 DEF Idle
    <3>2. QED
      BY <2>2, <3>1 DEF MailOK
  <2>5. QED
    BY <2>1, <2>3, <2>4
<1>4. ASSUME NEW t \in 1..Tokens, Logout(u, t) PROVE FALSE
  BY <1>4 DEF Logout
<1>5. ASSUME NEW l \in 1..Links, UseLink(u, l) PROVE MailOK(u)'
  <2>1. sess'[u].pc = "burn"
    BY <1>0, <1>5 DEF UseLink, Idle
  <2>2. QED
    BY <2>1 DEF MailOK
<1>6. ASSUME NEW i \in Ids, SetPlan(u, i) PROVE FALSE
  BY <1>6 DEF SetPlan
<1>7. QED
  BY <1>1, <1>2, <1>3, <1>4, <1>5, <1>6 DEF Requests

\* A request that moves on.
LEMMA MailSteps ==
    ASSUME TypeInv, MailInv, [Next]_vars, NEW u \in Sessions, Steps(u)
    PROVE  MailOK(u)'
<1>0. sess \in [Sessions -> Locals] /\ Idle.pc = "idle" /\ MailOK(u) /\ LocalOK(sess[u]) /\ Ids \subseteq Nat
  BY IdleType, TablesType DEF TypeInv, TypeOK, MailInv
<1>1. CASE Hash(u)
  <2> DEFINE i == CHOOSE j \in Legacy : \A k \in Legacy : j <= k
  <2>1. Legacy # {} => i \in Legacy
    <3>1. Legacy \subseteq Nat
      BY <1>0 DEF Legacy
    <3>2. QED
      BY <3>1, LeastId
  <2>2. \/ sess' = [sess EXCEPT ![u].pc = "insert"]
        \/ Legacy # {} /\ sess' = [sess EXCEPT ![u].pc = "claim", ![u].id = i]
    BY <1>1 DEF Hash, Goto
  <2> HIDE DEF i
  <2>3. sess'[u].pc = "insert" \/ (sess'[u].pc = "claim" /\ sess'[u].id \in Legacy)
    BY <1>0, <2>1, <2>2 DEF Locals
  <2>4. seller' = seller /\ "signup" \in Serves[u]
    BY <1>0, <1>1 DEF Hash, At, MailOK
  <2>5. QED
    BY <2>3, <2>4 DEF Legacy, MailOK
<1>2. CASE Claim(u) \/ Insert(u)
  <2>1. CASE sess'[u].pc = "idle"
    BY <2>1 DEF MailOK
  <2>2. CASE sess'[u].pc # "idle"
    BY <1>2, <2>2, SignedUp DEF MailOK
  <2>3. QED
    BY <2>1, <2>2
<1>3. CASE NewToken(u) \/ SendLink(u)
  <2>1. sess'[u].pc = "idle"
    BY <1>0, <1>3 DEF NewToken, SendLink, Done
  <2>2. QED
    BY <2>1 DEF MailOK
<1>4. CASE VoidLinks(u) \/ SetPassword(u) \/ SignOutAll(u)
  <2>1. /\ sess'[u].pc = "send" \/ sess'[u].pc = "signout" \/ sess'[u].pc = "token"
        /\ sess'[u].id = sess[u].id /\ sess'[u].by = sess[u].by
    BY <1>0, <1>4 DEF VoidLinks, SetPassword, SignOutAll, Goto, Locals
  <2>2. sess[u].pc = "replace" \/ sess[u].pc = "password" \/ sess[u].pc = "signout"
    BY <1>4 DEF VoidLinks, SetPassword, SignOutAll, At
  <2>3. Named(sess[u].id) /\ seller[sess[u].id].email = sess[u].by
    BY <1>0, <2>2 DEF LocalOK, MailOK
  <2>4. seller'[sess[u].id].email = sess[u].by
    BY <2>3, MailKept
  <2>5. QED
    BY <2>1, <2>4 DEF MailOK
<1>5. CASE Burn(u)
  <2> DEFINE i == link[sess[u].link].seller
             w == <<seller[i].email, sess[u].link>>
  <2>1. \/ Done(u)
        \/ sess' = [sess EXCEPT ![u] = [sess[u] EXCEPT !.pc = "password", !.id = i, !.by = seller[i].email, !.pass = w]]
    BY <1>5 DEF Burn
  <2> HIDE DEF i, w
  <2>2. ASSUME NEW e, NEW v, NEW n,
               sess' = [sess EXCEPT ![u] = [sess[u] EXCEPT !.pc = "password", !.id = n, !.by = e, !.pass = v]]
        PROVE  sess'[u].pc = "password" /\ sess'[u].id = n /\ sess'[u].by = e
    BY <1>0, <2>2 DEF Locals
  <2>3. Done(u) => sess'[u].pc = "idle"
    BY <1>0 DEF Done
  <2>4. seller' = seller
    BY <1>5 DEF Burn
  <2>5. CASE Done(u)
    BY <2>3, <2>5 DEF MailOK
  <2>6. CASE ~ Done(u)
    <3> DEFINE e == seller[i].email
    <3> HIDE DEF e
    <3>1. sess' = [sess EXCEPT ![u] = [sess[u] EXCEPT !.pc = "password", !.id = i, !.by = e, !.pass = w]]
      BY <2>1, <2>6 DEF e
    <3>2. sess'[u].pc = "password" /\ sess'[u].id = i /\ sess'[u].by = e
      BY <2>2, <3>1
    <3>3. QED
      BY <2>4, <3>2 DEF MailOK, e
  <2>7. QED
    BY <2>5, <2>6
<1>6. QED
  BY <1>1, <1>2, <1>3, <1>4, <1>5 DEF Steps

LEMMA MailNext == OneSignUp /\ TypeInv /\ MailInv /\ [Next]_vars => MailInv'
<1> SUFFICES ASSUME OneSignUp, TypeInv, MailInv, [Next]_vars PROVE MailInv'
  OBVIOUS
<1>0. \A u \in Sessions : sess[u] \in Locals /\ LocalOK(sess[u]) /\ MailOK(u)
  BY DEF TypeInv, TypeOK, MailInv
<1>1. ASSUME NEW u \in Sessions PROVE MailOK(u)'
  <2>1. CASE sess'[u] = sess[u]
    <3>1. sess[u].pc \in {"token", "replace", "send", "password", "signout"} =>
             seller'[sess[u].id].email = sess[u].by
      BY <1>0, MailKept DEF LocalOK, MailOK
    <3>2. ASSUME sess[u].pc = "claim" PROVE seller'[sess[u].id].email = NoOne
      <4>1. sess[u].id \in Ids /\ seller[sess[u].id].email = NoOne /\ "signup" \in Serves[u]
        BY <1>0, <3>2 DEF LocalOK, MailOK
      <4>2. ASSUME NEW s \in Sessions, Claim(s) PROVE FALSE
        <5>1. s = u
          BY <1>0, <4>1, <4>2 DEF Claim, At, MailOK, OneSignUp
        <5>2. sess'[s].pc # "claim"
          BY <1>0, <4>2, IdleType DEF Claim, Goto, Done, TypeInv, TypeOK, Locals
        <5>3. QED
          BY <2>1, <3>2, <5>1, <5>2
      <4>3. QED
        BY <4>1, <4>2, SellerStep
    <3>3. QED
      BY <1>0, <2>1, <3>1, <3>2 DEF MailOK
  <2>2. CASE sess'[u] # sess[u]
    <3>1. CASE sess'[u] = Idle
      BY <3>1, IdleType DEF MailOK
    <3>2. Die(u) => sess'[u] = Idle
      BY DEF Die, Done, TypeInv, TypeOK
    <3>3. QED
      BY <2>2, <3>1, <3>2, OwnStep, MailRequests, MailSteps DEF TypeInv
  <2>3. QED
    BY <2>1, <2>2
<1>2. ASSUME NEW t \in DOMAIN token', token'[t].live PROVE seller'[token'[t].seller].email = token'[t].by
  <2>1. CASE t \in DOMAIN token /\ token'[t].seller = token[t].seller /\ token'[t].by = token[t].by /\ token[t].live
    BY <2>1, MailKept DEF MailInv, Isolated, TypeInv, RefsOK
  <2>2. ASSUME NEW s \in Sessions, NewToken(s), token'[t].seller = sess[s].id, token'[t].by = sess[s].by
        PROVE  seller'[token'[t].seller].email = token'[t].by
    BY <1>0, <2>2 DEF NewToken, At, MailOK
  <2>3. QED
    BY <1>2, <2>1, <2>2, TokenStep
<1>3. QED
  BY <1>1, <1>2 DEF MailInv, Isolated

\* "Every account after is isolated": where sign-ups are made one at a time, whoever is signed in
\* works in the row that carries their own e-mail.
THEOREM AccountsIsolated == OneSignUp /\ Spec => []Isolated
<1>1. MailInv => Isolated
  BY DEF MailInv
<1>2. OneSignUp => OneSignUp'
  BY DEF OneSignUp
<1>3. QED
  BY TypeInit, TypeNext, MailInit, MailNext, <1>1, <1>2, PTL DEF Spec

-----------------------------------------------------------------------------
(* The old password.                                                       *)

\* A reset that has written the new password does not stop before it signs everybody out.
Unbroken == "signout" \notin MayDie

LEMMA OldNext == Unbroken /\ TypeInv /\ MailInv /\ OldPasswordOut /\ [Next]_vars => OldPasswordOut'
<1> SUFFICES ASSUME Unbroken, TypeInv, MailInv, OldPasswordOut, [Next]_vars,
                    NEW t \in DOMAIN token', token'[t].live,
                    \A s \in Sessions : ~ (sess'[s].pc = "signout" /\ sess'[s].id = token'[t].seller)
             PROVE  token'[t].late \/ token'[t].pass = seller'[token'[t].seller].pass
  BY DEF OldPasswordOut, At
<1>0. \A u \in Sessions : sess[u] \in Locals /\ LocalOK(sess[u])
  BY DEF TypeInv, TypeOK
<1>1. ASSUME NEW s \in Sessions, NewToken(s),
             token'[t] = [seller |-> sess[s].id, by |-> sess[s].by, pass |-> sess[s].pass,
                          late |-> seller[sess[s].id].pass # sess[s].pass, live |-> TRUE]
      PROVE  token'[t].late \/ token'[t].pass = seller'[token'[t].seller].pass
  <2>1. seller' = seller
    BY <1>1 DEF NewToken
  <2>2. /\ token'[t].late = (seller[sess[s].id].pass # sess[s].pass)
        /\ token'[t].seller = sess[s].id /\ token'[t].pass = sess[s].pass
    BY <1>1
  <2>3. CASE seller[sess[s].id].pass = sess[s].pass
    BY <2>1, <2>2, <2>3
  <2>4. CASE seller[sess[s].id].pass # sess[s].pass
    BY <2>2, <2>4
  <2>5. QED
    BY <2>3, <2>4
<1>2. ASSUME t \in DOMAIN token, token'[t].seller = token[t].seller, token'[t].pass = token[t].pass,
             token'[t].late = token[t].late, token[t].live
      PROVE  token'[t].late \/ token'[t].pass = seller'[token'[t].seller].pass
  <2> DEFINE i == token[t].seller
  <2>0. Named(i) /\ i \in Ids
    BY <1>2 DEF TypeInv, RefsOK, Named
  <2>1. ASSUME NEW s \in Sessions, sess[s].pc = "signout", sess[s].id = i PROVE FALSE
    <3>1. sess'[s] # sess[s]
      BY <1>2, <2>1
    <3>2. ~ Requests(s) /\ ~ Die(s) /\ ~ Restart
      BY <2>1 DEF Requests, SignUp, SignIn, AskReset, Logout, UseLink, SetPlan, Ask, Die, Restart, Unbroken
    <3>3. SignOutAll(s)
      BY <2>1, <3>1, <3>2, OwnStep
         DEF Steps, Hash, Claim, Insert, NewToken, VoidLinks, SendLink, Burn, SetPassword, At, TypeInv
    <3>4. token'[t] = [token[t] EXCEPT !.live = FALSE]
      BY <1>2, <2>1, <3>3 DEF SignOutAll
    <3>5. token[t] \in TokenRec
      BY <1>2, TablesType DEF TypeInv
    <3>6. QED
      BY <3>4, <3>5 DEF TokenRec
  <2>2. token[t].late \/ token[t].pass = seller[i].pass
    BY <1>2, <2>1 DEF OldPasswordOut, At
  <2>3. ASSUME NEW s \in Sessions, SetPassword(s) PROVE sess[s].id # i
    <3>1. sess'[s].pc = "signout" /\ sess'[s].id = sess[s].id
      BY <1>0, <2>3 DEF SetPassword, Goto, TypeInv, TypeOK, Locals
    <3>2. QED
      BY <1>2, <3>1
  <2>4. ASSUME NEW s \in Sessions, Claim(s) PROVE sess[s].id # i
    BY <2>0, <2>4, AccountsAssumption DEF Claim, At, MailInv, MailOK, Named
  <2>5. seller'[i].pass = seller[i].pass
    BY <2>0, <2>3, <2>4, SellerStep
  <2>6. QED
    BY <1>2, <2>2, <2>5
<1>3. QED
  BY <1>1, <1>2, TokenStep

\* "Whoever had the old password loses access", where sign-ups are made one at a time and a reset
\* that has written the password goes on to sign everybody out.
THEOREM AccountsOldPasswordOut == OneSignUp /\ Unbroken /\ Spec => []OldPasswordOut
<1>1. Init => OldPasswordOut
  BY EmptySeq DEF Init, OldPasswordOut
<1>2. (OneSignUp => OneSignUp') /\ (Unbroken => Unbroken')
  BY DEF OneSignUp, Unbroken
<1>3. QED
  BY TypeInit, TypeNext, MailInit, MailNext, OldNext, <1>1, <1>2, PTL DEF Spec

-----------------------------------------------------------------------------
(* Workspaces (Workspace).                                                  *)

Anybody == Sellers \cup {Nobody}

Visit == [at : {"idle", "gate", "log", "body"}, path : Paths \cup {"none"}, seller : Anybody,
          owner : BOOLEAN, list : Nat]

ListRow == [seller : Sellers, kind : {"scan", "pricing"}, shared : BOOLEAN]
NoteRow == [seller : Sellers, status : {"open", "answered", "closed"}, answered : BOOLEAN]
FeedRow == [seller : Sellers, byOwner : BOOLEAN, by : Sellers]

\* An address has failed less often than locks it; at the limit the count starts again.
TryRow == [count : 0..(AttemptLimit - 1), locked : BOOLEAN]

DeskTypes ==
    /\ customer \in [Browsers -> Anybody]
    /\ console \in [Browsers -> BOOLEAN]
    /\ actas \in [Browsers -> Anybody]
    /\ tries \in [Range(Address) -> TryRow]
    /\ plan \in [Sellers -> BOOLEAN]
    /\ seen \in [Sellers -> SUBSET Sellers]
    /\ feed \in SUBSET FeedRow
    /\ lists \in Seq(ListRow)
    /\ notes \in Seq(NoteRow)
    /\ req \in [Browsers -> Visit]
    /\ counted \in [DeskKinds -> Nat]

\* The sessions a browser has are of the person who sits there.
OwnSessions(b) ==
    /\ customer[b] \in {Person[b], Nobody}
    /\ console[b] => Person[b] = Own

\* A request runs as the seller who sent it, or as any for the owner.
RunsAs(b, r, ls) ==
    r.at # "idle" =>
        /\ r.seller \in Sellers /\ r.path \in Paths
        /\ IF r.owner THEN Person[b] = Own ELSE r.seller = Person[b]
        /\ r.path \in {"convert", "share", "unshare"} => r.list \in DOMAIN ls

DeskInv ==
    /\ DeskTypes
    /\ \A b \in Browsers : OwnSessions(b) /\ RunsAs(b, req[b], lists)
    /\ OwnerMarked

LEMMA NoReqFine == NoReq \in Visit /\ \A b, ls : RunsAs(b, NoReq, ls)
BY DEF NoReq, Visit, RunsAs, Anybody

LEMMA PersonType == DeskHolds => Own \in Sellers /\ \A b \in Browsers : Person[b] \in Sellers
BY DEF DeskHolds, Sellers

LEMMA DeskStarts == DeskHolds /\ DeskInit => DeskInv
<1>1. SUFFICES ASSUME DeskHolds, DeskInit PROVE DeskInv
  OBVIOUS
<1>2. tries \in [Range(Address) -> TryRow]
  BY <1>1 DEF DeskInit, TryRow, DeskHolds
<1>3. <<>> \in Seq(ListRow) /\ <<>> \in Seq(NoteRow)
  OBVIOUS
<1>4. DeskTypes
  BY <1>1, <1>2, <1>3, NoReqFine DEF DeskInit, DeskTypes, Anybody
<1>5. \A b \in Browsers : OwnSessions(b) /\ RunsAs(b, req[b], lists)
  BY <1>1, NoReqFine DEF DeskInit, OwnSessions
<1>6. OwnerMarked
  BY <1>1 DEF DeskInit, OwnerMarked
<1>7. QED
  BY <1>4, <1>5, <1>6 DEF DeskInv

LEMMA CountIs ==
    ASSUME DeskTypes, NEW k \in DeskKinds, Count(k)
    PROVE  counted' \in [DeskKinds -> Nat]
<1>1. counted' = [counted EXCEPT ![k] = counted[k] + 1]
  BY Zenon DEF Count
<1>2. QED
  BY <1>1 DEF DeskTypes

\* What is logged is marked as the owner's doing just when the owner did it in another's row.
LEMMA LoggedIs ==
    ASSUME DeskHolds, DeskInv, NEW b \in Browsers, NEW i \in Sellers, NEW byOwner \in BOOLEAN,
           IF byOwner THEN Person[b] = Own ELSE Person[b] = i, Logged(b, i, byOwner)
    PROVE  /\ feed' \in SUBSET FeedRow /\ seen' \in [Sellers -> SUBSET Sellers]
           /\ OwnerMarked'
<1>1. Person[b] \in Sellers
  BY PersonType
<1>2. PICK e : e = [seller |-> i, byOwner |-> byOwner, by |-> Person[b]]
  OBVIOUS
<1>3. e \in FeedRow /\ (IF e.byOwner THEN e.by = Own ELSE e.by = e.seller)
  BY <1>1, <1>2 DEF FeedRow
<1>4. feed' = feed \cup {e}
  BY <1>2 DEF Logged
<1>5. feed' \in SUBSET FeedRow
  BY <1>3, <1>4 DEF DeskInv, DeskTypes
<1>6. \A f \in feed' : IF f.byOwner THEN f.by = Own ELSE f.by = f.seller
  BY <1>3, <1>4 DEF DeskInv, OwnerMarked
<1>7. seen' = IF byOwner THEN seen ELSE [seen EXCEPT ![i] = seen[i] \cup {Person[b]}]
  BY DEF Logged
<1>8. seen' \in [Sellers -> SUBSET Sellers]
  BY <1>1, <1>7 DEF DeskInv, DeskTypes
<1>9. \A j \in Sellers : seen'[j] \subseteq {j}
  BY <1>7 DEF DeskInv, DeskTypes, OwnerMarked
<1>10. QED
  BY <1>5, <1>6, <1>8, <1>9 DEF OwnerMarked

\* Lists stay, of the same seller.
ListsKept(ls, new) == \A l \in DOMAIN ls : l \in DOMAIN new

LEMMA RunsAsKept == \A b, r, ls, new : ListsKept(ls, new) /\ RunsAs(b, r, ls) => RunsAs(b, r, new)
BY DEF ListsKept, RunsAs

\* One request changes, to one that runs as it should.
LEMMA ReqStep ==
    ASSUME DeskInv, NEW b \in Browsers, NEW r \in Visit, RunsAs(b, r, lists'), ListsKept(lists, lists'),
           req' = [req EXCEPT ![b] = r]
    PROVE  req' \in [Browsers -> Visit] /\ \A c \in Browsers : RunsAs(c, req'[c], lists')
<1>1. req' \in [Browsers -> Visit]
  BY DEF DeskInv, DeskTypes
<1>2. \A c \in Browsers : req'[c] = IF c = b THEN r ELSE req[c]
  BY DEF DeskInv, DeskTypes
<1>3. QED
  BY <1>1, <1>2, RunsAsKept DEF DeskInv

LEMMA TriesType ==
    ASSUME DeskInv, NEW x, NEW t \in TryRow, tries' = [tries EXCEPT ![x] = t]
    PROVE  tries' \in [Range(Address) -> TryRow]
BY DEF DeskInv, DeskTypes

LEMMA KindsAre == {"session", "console", "app", "login", "fault"} \subseteq DeskKinds
BY DEF DeskKinds

\* Sessions begin and end; lists, notes and requests stay.
LEMMA SessionStep ==
    ASSUME DeskInv, NEW b \in Browsers, NEW c \in {Person[b], Nobody}, NEW o \in BOOLEAN, o => Person[b] = Own,
           c \in Anybody, customer' = [customer EXCEPT ![b] = c], console' = [console EXCEPT ![b] = o]
    PROVE  /\ customer' \in [Browsers -> Anybody] /\ console' \in [Browsers -> BOOLEAN]
           /\ \A d \in Browsers : OwnSessions(d)'
<1>1. customer' \in [Browsers -> Anybody] /\ console' \in [Browsers -> BOOLEAN]
  BY DEF DeskInv, DeskTypes
<1>2. ASSUME NEW d \in Browsers PROVE customer'[d] = (IF d = b THEN c ELSE customer[d]) /\ console'[d] = (IF d = b THEN o ELSE console[d])
  BY DEF DeskInv, DeskTypes
<1>3. \A d \in Browsers : OwnSessions(d)'
  BY <1>2 DEF DeskInv, OwnSessions
<1>4. QED
  BY <1>1, <1>3

\* What an action leaves alone keeps its part of the invariant.
LEMMA RowsSame ==
    ASSUME DeskInv, UNCHANGED <<lists, notes, req>>
    PROVE  /\ lists' \in Seq(ListRow) /\ notes' \in Seq(NoteRow) /\ req' \in [Browsers -> Visit]
           /\ \A b \in Browsers : RunsAs(b, req'[b], lists')
BY DEF DeskInv, DeskTypes

LEMMA SessionsSame ==
    ASSUME DeskInv, UNCHANGED <<customer, console>>
    PROVE  /\ customer' \in [Browsers -> Anybody] /\ console' \in [Browsers -> BOOLEAN]
           /\ \A b \in Browsers : OwnSessions(b)'
BY DEF DeskInv, DeskTypes, OwnSessions

LEMMA FeedSame ==
    ASSUME DeskInv, UNCHANGED <<seen, feed>>
    PROVE  /\ feed' \in SUBSET FeedRow /\ seen' \in [Sellers -> SUBSET Sellers] /\ OwnerMarked'
BY DEF DeskInv, DeskTypes, OwnerMarked

LEMMA DeskAssembled ==
    ASSUME customer' \in [Browsers -> Anybody], console' \in [Browsers -> BOOLEAN], \A b \in Browsers : OwnSessions(b)',
           feed' \in SUBSET FeedRow, seen' \in [Sellers -> SUBSET Sellers], OwnerMarked',
           lists' \in Seq(ListRow), notes' \in Seq(NoteRow), req' \in [Browsers -> Visit],
           \A b \in Browsers : RunsAs(b, req'[b], lists'),
           actas' \in [Browsers -> Anybody], tries' \in [Range(Address) -> TryRow],
           plan' \in [Sellers -> BOOLEAN], counted' \in [DeskKinds -> Nat]
    PROVE  DeskInv'
BY DEF DeskInv, DeskTypes

LEMMA SignInHereStep ==
    ASSUME DeskHolds, DeskInv, NEW b \in Browsers, SignInHere(b)
    PROVE  DeskInv'
<1>1. /\ customer' = [customer EXCEPT ![b] = Person[b]] /\ Logged(b, Person[b], FALSE) /\ Count("session")
      /\ UNCHANGED <<console, actas, tries, plan, lists, notes, req>>
  BY DEF SignInHere
<1>2. Person[b] \in Sellers /\ Person[b] \in Anybody
  BY PersonType DEF Anybody
<1>3. PICK o \in BOOLEAN : o = console[b]
  BY DEF DeskInv, DeskTypes
<1>4. (o => Person[b] = Own) /\ console' = [console EXCEPT ![b] = o]
  BY <1>1, <1>3 DEF DeskInv, DeskTypes, OwnSessions
<1>5. /\ customer' \in [Browsers -> Anybody] /\ console' \in [Browsers -> BOOLEAN]
      /\ \A d \in Browsers : OwnSessions(d)'
  BY <1>1, <1>2, <1>4, SessionStep
<1>6. counted' \in [DeskKinds -> Nat]
  BY <1>1, CountIs, KindsAre DEF DeskInv
<1>7. feed' \in SUBSET FeedRow /\ seen' \in [Sellers -> SUBSET Sellers] /\ OwnerMarked'
  BY <1>1, <1>2, LoggedIs
<1>8. QED
  BY <1>1, <1>5, <1>6, <1>7, RowsSame, DeskAssembled DEF DeskInv, DeskTypes

LEMMA SignOutHereStep ==
    ASSUME DeskHolds, DeskInv, NEW b \in Browsers, SignOutHere(b)
    PROVE  DeskInv'
<1>1. /\ customer[b] # Nobody /\ Logged(b, customer[b], FALSE) /\ Count("session")
      /\ customer' = [customer EXCEPT ![b] = Nobody]
      /\ UNCHANGED <<console, actas, tries, plan, lists, notes, req>>
  BY DEF SignOutHere
<1>2. customer[b] = Person[b] /\ Person[b] \in Sellers
  BY <1>1, PersonType DEF DeskInv, OwnSessions
<1>3. PICK o \in BOOLEAN : o = console[b]
  BY DEF DeskInv, DeskTypes
<1>4. (o => Person[b] = Own) /\ console' = [console EXCEPT ![b] = o]
  BY <1>1, <1>3 DEF DeskInv, DeskTypes, OwnSessions
<1>5. /\ customer' \in [Browsers -> Anybody] /\ console' \in [Browsers -> BOOLEAN]
      /\ \A d \in Browsers : OwnSessions(d)'
  BY <1>1, <1>4, SessionStep DEF Anybody
<1>6. counted' \in [DeskKinds -> Nat]
  BY <1>1, CountIs, KindsAre DEF DeskInv
<1>7. feed' \in SUBSET FeedRow /\ seen' \in [Sellers -> SUBSET Sellers] /\ OwnerMarked'
  BY <1>1, <1>2, LoggedIs
<1>8. QED
  BY <1>1, <1>5, <1>6, <1>7, RowsSame, DeskAssembled DEF DeskInv, DeskTypes

LEMMA SessionOverStep ==
    ASSUME DeskHolds, DeskInv, NEW b \in Browsers, SessionOver(b)
    PROVE  DeskInv'
<1>1. Count("fault") /\ UNCHANGED <<actas, tries, plan, seen, feed, lists, notes, req>>
  BY DEF SessionOver
<1>2. PICK c \in Anybody, o \in BOOLEAN : c = customer[b] /\ o = console[b]
  BY DEF DeskInv, DeskTypes
<1>3. c \in {Person[b], Nobody} /\ (o => Person[b] = Own)
  BY <1>2 DEF DeskInv, OwnSessions
<1>4. /\ customer' \in [Browsers -> Anybody] /\ console' \in [Browsers -> BOOLEAN]
      /\ \A d \in Browsers : OwnSessions(d)'
  <2>1. CASE customer' = [customer EXCEPT ![b] = Nobody] /\ console' = console
    <3>1. console' = [console EXCEPT ![b] = o]
      BY <1>2, <2>1 DEF DeskInv, DeskTypes
    <3>2. QED
      BY <1>3, <2>1, <3>1, SessionStep DEF Anybody
  <2>2. CASE console' = [console EXCEPT ![b] = FALSE] /\ customer' = customer
    <3>1. customer' = [customer EXCEPT ![b] = c]
      BY <1>2, <2>2 DEF DeskInv, DeskTypes
    <3>2. QED
      BY <1>2, <1>3, <2>2, <3>1, SessionStep
  <2>3. QED
    BY <2>1, <2>2 DEF SessionOver
<1>5. counted' \in [DeskKinds -> Nat]
  BY <1>1, CountIs, KindsAre DEF DeskInv
<1>6. QED
  BY <1>1, <1>4, <1>5, RowsSame, FeedSame, DeskAssembled DEF DeskInv, DeskTypes

LEMMA OwnerSessionStep ==
    ASSUME DeskHolds, DeskInv, NEW b \in Browsers,
           OwnerSignsIn(b) \/ OwnerSignsOut(b)
    PROVE  DeskInv'
<1>1. PICK o \in BOOLEAN : console' = [console EXCEPT ![b] = o] /\ (o => Person[b] = Own)
  <2>1. CASE OwnerSignsIn(b)
    BY <2>1 DEF OwnerSignsIn
  <2>2. CASE OwnerSignsOut(b)
    BY <2>2 DEF OwnerSignsOut
  <2>3. QED
    BY <2>1, <2>2
<1>2. PICK c \in Anybody : c = customer[b]
  BY DEF DeskInv, DeskTypes
<1>3. c \in {Person[b], Nobody}
  BY <1>2 DEF DeskInv, OwnSessions
<1>4. UNCHANGED <<customer, plan, seen, feed, lists, notes, req>>
  BY DEF OwnerSignsIn, OwnerSignsOut
<1>5. customer' = [customer EXCEPT ![b] = c]
  BY <1>2, <1>4 DEF DeskInv, DeskTypes
<1>6. /\ customer' \in [Browsers -> Anybody] /\ console' \in [Browsers -> BOOLEAN]
      /\ \A d \in Browsers : OwnSessions(d)'
  BY <1>1, <1>3, <1>5, SessionStep
<1>7. actas' \in [Browsers -> Anybody]
  BY DEF OwnerSignsIn, OwnerSignsOut, DeskInv, DeskTypes, Anybody
<1>8. tries' \in [Range(Address) -> TryRow]
  <2>1. [count |-> 0, locked |-> FALSE] \in TryRow
    BY DEF DeskHolds, TryRow
  <2>2. tries' = tries \/ tries' = [tries EXCEPT ![Address[b]] = [count |-> 0, locked |-> FALSE]]
    BY DEF OwnerSignsIn, OwnerSignsOut
  <2>3. QED
    BY <2>1, <2>2, TriesType DEF DeskInv, DeskTypes
<1>9. counted' \in [DeskKinds -> Nat]
  <2>1. Count("session") \/ Count("console")
    BY DEF OwnerSignsIn, OwnerSignsOut
  <2>2. QED
    BY <2>1, CountIs, KindsAre DEF DeskInv
<1>10. QED
  BY <1>4, <1>6, <1>7, <1>8, <1>9, RowsSame, FeedSame, DeskAssembled DEF DeskInv, DeskTypes

LEMMA LockStep ==
    ASSUME DeskHolds, DeskInv, NEW b \in Browsers, WrongPassword(b) \/ LockOver(b)
    PROVE  DeskInv'
<1>1. UNCHANGED <<customer, console, actas, plan, seen, feed, lists, notes, req>>
  BY DEF WrongPassword, LockOver
<1>2. tries' \in [Range(Address) -> TryRow]
  <2>1. CASE Address[b] \in Range(Address)
    <3>1. PICK t \in TryRow : t = tries[Address[b]]
      BY <2>1 DEF DeskInv, DeskTypes
    <3>2. t.count \in 0..(AttemptLimit - 1) /\ AttemptLimit \in Nat \ {0}
      BY <3>1 DEF TryRow, DeskHolds
    <3>3. CASE WrongPassword(b)
      <4>1. PICK n : n = t.count + 1
        OBVIOUS
      <4>2. PICK u : u = [count |-> IF n >= AttemptLimit THEN 0 ELSE n, locked |-> n >= AttemptLimit]
        OBVIOUS
      <4>3. (IF n >= AttemptLimit THEN 0 ELSE n) \in 0..(AttemptLimit - 1) /\ (n >= AttemptLimit) \in BOOLEAN
        BY <3>2, <4>1
      <4>4. u \in TryRow
        BY <4>2, <4>3 DEF TryRow
      <4>5. tries' = [tries EXCEPT ![Address[b]] = u]
        BY <3>1, <3>3, <4>1, <4>2 DEF WrongPassword
      <4>6. QED
        BY <4>4, <4>5, TriesType
    <3>4. CASE LockOver(b)
      <4>1. PICK u : u = [t EXCEPT !.locked = FALSE]
        OBVIOUS
      <4>2. u \in TryRow
        BY <4>1 DEF TryRow
      <4>3. tries' = [tries EXCEPT ![Address[b]] = u]
        BY <3>1, <3>4, <4>1 DEF LockOver
      <4>4. QED
        BY <4>2, <4>3, TriesType
    <3>5. QED
      BY <3>3, <3>4
  <2>2. CASE Address[b] \notin Range(Address)
    <3>1. tries' = tries
      BY <2>2 DEF WrongPassword, LockOver, DeskInv, DeskTypes
    <3>2. QED
      BY <3>1 DEF DeskInv, DeskTypes
  <2>3. QED
    BY <2>1, <2>2
<1>3. counted' \in [DeskKinds -> Nat]
  <2>1. counted' = counted \/ Count("login")
    BY DEF WrongPassword, LockOver
  <2>2. QED
    BY <2>1, CountIs, KindsAre DEF DeskInv, DeskTypes
<1>4. QED
  BY <1>1, <1>2, <1>3, RowsSame, SessionsSame, FeedSame, DeskAssembled DEF DeskInv, DeskTypes

LEMMA StartsAgainStep == DeskHolds /\ DeskInv /\ StartsAgain => DeskInv'
<1>1. SUFFICES ASSUME DeskHolds, DeskInv, StartsAgain PROVE DeskInv'
  OBVIOUS
<1>2. /\ Count("fault") /\ req' = [b \in Browsers |-> NoReq]
      /\ tries' = [x \in Range(Address) |-> [count |-> 0, locked |-> FALSE]]
      /\ UNCHANGED <<customer, console, actas, plan, seen, feed, lists, notes>>
  BY <1>1 DEF StartsAgain
<1>3. [count |-> 0, locked |-> FALSE] \in TryRow
  BY <1>1 DEF DeskHolds, TryRow
<1>4. tries' \in [Range(Address) -> TryRow]
  BY <1>2, <1>3
<1>5. req' \in [Browsers -> Visit] /\ \A b \in Browsers : RunsAs(b, req'[b], lists')
  BY <1>2, NoReqFine
<1>6. counted' \in [DeskKinds -> Nat]
  BY <1>1, <1>2, CountIs, KindsAre DEF DeskInv
<1>7. lists' \in Seq(ListRow) /\ notes' \in Seq(NoteRow)
  BY <1>1, <1>2 DEF DeskInv, DeskTypes
<1>8. QED
  BY <1>1, <1>2, <1>4, <1>5, <1>6, <1>7, SessionsSame, FeedSame, DeskAssembled DEF DeskInv, DeskTypes

\* The console: only the owner is there.
LEMMA AtConsoleIs ==
    ASSUME DeskInv, NEW b \in Browsers, AtConsole(b)
    PROVE  Person[b] = Own /\ counted' \in [DeskKinds -> Nat]
<1>1. console[b] /\ Count("console")
  BY DEF AtConsole
<1>2. QED
  BY <1>1, CountIs, KindsAre DEF DeskInv, OwnSessions

LEMMA OtherRowStep ==
    ASSUME DeskHolds, DeskInv, NEW b \in Browsers, NEW i \in Sellers,
           OpenDashboard(b, i) \/ ChangePlan(b, i)
    PROVE  DeskInv'
<1>1. /\ AtConsole(b) /\ Logged(b, i, TRUE) /\ UNCHANGED <<customer, console, tries, lists, notes, req>>
  BY DEF OpenDashboard, ChangePlan
<1>2. Person[b] = Own /\ counted' \in [DeskKinds -> Nat]
  BY <1>1, AtConsoleIs
<1>3. feed' \in SUBSET FeedRow /\ seen' \in [Sellers -> SUBSET Sellers] /\ OwnerMarked'
  BY <1>1, <1>2, LoggedIs
<1>4. actas' \in [Browsers -> Anybody]
  BY DEF OpenDashboard, ChangePlan, DeskInv, DeskTypes, Anybody
<1>5. plan' \in [Sellers -> BOOLEAN]
  BY DEF OpenDashboard, ChangePlan, DeskInv, DeskTypes
<1>6. QED
  BY <1>1, <1>2, <1>3, <1>4, <1>5, RowsSame, SessionsSame, DeskAssembled DEF DeskInv, DeskTypes

LEMMA StopActingStep ==
    ASSUME DeskHolds, DeskInv, NEW b \in Browsers, StopActing(b)
    PROVE  DeskInv'
<1>1. /\ AtConsole(b) /\ actas' = [actas EXCEPT ![b] = Nobody]
      /\ UNCHANGED <<customer, console, tries, plan, seen, feed, lists, notes, req>>
  BY DEF StopActing
<1>2. actas' \in [Browsers -> Anybody] /\ counted' \in [DeskKinds -> Nat]
  BY <1>1, AtConsoleIs DEF DeskInv, DeskTypes, Anybody
<1>3. QED
  BY <1>1, <1>2, RowsSame, SessionsSame, FeedSame, DeskAssembled DEF DeskInv, DeskTypes

\* A list is added: the others are where they were.
LEMMA ListAdded ==
    ASSUME DeskInv, NEW x \in ListRow, lists' = Append(lists, x)
    PROVE  lists' \in Seq(ListRow) /\ ListsKept(lists, lists')
BY DEF DeskInv, DeskTypes, ListsKept

LEMMA OwnerUploadsStep ==
    ASSUME DeskHolds, DeskInv, NEW b \in Browsers, OwnerUploads(b)
    PROVE  DeskInv'
<1>1. /\ AtConsole(b) /\ actas' = [actas EXCEPT ![b] = Own]
      /\ lists' = Append(lists, [seller |-> Own, kind |-> "scan", shared |-> FALSE])
      /\ UNCHANGED <<customer, console, tries, plan, seen, feed, notes, req>>
  BY DEF OwnerUploads
<1>2. actas' \in [Browsers -> Anybody] /\ counted' \in [DeskKinds -> Nat]
  BY <1>1, AtConsoleIs, PersonType DEF DeskInv, DeskTypes, Anybody
<1>3. [seller |-> Own, kind |-> "scan", shared |-> FALSE] \in ListRow
  BY PersonType DEF ListRow
<1>4. lists' \in Seq(ListRow) /\ ListsKept(lists, lists')
  BY <1>1, <1>3, ListAdded
<1>5. req' \in [Browsers -> Visit] /\ \A c \in Browsers : RunsAs(c, req'[c], lists')
  BY <1>1, <1>4, RunsAsKept DEF DeskInv, DeskTypes
<1>6. QED
  BY <1>1, <1>2, <1>4, <1>5, SessionsSame, FeedSame, DeskAssembled DEF DeskInv, DeskTypes

LEMMA NoteStep ==
    ASSUME DeskHolds, DeskInv, NEW b \in Browsers, NEW n \in DOMAIN notes,
           CloseNote(b, n) \/ ReplyNote(b, n)
    PROVE  DeskInv'
<1>1. AtConsole(b) /\ UNCHANGED <<customer, console, actas, tries, plan, seen, feed, lists, req>>
  BY DEF CloseNote, ReplyNote
<1>2. PICK x \in NoteRow : x = notes[n]
  BY DEF DeskInv, DeskTypes
<1>3. PICK y \in NoteRow : notes' = [notes EXCEPT ![n] = y]
  <2>1. CASE CloseNote(b, n)
    <3>1. PICK said \in BOOLEAN :
             notes' = [notes EXCEPT ![n].status = "closed", ![n].answered = @ \/ said]
      BY <2>1, Zenon DEF CloseNote
    <3>2. PICK y : y = [notes[n] EXCEPT !.status = "closed", !.answered = @ \/ said]
      OBVIOUS
    <3>3. y = [seller |-> x.seller, status |-> "closed", answered |-> x.answered \/ said]
      BY <1>2, <3>2 DEF NoteRow
    <3>4. y \in NoteRow
      BY <3>3 DEF NoteRow
    <3>5. notes' = [notes EXCEPT ![n] = y]
      BY <3>1, <3>2, Zenon
    <3>6. QED
      BY <3>4, <3>5
  <2>2. CASE ReplyNote(b, n)
    <3>1. notes' = [notes EXCEPT ![n] = [notes[n] EXCEPT !.status = "answered", !.answered = TRUE]]
      BY <2>2 DEF ReplyNote
    <3>2. [x EXCEPT !.status = "answered", !.answered = TRUE] \in NoteRow
      BY DEF NoteRow
    <3>3. QED
      BY <1>2, <3>1, <3>2
  <2>3. QED
    BY <2>1, <2>2
<1>4. notes' \in Seq(NoteRow)
  BY <1>3 DEF DeskInv, DeskTypes
<1>5. /\ lists' \in Seq(ListRow) /\ req' \in [Browsers -> Visit]
      /\ \A c \in Browsers : RunsAs(c, req'[c], lists')
  BY <1>1 DEF DeskInv, DeskTypes
<1>6. counted' \in [DeskKinds -> Nat]
  BY <1>1, AtConsoleIs
<1>7. QED
  BY <1>1, <1>4, <1>5, <1>6, SessionsSame, FeedSame, DeskAssembled DEF DeskInv, DeskTypes

\* resolveAccount: a request runs as its own seller, or is the owner's.
LEMMA RequestStep ==
    ASSUME DeskHolds, DeskInv, NEW b \in Browsers, NEW path \in Paths, NEW l \in 0..Len(lists),
           Request(b, path, l)
    PROVE  DeskInv'
<1>1. /\ WorksAs(b) # Nobody /\ Count("app")
      /\ (path \in {"convert", "share", "unshare"} => l \in DOMAIN lists)
      /\ UNCHANGED <<customer, console, actas, tries, plan, seen, feed, lists, notes>>
  BY DEF Request
<1>2. PICK as : as = Acting(b)
  OBVIOUS
<1>3. PICK r : r = [at |-> IF as = Nobody THEN "gate" ELSE IF as = Own THEN "body" ELSE "log",
                    path |-> path, seller |-> WorksAs(b), owner |-> as # Nobody, list |-> l]
  OBVIOUS
<1>4. req' = [req EXCEPT ![b] = r]
  BY <1>2, <1>3 DEF Request
<1>5. /\ WorksAs(b) \in Sellers
      /\ IF as # Nobody THEN Person[b] = Own ELSE WorksAs(b) = Person[b]
  <2>1. actas[b] \in Anybody /\ customer[b] \in {Person[b], Nobody} /\ (console[b] => Person[b] = Own)
    BY DEF DeskInv, DeskTypes, OwnSessions
  <2>2. Own \in Sellers /\ Person[b] \in Sellers
    BY PersonType
  <2>3. QED
    BY <1>1, <1>2, <2>1, <2>2 DEF WorksAs, Acting, Anybody
<1>6. l \in Nat
  BY DEF DeskInv, DeskTypes
<1>7. r \in Visit
  BY <1>3, <1>5, <1>6 DEF Visit, Anybody
<1>8. RunsAs(b, r, lists')
  BY <1>1, <1>3, <1>5 DEF RunsAs
<1>9. req' \in [Browsers -> Visit] /\ \A c \in Browsers : RunsAs(c, req'[c], lists')
  BY <1>1, <1>4, <1>7, <1>8, ReqStep DEF ListsKept
<1>10. counted' \in [DeskKinds -> Nat] /\ lists' \in Seq(ListRow) /\ notes' \in Seq(NoteRow)
  BY <1>1, CountIs, KindsAre DEF DeskInv, DeskTypes
<1>11. QED
  BY <1>1, <1>9, <1>10, SessionsSame, FeedSame, DeskAssembled DEF DeskInv, DeskTypes

LEMMA GateStep ==
    ASSUME DeskHolds, DeskInv, NEW b \in Browsers, Gate(b)
    PROVE  DeskInv'
<1>1. /\ req[b].at = "gate" /\ UNCHANGED <<customer, console, actas, tries, plan, seen, feed, lists, notes, counted>>
      /\ req[b] \in Visit /\ RunsAs(b, req[b], lists)
  BY DEF Gate, DeskInv, DeskTypes
<1>2. PICK r : r = [req[b] EXCEPT !.at = "log"]
  OBVIOUS
<1>3. r \in Visit /\ r.seller = req[b].seller /\ r.path = req[b].path /\ r.owner = req[b].owner /\ r.list = req[b].list
  BY <1>1, <1>2 DEF Visit
<1>4. RunsAs(b, r, lists')
  BY <1>1, <1>3 DEF RunsAs
<1>5. req' = [req EXCEPT ![b] = r] \/ req' = [req EXCEPT ![b] = NoReq]
  BY <1>2 DEF Gate
<1>6. req' \in [Browsers -> Visit] /\ \A c \in Browsers : RunsAs(c, req'[c], lists')
  BY <1>1, <1>3, <1>4, <1>5, NoReqFine, ReqStep DEF ListsKept
<1>7. lists' \in Seq(ListRow) /\ notes' \in Seq(NoteRow)
  BY <1>1 DEF DeskInv, DeskTypes
<1>8. QED
  BY <1>1, <1>6, <1>7, SessionsSame, FeedSame, DeskAssembled DEF DeskInv, DeskTypes

LEMMA LogItStep ==
    ASSUME DeskHolds, DeskInv, NEW b \in Browsers, LogIt(b)
    PROVE  DeskInv'
<1>1. /\ req[b].at = "log" /\ req' = [req EXCEPT ![b].at = "body"]
      /\ UNCHANGED <<customer, console, actas, tries, plan, lists, notes>>
      /\ req[b] \in Visit /\ RunsAs(b, req[b], lists)
  BY DEF LogIt, DeskInv, DeskTypes
<1>2. PICK r : r = [req[b] EXCEPT !.at = "body"]
  OBVIOUS
<1>3. r \in Visit /\ r.seller = req[b].seller /\ r.path = req[b].path /\ r.owner = req[b].owner /\ r.list = req[b].list
  BY <1>1, <1>2 DEF Visit
<1>4. RunsAs(b, r, lists')
  BY <1>1, <1>3 DEF RunsAs
<1>5. req' = [req EXCEPT ![b] = r]
  BY <1>1, <1>2
<1>6. req' \in [Browsers -> Visit] /\ \A c \in Browsers : RunsAs(c, req'[c], lists')
  BY <1>1, <1>3, <1>4, <1>5, ReqStep DEF ListsKept
<1>7. lists' \in Seq(ListRow) /\ notes' \in Seq(NoteRow)
  BY <1>1 DEF DeskInv, DeskTypes
<1>8. CASE Logged(b, req[b].seller, req[b].owner) /\ UNCHANGED counted
  <2>1. PICK i \in Sellers, byOwner \in BOOLEAN : i = req[b].seller /\ byOwner = req[b].owner
    BY <1>1 DEF RunsAs, Visit
  <2>2. IF byOwner THEN Person[b] = Own ELSE Person[b] = i
    BY <1>1, <2>1 DEF RunsAs
  <2>3. feed' \in SUBSET FeedRow /\ seen' \in [Sellers -> SUBSET Sellers] /\ OwnerMarked'
    BY <1>8, <2>1, <2>2, LoggedIs
  <2>4. QED
    BY <1>1, <1>6, <1>7, <1>8, <2>3, SessionsSame, DeskAssembled DEF DeskInv, DeskTypes
<1>9. CASE Count("fault") /\ UNCHANGED <<seen, feed>>
  <2>1. counted' \in [DeskKinds -> Nat]
    BY <1>9, CountIs, KindsAre DEF DeskInv
  <2>2. QED
    BY <1>1, <1>6, <1>7, <1>9, <2>1, SessionsSame, FeedSame, DeskAssembled DEF DeskInv, DeskTypes
<1>10. QED
  BY <1>8, <1>9 DEF LogIt

\* What the last step of a request does to the lists: it adds one, or changes one of its seller.
LEMMA BodyLists ==
    ASSUME DeskHolds, DeskInv, NEW b \in Browsers, Body(b)
    PROVE  /\ lists' \in Seq(ListRow) /\ ListsKept(lists, lists')
           /\ \A l \in DOMAIN lists : lists'[l] # lists[l] => req[b].seller = lists[l].seller
<1>1. req[b].at = "body" /\ req[b] \in Visit /\ RunsAs(b, req[b], lists)
  BY DEF Body, DeskInv, DeskTypes
<1>2. req[b].seller \in Sellers
  BY <1>1 DEF RunsAs
<1>3. ASSUME NEW kind \in {"scan", "pricing"}, Opens(b, kind)
      PROVE  /\ lists' \in Seq(ListRow) /\ ListsKept(lists, lists')
             /\ \A l \in DOMAIN lists : lists'[l] # lists[l] => req[b].seller = lists[l].seller
  <2>1. PICK x : x = [seller |-> req[b].seller, kind |-> kind, shared |-> FALSE]
    OBVIOUS
  <2>2. x \in ListRow
    BY <1>2, <2>1 DEF ListRow
  <2>3. lists' = Append(lists, x)
    BY <1>3, <2>1 DEF Opens
  <2>4. \A l \in DOMAIN lists : lists'[l] = lists[l]
    BY <2>2, <2>3 DEF DeskInv, DeskTypes
  <2>5. QED
    BY <2>2, <2>3, <2>4, ListAdded
<1>4. ASSUME req[b].path \in {"convert", "share", "unshare"},
             \/ Change(b, "kind", "scan") \/ Change(b, "shared", TRUE) \/ Change(b, "shared", FALSE)
      PROVE  /\ lists' \in Seq(ListRow) /\ ListsKept(lists, lists')
             /\ \A l \in DOMAIN lists : lists'[l] # lists[l] => req[b].seller = lists[l].seller
  <2>1. req[b].list \in DOMAIN lists
    BY <1>1, <1>4 DEF RunsAs
  <2>2. PICK k \in DOMAIN lists, x \in ListRow : k = req[b].list /\ x = lists[k]
    BY <2>1 DEF DeskInv, DeskTypes
  <2>3. CASE lists' = lists
    BY <2>3 DEF DeskInv, DeskTypes, ListsKept
  <2>4. CASE lists[k].seller = req[b].seller /\ lists' # lists
    <3>1. PICK y \in ListRow : lists' = [lists EXCEPT ![k] = y]
      <4>1. CASE Change(b, "kind", "scan")
        <5>1. lists' = [lists EXCEPT ![k] = [x EXCEPT !.kind = "scan"]]
          BY <2>2, <2>4, <4>1 DEF Change, Changed
        <5>2. [x EXCEPT !.kind = "scan"] \in ListRow
          BY DEF ListRow
        <5>3. QED
          BY <5>1, <5>2
      <4>2. ASSUME NEW v \in BOOLEAN, Change(b, "shared", v)
            PROVE  \E y \in ListRow : lists' = [lists EXCEPT ![k] = y]
        <5>1. lists' = [lists EXCEPT ![k] = [x EXCEPT !.shared = v]]
          BY <2>2, <2>4, <4>2 DEF Change, Changed
        <5>2. [x EXCEPT !.shared = v] \in ListRow
          BY DEF ListRow
        <5>3. QED
          BY <5>1, <5>2
      <4>3. QED
        BY <1>4, <4>1, <4>2
    <3>2. lists' \in Seq(ListRow) /\ ListsKept(lists, lists')
      BY <2>2, <3>1 DEF DeskInv, DeskTypes, ListsKept
    <3>3. \A l \in DOMAIN lists : l # k => lists'[l] = lists[l]
      BY <3>1 DEF DeskInv, DeskTypes
    <3>4. QED
      BY <2>4, <3>2, <3>3
  <2>5. QED
    BY <1>4, <2>2, <2>3, <2>4 DEF Change
<1>5. CASE lists' = lists
  BY <1>5 DEF DeskInv, DeskTypes, ListsKept
<1>6. \/ lists' = lists
      \/ \E kind \in {"scan", "pricing"} : Opens(b, kind)
      \/ /\ req[b].path \in {"convert", "share", "unshare"}
         /\ \/ Change(b, "kind", "scan") \/ Change(b, "shared", TRUE) \/ Change(b, "shared", FALSE)
  BY DEF Body
<1>7. QED
  BY <1>3, <1>4, <1>5, <1>6

LEMMA BodyStep ==
    ASSUME DeskHolds, DeskInv, NEW b \in Browsers, Body(b)
    PROVE  DeskInv'
<1>1. /\ req' = [req EXCEPT ![b] = NoReq]
      /\ UNCHANGED <<customer, console, actas, tries, plan, seen, feed, counted>>
      /\ req[b].at = "body" /\ RunsAs(b, req[b], lists)
  BY DEF Body, DeskInv
<1>2. lists' \in Seq(ListRow) /\ ListsKept(lists, lists')
  BY BodyLists
<1>3. notes' \in Seq(NoteRow)
  <2>1. PICK x : x = [seller |-> req[b].seller, status |-> "open", answered |-> FALSE]
    OBVIOUS
  <2>2. x \in NoteRow
    BY <1>1, <2>1 DEF RunsAs, NoteRow
  <2>3. notes' = notes \/ notes' = Append(notes, x)
    BY <2>1 DEF Body
  <2>4. notes \in Seq(NoteRow)
    BY DEF DeskInv, DeskTypes
  <2>5. Append(notes, x) \in Seq(NoteRow)
    BY <2>2, <2>4
  <2>6. QED
    BY <2>3, <2>4, <2>5
<1>4. req' \in [Browsers -> Visit] /\ \A c \in Browsers : RunsAs(c, req'[c], lists')
  BY <1>1, <1>2, NoReqFine, ReqStep
<1>5. QED
  BY <1>1, <1>2, <1>3, <1>4, SessionsSame, FeedSame, DeskAssembled DEF DeskInv, DeskTypes

LEMMA DeskStep == DeskHolds /\ DeskInv /\ [DeskNext]_deskVars => DeskInv'
<1>1. SUFFICES ASSUME DeskHolds, DeskInv, [DeskNext]_deskVars PROVE DeskInv'
  OBVIOUS
<1>2. CASE UNCHANGED deskVars
  BY <1>1, <1>2 DEF deskVars, DeskInv, DeskTypes, OwnSessions, OwnerMarked
<1>3. CASE StartsAgain
  BY <1>1, <1>3, StartsAgainStep
<1>4. ASSUME NEW b \in Browsers, SignInHere(b) \/ SignOutHere(b) \/ SessionOver(b)
      PROVE  DeskInv'
  BY <1>1, <1>4, SignInHereStep, SignOutHereStep, SessionOverStep
<1>5. ASSUME NEW b \in Browsers,
             OwnerSignsIn(b) \/ WrongPassword(b) \/ LockOver(b) \/ OwnerSignsOut(b)
      PROVE  DeskInv'
  BY <1>1, <1>5, OwnerSessionStep, LockStep
<1>6. ASSUME NEW b \in Browsers,
             \/ \E i \in Sellers : OpenDashboard(b, i) \/ ChangePlan(b, i)
             \/ StopActing(b) \/ OwnerUploads(b)
             \/ \E n \in DOMAIN notes : CloseNote(b, n) \/ ReplyNote(b, n)
      PROVE  DeskInv'
  BY <1>1, <1>6, OtherRowStep, StopActingStep, OwnerUploadsStep, NoteStep
<1>7. ASSUME NEW b \in Browsers, NEW path \in Paths, NEW l \in 0..Len(lists), Request(b, path, l)
      PROVE  DeskInv'
  BY <1>1, <1>7, RequestStep
<1>8. ASSUME NEW b \in Browsers, Gate(b) \/ LogIt(b) \/ Body(b) PROVE DeskInv'
  BY <1>1, <1>8, GateStep, LogItStep, BodyStep
<1>9. QED
  BY <1>1, <1>2, <1>3, <1>4, <1>5, <1>6, <1>7, <1>8 DEF DeskNext

\* Types; among them, that an address is locked before it has failed as often as the limit.
THEOREM DeskTypesHold == DeskSpec => []DeskTypes
<1>1. DeskInv => DeskTypes
  BY DEF DeskInv
<1>2. (DeskInit => DeskInv) /\ (DeskInv /\ [DeskNext]_deskVars => DeskInv')
  BY DeskStarts, DeskStep, WorkspaceAssumption
<1>3. QED
  BY <1>1, <1>2, PTL DEF DeskSpec

\* No row of the activity log says that a seller did what the owner did, or the other way
\* round, and only the seller moves the time they were last seen.
THEOREM FeedIsHonest == DeskSpec => []OwnerMarked
<1>1. DeskInv => OwnerMarked
  BY DEF DeskInv
<1>2. (DeskInit => DeskInv) /\ (DeskInv /\ [DeskNext]_deskVars => DeskInv')
  BY DeskStarts, DeskStep, WorkspaceAssumption
<1>3. QED
  BY <1>1, <1>2, PTL DEF DeskSpec

\* A note that was answered stays answered.
LEMMA NotesKept ==
    ASSUME DeskInv, NEW n \in DOMAIN notes, notes[n].answered,
           \/ \E b \in Browsers, k \in DOMAIN notes : CloseNote(b, k) \/ ReplyNote(b, k)
           \/ \E x : notes' = Append(notes, x)
    PROVE  notes'[n].answered
<1>1. notes \in Seq(NoteRow) /\ notes[n] \in NoteRow
  BY DEF DeskInv, DeskTypes
<1>2. ASSUME NEW b \in Browsers, NEW k \in DOMAIN notes, CloseNote(b, k) PROVE notes'[n].answered
  <2>1. PICK said \in BOOLEAN :
           notes' = [notes EXCEPT ![k].status = "closed", ![k].answered = @ \/ said]
    BY <1>2, Zenon DEF CloseNote
  <2>2. CASE n = k
    <3>1. notes'[n] = [notes[n] EXCEPT !.status = "closed", !.answered = @ \/ said]
      BY <2>1, <2>2, Zenon
    <3>2. notes'[n].answered = (notes[n].answered \/ said)
      BY <1>1, <3>1 DEF NoteRow
    <3>3. QED
      BY <3>2
  <2>3. CASE n # k
    BY <1>1, <2>1, <2>3
  <2>4. QED
    BY <2>2, <2>3
<1>3. ASSUME NEW b \in Browsers, NEW k \in DOMAIN notes, ReplyNote(b, k) PROVE notes'[n].answered
  <2>1. notes' = [notes EXCEPT ![k] = [notes[k] EXCEPT !.status = "answered", !.answered = TRUE]]
    BY <1>3 DEF ReplyNote
  <2>2. CASE n = k
    BY <1>1, <2>1, <2>2 DEF NoteRow
  <2>3. CASE n # k
    BY <1>1, <2>1, <2>3
  <2>4. QED
    BY <2>2, <2>3
<1>4. ASSUME NEW x, notes' = Append(notes, x) PROVE notes'[n].answered
  BY <1>1, <1>4
<1>5. QED
  BY <1>2, <1>3, <1>4

\* What a step does to lists and notes.
TakesNothing ==
    /\ \A l \in DOMAIN lists : lists'[l] # lists[l] =>
          \E b \in Browsers : /\ req[b].at = "body" /\ req[b].seller = lists[l].seller
                              /\ Person[b] \in {Own, lists[l].seller}
    /\ \A n \in DOMAIN notes : notes[n].answered => notes'[n].answered

LEMMA TakenStep == DeskHolds /\ DeskInv /\ [DeskNext]_deskVars => TakesNothing
<1>1. SUFFICES ASSUME DeskHolds, DeskInv, [DeskNext]_deskVars PROVE TakesNothing
  OBVIOUS
<1>2. CASE UNCHANGED <<lists, notes>>
  BY <1>2 DEF TakesNothing
<1>3. ASSUME NEW b \in Browsers, OwnerUploads(b) PROVE TakesNothing
  <2>1. lists' = Append(lists, [seller |-> Own, kind |-> "scan", shared |-> FALSE]) /\ notes' = notes
    BY <1>3 DEF OwnerUploads
  <2>2. \A l \in DOMAIN lists : lists'[l] = lists[l]
    BY <1>1, <2>1 DEF DeskInv, DeskTypes
  <2>3. QED
    BY <2>1, <2>2 DEF TakesNothing
<1>4. ASSUME NEW b \in Browsers, NEW n \in DOMAIN notes, CloseNote(b, n) \/ ReplyNote(b, n)
      PROVE  TakesNothing
  <2>1. lists' = lists
    BY <1>4 DEF CloseNote, ReplyNote
  <2>2. \A k \in DOMAIN notes : notes[k].answered => notes'[k].answered
    BY <1>1, <1>4, NotesKept
  <2>3. QED
    BY <2>1, <2>2 DEF TakesNothing
<1>5. ASSUME NEW b \in Browsers, Body(b) PROVE TakesNothing
  <2>1. req[b].at = "body" /\ RunsAs(b, req[b], lists)
    BY <1>1, <1>5 DEF Body, DeskInv
  <2>2. \A l \in DOMAIN lists : lists'[l] # lists[l] => req[b].seller = lists[l].seller
    BY <1>1, <1>5, BodyLists
  <2>3. Person[b] \in {Own, req[b].seller}
    BY <2>1 DEF RunsAs
  <2>4. notes' = notes \/ \E x : notes' = Append(notes, x)
    BY <1>5 DEF Body
  <2>5. \A n \in DOMAIN notes : notes[n].answered => notes'[n].answered
    BY <1>1, <2>4, NotesKept
  <2>6. QED
    BY <2>1, <2>2, <2>3, <2>5 DEF TakesNothing
<1>6. ASSUME NEW b \in Browsers,
             \/ SignInHere(b) \/ SignOutHere(b) \/ SessionOver(b)
             \/ OwnerSignsIn(b) \/ WrongPassword(b) \/ LockOver(b) \/ OwnerSignsOut(b)
             \/ \E i \in Sellers : OpenDashboard(b, i) \/ ChangePlan(b, i)
             \/ StopActing(b)
             \/ \E path \in Paths : \E l \in 0..Len(lists) : Request(b, path, l)
             \/ Gate(b) \/ LogIt(b)
      PROVE  UNCHANGED <<lists, notes>>
  BY <1>6 DEF SignInHere, SignOutHere, SessionOver, OwnerSignsIn, WrongPassword,
     LockOver, OwnerSignsOut, OpenDashboard, ChangePlan, StopActing, Request,
     Gate, LogIt
<1>7. CASE StartsAgain
  BY <1>2, <1>7 DEF StartsAgain
<1>8. CASE UNCHANGED deskVars
  BY <1>2, <1>8 DEF deskVars
<1>9. QED
  BY <1>1, <1>2, <1>3, <1>4, <1>5, <1>6, <1>7, <1>8 DEF DeskNext

\* A list is changed by a request of its own seller or of the owner in that seller's
\* workspace, and a note that was answered stays answered.
THEOREM ListsAreTheirSellers == DeskSpec => NothingTaken
<1>1. /\ (DeskInit => DeskInv) /\ (DeskInv /\ [DeskNext]_deskVars => DeskInv')
      /\ DeskInv /\ [DeskNext]_deskVars => TakesNothing
  BY DeskStarts, DeskStep, TakenStep, WorkspaceAssumption
<1>2. TakesNothing => [/\ \A l \in DOMAIN lists : lists'[l] # lists[l] =>
                             \E b \in Browsers : /\ req[b].at = "body" /\ req[b].seller = lists[l].seller
                                                 /\ Person[b] \in {Own, lists[l].seller}
                       /\ \A n \in DOMAIN notes : notes[n].answered => notes'[n].answered]_<<lists, notes, req>>
  BY DEF TakesNothing
<1>3. QED
  BY <1>1, <1>2, PTL DEF DeskSpec, NothingTaken

=============================================================================
