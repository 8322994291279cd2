-------------------------- MODULE ConnectionProofs --------------------------
(***************************************************************************)
(* Theorems about Connection for every number of sellers, members, orders  *)
(* and requests.  What a seller's connection holds is of one member, and   *)
(* nothing of a member who left outlives the receipt of the notice.  And   *)
(* about LiveListings: nothing kept is of an old keyset.                   *)
(***************************************************************************)
EXTENDS Connection, LiveListings, SequenceTheorems, TLAPS

-----------------------------------------------------------------------------
(* Type correctness.                                                       *)

SellerPcs == {"redeem", "exchange", "store", "flag", "identity", "name", "policies", "save", "pick",
              "choose", "unflag", "refresh", "access", "insert"}
NoticePcs == {"seen", "forget", "unmark", "log", "answer"}

Locals == [pc : SellerPcs \cup NoticePcs \cup {"idle"}, who : Sellers \cup {NoSeller},
           st : States \cup {NoState}, of : Members \cup {NoMember}, name : Names \cup {NoName},
           order : Orders \cup {NoOrder}, todo : SUBSET Sellers]

TypeOK ==
    /\ member \in [Members -> MemberRec]
    /\ acked \subseteq Members
    /\ state \in [States -> StateRec]
    /\ conn \in [Sellers -> Row \cup {Off}]
    /\ flag \in [Sellers -> BOOLEAN]
    /\ buyer \in [Orders -> Names \cup {NoName}]
    /\ log \subseteq Members
    /\ asked \in [Kinds -> Nat]
    /\ sess \in [Sessions -> Locals]

\* Beside the types: a request that writes has in hand what it writes.
LocalOK(r) ==
    /\ r.pc \in SellerPcs => r.who \in Sellers
    /\ r.pc \in NoticePcs => r.who = NoSeller /\ r.of \in Members /\ r.name \in Names /\ r.name[1] = r.of
    /\ r.pc \in {"redeem", "exchange"} => r.st \in States
    /\ r.pc \in {"store", "name", "save", "refresh", "access"} => r.of \in Members
    /\ r.pc \in {"name", "insert"} => r.name \in Names
    /\ r.pc = "name" => r.name[1] = r.of
    /\ r.pc = "insert" => r.order \in Orders

\* A state a request redeems has been consented to, and one never drawn has not.
StateOK ==
    /\ \A t \in States : state[t].owner = NoSeller => state[t].by = NoMember /\ ~state[t].live
    /\ \A s \in Sessions : sess[s].pc \in {"redeem", "exchange"} => state[sess[s].st].by # NoMember

\* A row's user id and user name are written together.
RowOK == \A x \in Sellers : Connected(x) => conn[x].user[1] = conn[x].user_id

Typed == TypeOK /\ \A s \in Sessions : LocalOK(sess[s])

TypeInv == Typed /\ StateOK /\ RowOK

LEMMA IdleType == Idle \in Locals /\ LocalOK(Idle)
BY DEF Idle, Locals, LocalOK, SellerPcs, NoticePcs

\* One request moves on: the others keep their types.
LEMMA SessionStep ==
    ASSUME Typed, NEW s \in Sessions, NEW r \in Locals, LocalOK(r),
           sess' = [sess EXCEPT ![s] = r]
    PROVE  sess' \in [Sessions -> Locals] /\ \A u \in Sessions : LocalOK(sess'[u])
BY DEF Typed, TypeOK

LEMMA DoneType ==
    ASSUME Typed, NEW s \in Sessions, Done(s)
    PROVE  sess' \in [Sessions -> Locals] /\ \A u \in Sessions : LocalOK(sess'[u])
BY IdleType, SessionStep DEF Done

LEMMA ChargeType ==
    ASSUME Typed, NEW k \in Kinds, Charge(k)
    PROVE  asked' \in [Kinds -> Nat]
BY DEF Charge, Typed, TypeOK

LEMMA NameType ==
    ASSUME Typed, NEW m \in Members
    PROVE  NameOf(m) \in Names /\ NameOf(m)[1] = m
BY DEF NameOf, Names, Typed, TypeOK, MemberRec

LEMMA TypedInit == Init => Typed
<1>1. Init => TypeOK
  BY IdleType, ConnectionAssumption DEF Init, TypeOK, MemberRec, StateRec
<1>2. QED
  BY <1>1, IdleType DEF Init, Typed

\* A row of the table, by its columns.
LEMMA RowType ==
    ASSUME NEW c \in Row \cup {Off}, c # Off
    PROVE  /\ c \in Row
           /\ c.access \in Members /\ c.refresh \in Members
           /\ c.user \in Names \cup {NoName} /\ c.user_id \in Members \cup {NoMember}
           /\ c.policies \in Members \cup {NoMember} /\ c.policy_ids \in Members \cup {NoMember}
BY DEF Row

\* A row after an update, and the table after a row's update.
LEMMA RowSet ==
    ASSUME NEW c \in Row
    PROVE  /\ \A m \in Members : /\ [c EXCEPT !.access = m] \in Row
                                 /\ [c EXCEPT !.access = m, !.refresh = m] \in Row
           /\ \A m \in Members \cup {NoMember} :
                 /\ \A u \in Names \cup {NoName} : [c EXCEPT !.user = u, !.user_id = m] \in Row
                 /\ [c EXCEPT !.policies = m] \in Row
                 /\ [c EXCEPT !.policy_ids = m] \in Row
BY DEF Row

LEMMA ConnStep ==
    ASSUME Typed, NEW x \in Sellers, NEW c, Connected(x) => c \in Row,
           conn' = IF Connected(x) THEN [conn EXCEPT ![x] = c] ELSE conn
    PROVE  conn' \in [Sellers -> Row \cup {Off}]
BY DEF Typed, TypeOK

\* The steps of a seller's request.
LEMMA TypedSeller ==
    ASSUME Typed, StateOK, NEW s \in Sessions, SellerSteps(s)
    PROVE  Typed'
<1> USE DEF Typed, TypeOK
<1>0. sess[s] \in Locals /\ LocalOK(sess[s])
  OBVIOUS
<1>1. CASE Redeem(s)
  <2>1. [sess[s] EXCEPT !.pc = "exchange"] \in Locals /\ LocalOK([sess[s] EXCEPT !.pc = "exchange"])
    BY <1>0, <1>1 DEF Redeem, At, Locals, LocalOK, SellerPcs, NoticePcs
  <2>2. sess' \in [Sessions -> Locals] /\ \A u \in Sessions : LocalOK(sess'[u])
    BY <1>1, <2>1, SessionStep, DoneType DEF Redeem, Goto
  <2>3. state' \in [States -> StateRec]
    BY <1>1 DEF Redeem, StateRec
  <2>4. QED
    BY <1>1, <2>2, <2>3 DEF Redeem
<1>2. CASE Exchange(s)
  <2> DEFINE m == state[sess[s].st].by
             r == [sess[s] EXCEPT !.pc = "store", !.of = m]
  <2>1. m \in Members
    BY <1>0, <1>2 DEF Exchange, At, StateOK, LocalOK, StateRec
  <2> HIDE DEF m
  <2>2. r \in Locals /\ LocalOK(r)
    BY <1>0, <1>2, <2>1 DEF Exchange, At, Locals, LocalOK, SellerPcs, NoticePcs
  <2>3. sess' = [sess EXCEPT ![s] = r] \/ Done(s)
    BY <1>2 DEF Exchange, m
  <2>4. sess' \in [Sessions -> Locals] /\ \A u \in Sessions : LocalOK(sess'[u])
    BY <2>2, <2>3, SessionStep, DoneType
  <2>5. QED
    BY <1>2, <2>4 DEF Exchange
<1>3. CASE Store(s)
  <2>1. [sess[s] EXCEPT !.pc = "flag"] \in Locals /\ LocalOK([sess[s] EXCEPT !.pc = "flag"])
    BY <1>0, <1>3 DEF Store, At, Locals, LocalOK, SellerPcs, NoticePcs
  <2>2. sess' \in [Sessions -> Locals] /\ \A u \in Sessions : LocalOK(sess'[u])
    BY <1>3, <2>1, SessionStep DEF Store, Goto
  <2>3. conn' \in [Sellers -> Row \cup {Off}]
    <3> DEFINE x == sess[s].who
               m == sess[s].of
               new == [access |-> m, refresh |-> m, user |-> NoName, user_id |-> NoMember,
                       policies |-> NoMember, policy_ids |-> NoMember]
               old == [conn[x] EXCEPT !.access = m, !.refresh = m]
    <3>1. x \in Sellers /\ m \in Members
      BY <1>0, <1>3 DEF Store, At, LocalOK, SellerPcs
    <3>2. new \in Row
      BY <3>1 DEF Row
    <3>3. Connected(x) => old \in Row
      BY <3>1, RowType, RowSet DEF Connected
    <3>4. conn' = [conn EXCEPT ![x] = IF Connected(x) THEN old ELSE new]
      BY <1>3 DEF Store
    <3> HIDE DEF x, m, new, old
    <3>5. QED
      BY <3>1, <3>2, <3>3, <3>4
  <2>4. QED
    BY <1>3, <2>2, <2>3 DEF Store
<1>4. CASE Flag(s)
  <2> DEFINE r == [sess[s] EXCEPT !.pc = "identity", !.of = NoMember]
  <2>1. r \in Locals /\ LocalOK(r)
    BY <1>0, <1>4 DEF Flag, At, Locals, LocalOK, SellerPcs, NoticePcs
  <2>2. QED
    BY <1>4, <2>1, SessionStep DEF Flag
<1>5. CASE Identity(s)
  <2> DEFINE m == conn[sess[s].who].access
             r == [sess[s] EXCEPT !.pc = "name", !.of = m, !.name = NameOf(m)]
             p == [sess[s] EXCEPT !.pc = "policies"]
  <2>1. p \in Locals /\ LocalOK(p)
    BY <1>0, <1>5 DEF Identity, At, Locals, LocalOK, SellerPcs, NoticePcs
  <2>2. Answers(sess[s].who) => m \in Members
    BY <1>0, <1>5, RowType DEF Identity, At, Answers, Connected, LocalOK, SellerPcs
  <2> HIDE DEF m
  <2>3. Answers(sess[s].who) => r \in Locals /\ LocalOK(r)
    BY <1>0, <1>5, <2>2, NameType DEF Identity, At, Locals, LocalOK, SellerPcs, NoticePcs
  <2>4. \/ Answers(sess[s].who) /\ sess' = [sess EXCEPT ![s] = r]
        \/ sess' = [sess EXCEPT ![s] = p]
    BY <1>5 DEF Identity, Goto, m
  <2>5. sess' \in [Sessions -> Locals] /\ \A u \in Sessions : LocalOK(sess'[u])
    BY <2>1, <2>3, <2>4, SessionStep
  <2>6. asked' \in [Kinds -> Nat]
    BY <1>5, ChargeType DEF Identity, Kinds
  <2>7. QED
    BY <1>5, <2>5, <2>6 DEF Identity
<1>6. CASE Name(s)
  <2> DEFINE r == [sess[s] EXCEPT !.pc = "policies", !.of = NoMember, !.name = NoName]
  <2>1. r \in Locals /\ LocalOK(r)
    BY <1>0, <1>6 DEF Name, At, Locals, LocalOK, SellerPcs, NoticePcs
  <2>2. conn' \in [Sellers -> Row \cup {Off}]
    <3> DEFINE c == [conn[sess[s].who] EXCEPT !.user = sess[s].name, !.user_id = sess[s].of]
    <3>1. sess[s].who \in Sellers /\ sess[s].of \in Members \cup {NoMember} /\ sess[s].name \in Names \cup {NoName}
      BY <1>0, <1>6 DEF Name, At, Locals, LocalOK, SellerPcs
    <3>2. Connected(sess[s].who) => c \in Row
      BY <3>1, RowType, RowSet DEF Connected
    <3>3. conn' = IF Connected(sess[s].who) THEN [conn EXCEPT ![sess[s].who] = c] ELSE conn
      BY <1>6 DEF Name
    <3> HIDE DEF c
    <3>4. QED
      BY <3>1, <3>2, <3>3, ConnStep
  <2>3. QED
    BY <1>6, <2>1, <2>2, SessionStep DEF Name
<1>7. CASE Policies(s)
  <2> DEFINE m == conn[sess[s].who].access
             r == [sess[s] EXCEPT !.pc = "save", !.of = m]
  <2>1. Answers(sess[s].who) => m \in Members
    BY <1>0, <1>7, RowType DEF Policies, At, Answers, Connected, LocalOK, SellerPcs
  <2> HIDE DEF m
  <2>2. Answers(sess[s].who) => r \in Locals /\ LocalOK(r)
    BY <1>0, <1>7, <2>1 DEF Policies, At, Locals, LocalOK, SellerPcs, NoticePcs
  <2>3. (Answers(sess[s].who) /\ sess' = [sess EXCEPT ![s] = r]) \/ Done(s)
    BY <1>7 DEF Policies, m
  <2>4. sess' \in [Sessions -> Locals] /\ \A u \in Sessions : LocalOK(sess'[u])
    BY <2>2, <2>3, SessionStep, DoneType
  <2>5. QED
    BY <1>7, <2>4 DEF Policies
<1>8. CASE SavePolicies(s)
  <2> DEFINE r == [sess[s] EXCEPT !.pc = "pick"]
  <2>1. r \in Locals /\ LocalOK(r)
    BY <1>0, <1>8 DEF SavePolicies, At, Locals, LocalOK, SellerPcs, NoticePcs
  <2>2. conn' \in [Sellers -> Row \cup {Off}]
    <3> DEFINE c == [conn[sess[s].who] EXCEPT !.policies = sess[s].of]
    <3>1. sess[s].who \in Sellers /\ sess[s].of \in Members \cup {NoMember} /\ sess[s].name \in Names \cup {NoName}
      BY <1>0, <1>8 DEF SavePolicies, At, Locals, LocalOK, SellerPcs
    <3>2. Connected(sess[s].who) => c \in Row
      BY <3>1, RowType, RowSet DEF Connected
    <3>3. conn' = IF Connected(sess[s].who) THEN [conn EXCEPT ![sess[s].who] = c] ELSE conn
      BY <1>8 DEF SavePolicies
    <3> HIDE DEF c
    <3>4. QED
      BY <3>1, <3>2, <3>3, ConnStep
  <2>3. QED
    BY <1>8, <2>1, <2>2, SessionStep DEF SavePolicies, Goto
<1>9. CASE Pick(s)
  <2> DEFINE ids == IF Connected(sess[s].who) THEN conn[sess[s].who].policy_ids ELSE NoMember
             id == IF ids = NoMember /\ sess[s].of \in OnePolicy THEN sess[s].of ELSE ids
             r == [sess[s] EXCEPT !.pc = "choose", !.of = id]
  <2>1. ids \in Members \cup {NoMember}
    BY <1>0, <1>9, RowType DEF Pick, At, Connected, LocalOK, SellerPcs
  <2>2. id \in Members \cup {NoMember}
    BY <1>0, <2>1, ConnectionAssumption
  <2>3. sess' = [sess EXCEPT ![s] = r]
    BY <1>9 DEF Pick
  <2> HIDE DEF id
  <2>4. r \in Locals /\ LocalOK(r)
    BY <1>0, <1>9, <2>2 DEF Pick, At, Locals, LocalOK, SellerPcs, NoticePcs
  <2>5. QED
    BY <1>9, <2>3, <2>4, SessionStep DEF Pick
<1>10. CASE Choose(s)
  <2>2. conn' \in [Sellers -> Row \cup {Off}]
    <3> DEFINE c == [conn[sess[s].who] EXCEPT !.policy_ids = sess[s].of]
    <3>1. sess[s].who \in Sellers /\ sess[s].of \in Members \cup {NoMember} /\ sess[s].name \in Names \cup {NoName}
      BY <1>0, <1>10 DEF Choose, At, Locals, LocalOK, SellerPcs
    <3>2. Connected(sess[s].who) => c \in Row
      BY <3>1, RowType, RowSet DEF Connected
    <3>3. conn' = IF Connected(sess[s].who) THEN [conn EXCEPT ![sess[s].who] = c] ELSE conn
      BY <1>10 DEF Choose
    <3> HIDE DEF c
    <3>4. QED
      BY <3>1, <3>2, <3>3, ConnStep
  <2>3. QED
    BY <1>10, <2>2, DoneType DEF Choose
<1>11. CASE Unflag(s)
  BY <1>11, DoneType DEF Unflag
<1>12. CASE Refreshed(s)
  <2> DEFINE r == [sess[s] EXCEPT !.pc = "access"]
  <2>1. r \in Locals /\ LocalOK(r)
    BY <1>0, <1>12 DEF Refreshed, At, Locals, LocalOK, SellerPcs, NoticePcs
  <2>2. QED
    BY <1>12, <2>1, SessionStep, DoneType DEF Refreshed, Goto
<1>13. CASE SaveAccess(s)
  <2>1. conn' \in [Sellers -> Row \cup {Off}]
    <3> DEFINE c == [conn[sess[s].who] EXCEPT !.access = sess[s].of]
    <3>1. sess[s].who \in Sellers /\ sess[s].of \in Members
      BY <1>0, <1>13 DEF SaveAccess, At, Locals, LocalOK, SellerPcs
    <3>2. Connected(sess[s].who) => c \in Row
      BY <3>1, RowType, RowSet DEF Connected
    <3>3. conn' = IF Connected(sess[s].who) THEN [conn EXCEPT ![sess[s].who] = c] ELSE conn
      BY <1>13 DEF SaveAccess
    <3> HIDE DEF c
    <3>4. QED
      BY <3>1, <3>2, <3>3, ConnStep
  <2>2. QED
    BY <1>13, <2>1, DoneType DEF SaveAccess
<1>14. CASE InsertOrder(s)
  <2>1. buyer' \in [Orders -> Names \cup {NoName}]
    BY <1>0, <1>14 DEF InsertOrder, At, LocalOK
  <2>2. QED
    BY <1>14, <2>1, DoneType DEF InsertOrder
<1>15. QED
  BY <1>1, <1>2, <1>3, <1>4, <1>5, <1>6, <1>7, <1>8, <1>9, <1>10, <1>11, <1>12, <1>13, <1>14
     DEF SellerSteps

\* The steps of a notice, and a request that fails.
LEMMA TypedNotice ==
    ASSUME Typed, NEW s \in Sessions, NoticeSteps(s) \/ Die(s)
    PROVE  Typed'
<1> USE DEF Typed, TypeOK
<1>0. sess[s] \in Locals /\ LocalOK(sess[s])
  OBVIOUS
<1>1. ASSUME NEW pc \in NoticePcs, NEW todo \in SUBSET Sellers, sess[s].pc \in NoticePcs
      PROVE  LET r == [sess[s] EXCEPT !.pc = pc, !.todo = todo]
             IN  r \in Locals /\ LocalOK(r)
  BY <1>0, <1>1 DEF Locals, LocalOK, NoticePcs, SellerPcs
<1>2. ASSUME NEW pc \in NoticePcs, sess[s].pc \in NoticePcs, Goto(s, pc)
      PROVE  sess' \in [Sessions -> Locals] /\ \A u \in Sessions : LocalOK(sess'[u])
  <2> DEFINE r == [sess[s] EXCEPT !.pc = pc]
  <2>1. r \in Locals /\ LocalOK(r)
    BY <1>0, <1>2 DEF Locals, LocalOK, NoticePcs, SellerPcs
  <2>2. QED
    BY <1>2, <2>1, SessionStep DEF Goto
<1>3. CASE Seen(s)
  BY <1>2, <1>3 DEF Seen, At, NoticePcs
<1>4. CASE Forget(s)
  <2> DEFINE gone == {x \in Sellers : Connected(x) /\ (\/ conn[x].user_id = sess[s].of
                                                       \/ conn[x].user = sess[s].name)}
             r == [sess[s] EXCEPT !.pc = "unmark", !.todo = gone]
  <2>1. r \in Locals /\ LocalOK(r)
    BY <1>1, <1>4 DEF Forget, At, NoticePcs
  <2>2. conn' \in [Sellers -> Row \cup {Off}]
    BY <1>4 DEF Forget
  <2>3. sess' = [sess EXCEPT ![s] = r]
    BY <1>4 DEF Forget
  <2> HIDE DEF r
  <2>4. QED
    BY <1>4, <2>1, <2>2, <2>3, SessionStep DEF Forget
<1>5. CASE Unmark(s)
  <2>1. PICK x \in sess[s].todo : /\ flag' = [flag EXCEPT ![x] = FALSE]
                                  /\ sess' = [sess EXCEPT ![s].todo = @ \ {x}]
    BY <1>5 DEF Unmark
  <2> DEFINE todo == sess[s].todo \ {x}
             r == [sess[s] EXCEPT !.todo = todo]
  <2>2. todo \in SUBSET Sellers
    BY <1>0 DEF Locals
  <2>3. sess' = [sess EXCEPT ![s] = r]
    BY <2>1
  <2> HIDE DEF todo
  <2>4. r \in Locals /\ LocalOK(r)
    BY <1>0, <1>5, <2>2 DEF Unmark, At, Locals, LocalOK, NoticePcs, SellerPcs
  <2>5. QED
    BY <1>5, <2>3, <2>4, SessionStep DEF Unmark
<1>6. CASE Clear(s)
  <2>1. buyer' \in [Orders -> Names \cup {NoName}]
    BY <1>6 DEF Clear
  <2>2. QED
    BY <1>2, <1>6, <2>1 DEF Clear, At, NoticePcs
<1>7. CASE ClearFails(s)
  BY <1>2, <1>7, ChargeType DEF ClearFails, At, NoticePcs, Kinds
<1>8. CASE Log(s)
  BY <1>0, <1>2, <1>8 DEF Log, At, NoticePcs, LocalOK
<1>9. CASE Answer(s)
  BY <1>0, <1>9, DoneType DEF Answer, At, NoticePcs, LocalOK
<1>10. CASE Die(s)
  BY <1>10, ChargeType, DoneType DEF Die, Kinds
<1>11. QED
  BY <1>3, <1>4, <1>5, <1>6, <1>7, <1>8, <1>9, <1>10 DEF NoticeSteps

\* A request that starts.
LEMMA TypedRequests ==
    ASSUME Typed, NEW s \in Sessions, Requests(s)
    PROVE  Typed'
<1> USE DEF Typed, TypeOK
<1>0. ASSUME NEW k \in Kinds, Ask(s, k) PROVE asked' \in [Kinds -> Nat]
  BY <1>0, ChargeType DEF Ask
<1>1. ASSUME NEW x \in Sellers, NEW t \in States, Return(s, x, t) PROVE Typed'
  <2> DEFINE r == [Idle EXCEPT !.pc = "redeem", !.who = x, !.st = t]
  <2>1. r \in Locals /\ LocalOK(r)
    <3>1. r \in Locals
      BY IdleType DEF Locals, SellerPcs
    <3>2. r.pc = "redeem" /\ r.who = x /\ r.st = t
      BY DEF Idle
    <3> HIDE DEF r
    <3>3. QED
      BY <3>1, <3>2 DEF LocalOK, SellerPcs, NoticePcs
  <2>2. QED
    BY <1>0, <1>1, <2>1, SessionStep DEF Return, Kinds
<1>2. ASSUME NEW x \in Sellers, Begin(s, x) PROVE Typed'
  <2>1. PICK old \in SUBSET {u \in States : state[u].live}, t \in Fresh :
          state' = [u \in States |-> IF u = t THEN [owner |-> x, by |-> NoMember, live |-> TRUE]
                                     ELSE [state[u] EXCEPT !.live = @ /\ u \notin old]]
    BY <1>2 DEF Begin
  <2>2. ASSUME NEW u \in States PROVE [state[u] EXCEPT !.live = @ /\ u \notin old] \in StateRec
    <3> DEFINE b == state[u].live /\ u \notin old
    <3>1. b \in BOOLEAN
      OBVIOUS
    <3> HIDE DEF b
    <3>2. [state[u] EXCEPT !.live = b] \in StateRec
      BY <3>1 DEF StateRec
    <3>3. QED
      BY <3>2 DEF b
  <2>3. [owner |-> x, by |-> NoMember, live |-> TRUE] \in StateRec
    BY DEF StateRec
  <2>4. state' \in [States -> StateRec]
    BY <2>1, <2>2, <2>3
  <2>5. QED
    BY <1>0, <1>2, <2>4 DEF Begin, Kinds
<1>3. ASSUME NEW x \in Sellers, Sync(s, x) PROVE Typed'
  <2> DEFINE r == [Idle EXCEPT !.pc = "policies", !.who = x]
  <2>1. r \in Locals /\ LocalOK(r)
    BY IdleType DEF Idle, Locals, LocalOK, SellerPcs, NoticePcs
  <2>2. QED
    BY <1>0, <1>3, <2>1, SessionStep DEF Sync, Kinds
<1>4. ASSUME NEW x \in Sellers, SaveSettings(s, x) PROVE Typed'
  <2> DEFINE m == conn[x].policies
             r == [Idle EXCEPT !.pc = "choose", !.who = x, !.of = m]
  <2>1. m \in Members \cup {NoMember}
    BY <1>4, RowType DEF SaveSettings, Connected
  <2>2. sess' = [sess EXCEPT ![s] = r]
    BY <1>4 DEF SaveSettings
  <2> HIDE DEF m
  <2>3. r \in Locals /\ LocalOK(r)
    <3>1. r \in Locals
      BY <2>1, IdleType DEF Locals, SellerPcs
    <3>2. r.pc = "choose" /\ r.who = x
      BY DEF Idle
    <3> HIDE DEF r
    <3>3. QED
      BY <3>1, <3>2 DEF LocalOK, SellerPcs, NoticePcs
  <2>4. QED
    BY <1>0, <1>4, <2>2, <2>3, SessionStep DEF SaveSettings, Kinds
<1>5. ASSUME NEW x \in Sellers, Disconnect(s, x) PROVE Typed'
  <2> DEFINE r == [Idle EXCEPT !.pc = "unflag", !.who = x]
  <2>1. r \in Locals /\ LocalOK(r)
    BY IdleType DEF Idle, Locals, LocalOK, SellerPcs, NoticePcs
  <2>2. conn' \in [Sellers -> Row \cup {Off}]
    BY <1>5 DEF Disconnect
  <2>3. QED
    BY <1>0, <1>5, <2>1, <2>2, SessionStep DEF Disconnect, Kinds
<1>6. ASSUME NEW x \in Sellers, Refresh(s, x) PROVE Typed'
  <2> DEFINE m == conn[x].refresh
             r == [Idle EXCEPT !.pc = "refresh", !.who = x, !.of = m]
  <2>1. m \in Members
    BY <1>6, RowType DEF Refresh, Connected
  <2>2. sess' = [sess EXCEPT ![s] = r]
    BY <1>6 DEF Refresh
  <2> HIDE DEF m
  <2>3. r \in Locals /\ LocalOK(r)
    BY <2>1, IdleType DEF Idle, Locals, LocalOK, SellerPcs, NoticePcs
  <2>4. QED
    BY <1>0, <1>6, <2>2, <2>3, SessionStep DEF Refresh, Kinds
<1>7. ASSUME NEW x \in Sellers, NEW o \in Orders, Pull(s, x, o) PROVE Typed'
  <2> DEFINE n == NameOf(BuyerOf[o])
             r == [Idle EXCEPT !.pc = "insert", !.who = x, !.order = o, !.name = n]
  <2>1. n \in Names
    BY NameType, ConnectionAssumption
  <2>2. sess' = [sess EXCEPT ![s] = r]
    BY <1>7 DEF Pull
  <2> HIDE DEF n
  <2>3. r \in Locals /\ LocalOK(r)
    BY <2>1, IdleType DEF Idle, Locals, LocalOK, SellerPcs, NoticePcs
  <2>4. QED
    BY <1>0, <1>7, <2>2, <2>3, SessionStep DEF Pull, Kinds
<1>8. QED
  BY <1>1, <1>2, <1>3, <1>4, <1>5, <1>6, <1>7 DEF Requests

\* What happens at eBay, and a notice that arrives.
LEMMA TypedEbay ==
    ASSUME Typed, NEW m \in Members,
           \/ Rename(m) \/ Close(m)
           \/ \E t \in States : SignIn(t, m)
           \/ \E s \in Sessions : Deliver(s, m)
    PROVE  Typed'
<1> USE DEF Typed, TypeOK
<1>1. CASE Rename(m)
  <2>1. member' \in [Members -> MemberRec]
    BY <1>1 DEF Rename, MemberRec
  <2>2. QED
    BY <1>1, <2>1, ChargeType DEF Rename, Kinds
<1>2. CASE Close(m)
  <2>1. member' \in [Members -> MemberRec]
    BY <1>2 DEF Close, MemberRec
  <2>2. QED
    BY <1>2, <2>1, ChargeType DEF Close, Kinds
<1>3. ASSUME NEW t \in States, SignIn(t, m) PROVE Typed'
  <2>1. state' \in [States -> StateRec]
    BY <1>3 DEF SignIn, StateRec
  <2>2. QED
    BY <1>3, <2>1 DEF SignIn
<1>4. ASSUME NEW s \in Sessions, Deliver(s, m) PROVE Typed'
  <2> DEFINE n == NameOf(m)
             r == [Idle EXCEPT !.pc = "seen", !.of = m, !.name = n]
  <2>1. n \in Names /\ n[1] = m
    BY NameType
  <2>2. sess' = [sess EXCEPT ![s] = r]
    BY <1>4 DEF Deliver
  <2> HIDE DEF n
  <2>3. r \in Locals /\ LocalOK(r)
    BY <2>1, IdleType DEF Idle, Locals, LocalOK, SellerPcs, NoticePcs
  <2>4. QED
    BY <1>4, <2>2, <2>3, SessionStep DEF Deliver
<1>5. QED
  BY <1>1, <1>2, <1>3, <1>4

LEMMA TypedNext == Typed /\ StateOK /\ [Next]_vars => Typed'
<1>1. Typed /\ UNCHANGED vars => Typed'
  BY DEF vars, Typed, TypeOK
<1>2. QED
  BY <1>1, TypedSeller, TypedNotice, TypedRequests, TypedEbay DEF Next

-----------------------------------------------------------------------------
(* What a step may touch.                                                  *)

\* A request's locals change by a step of its own.
LEMMA OwnStep ==
    ASSUME Typed, [Next]_vars, NEW u \in Sessions, sess'[u] # sess[u]
    PROVE  Requests(u) \/ SellerSteps(u) \/ NoticeSteps(u) \/ Die(u) \/ \E m \in Members : Deliver(u, m)
<1> USE DEF Typed, TypeOK
<1>1. ASSUME NEW s \in Sessions, s # u, Requests(s) PROVE sess'[u] = sess[u]
  BY <1>1 DEF Requests, Return, Begin, Sync, SaveSettings, Disconnect, Refresh, Pull
<1>2. ASSUME NEW s \in Sessions, s # u, SellerSteps(s) PROVE sess'[u] = sess[u]
  BY <1>2 DEF SellerSteps, Redeem, Exchange, Store, Flag, Identity, Name, Policies, SavePolicies, Pick,
              Choose, Unflag, Refreshed, SaveAccess, InsertOrder, Goto, Done
<1>3. ASSUME NEW s \in Sessions, s # u, NoticeSteps(s) \/ Die(s) PROVE sess'[u] = sess[u]
  BY <1>3 DEF NoticeSteps, Seen, Forget, Unmark, Clear, ClearFails, Log, Answer, Die, Goto, Done
<1>4. ASSUME NEW s \in Sessions, s # u, NEW m \in Members, Deliver(s, m) PROVE sess'[u] = sess[u]
  BY <1>4 DEF Deliver
<1>5. ASSUME NEW m \in Members, Rename(m) \/ Close(m) \/ \E t \in States : SignIn(t, m)
      PROVE  sess' = sess
  BY <1>5 DEF Rename, Close, SignIn
<1>6. CASE UNCHANGED vars
  BY <1>6 DEF vars
<1>7. QED
  BY <1>1, <1>2, <1>3, <1>4, <1>5, <1>6 DEF Next

\* A connection is written by these.
LEMMA ConnChange ==
    ASSUME [Next]_vars, conn' # conn
    PROVE  \E s \in Sessions :
              \/ Store(s) \/ Name(s) \/ SavePolicies(s) \/ Choose(s) \/ SaveAccess(s) \/ Forget(s)
              \/ \E x \in Sellers : Disconnect(s, x)
<1>1. ASSUME NEW s \in Sessions, Requests(s) PROVE \E x \in Sellers : Disconnect(s, x)
  BY <1>1 DEF Requests, Return, Begin, Sync, SaveSettings, Refresh, Pull
<1>2. ASSUME NEW s \in Sessions, SellerSteps(s)
      PROVE  Store(s) \/ Name(s) \/ SavePolicies(s) \/ Choose(s) \/ SaveAccess(s)
  BY <1>2 DEF SellerSteps, Redeem, Exchange, Flag, Identity, Policies, Pick, Unflag, Refreshed, InsertOrder
<1>3. ASSUME NEW s \in Sessions, NoticeSteps(s) \/ Die(s) PROVE Forget(s)
  BY <1>3 DEF NoticeSteps, Seen, Unmark, Clear, ClearFails, Log, Answer, Die
<1>4. ASSUME NEW m \in Members,
             \/ Rename(m) \/ Close(m)
             \/ \E t \in States : SignIn(t, m)
             \/ \E s \in Sessions : Deliver(s, m)
      PROVE  FALSE
  BY <1>4 DEF Rename, Close, SignIn, Deliver
<1>5. QED
  BY <1>1, <1>2, <1>3, <1>4 DEF Next, vars

\* A one-time state is written by these.
LEMMA StateChange ==
    ASSUME [Next]_vars, state' # state
    PROVE  \/ \E t \in States, m \in Members : SignIn(t, m)
           \/ \E s \in Sessions : Redeem(s) \/ \E x \in Sellers : Begin(s, x)
<1>1. ASSUME NEW s \in Sessions, Requests(s) PROVE \E x \in Sellers : Begin(s, x)
  BY <1>1 DEF Requests, Return, Disconnect, Sync, SaveSettings, Refresh, Pull
<1>2. ASSUME NEW s \in Sessions, SellerSteps(s) PROVE Redeem(s)
  BY <1>2 DEF SellerSteps, Store, Name, SavePolicies, Choose, SaveAccess, Exchange, Flag, Identity,
              Policies, Pick, Unflag, Refreshed, InsertOrder
<1>3. ASSUME NEW s \in Sessions, NoticeSteps(s) \/ Die(s) PROVE FALSE
  BY <1>3 DEF NoticeSteps, Seen, Forget, Unmark, Clear, ClearFails, Log, Answer, Die
<1>4. ASSUME NEW m \in Members, Rename(m) \/ Close(m) \/ \E s \in Sessions : Deliver(s, m)
      PROVE  FALSE
  BY <1>4 DEF Rename, Close, Deliver
<1>5. QED
  BY <1>1, <1>2, <1>3, <1>4 DEF Next, vars

\* A state never drawn is drawn.
LEMMA FreshState ==
    ASSUME NEW t \in Fresh
    PROVE  t \in States /\ state[t].owner = NoSeller
BY DEF Fresh

\* Who consented for a state stays, and a state once dropped or spent stays so until it is drawn.
LEMMA StateStep ==
    ASSUME Typed, StateOK, [Next]_vars, NEW t \in States
    PROVE  \/ /\ state'[t].owner = state[t].owner /\ state'[t].by = state[t].by
              /\ state'[t].live => state[t].live
           \/ \E x \in Sellers : state[t].by = NoMember /\ state'[t] = [owner |-> x, by |-> NoMember, live |-> TRUE]
           \/ \E m \in Members : SignIn(t, m) /\ state'[t] = [state[t] EXCEPT !.by = m]
<1> USE DEF Typed, TypeOK
<1>0. state[t] \in StateRec
  OBVIOUS
<1>1. ASSUME NEW u \in States, NEW m \in Members, SignIn(u, m)
      PROVE  (u = t /\ state'[t] = [state[t] EXCEPT !.by = m]) \/ state'[t] = state[t]
  BY <1>1 DEF SignIn
<1>2. ASSUME NEW s \in Sessions, NEW x \in Sellers, Begin(s, x)
      PROVE  \/ /\ state'[t].owner = state[t].owner /\ state'[t].by = state[t].by
                /\ state'[t].live => state[t].live
             \/ state[t].by = NoMember /\ state'[t] = [owner |-> x, by |-> NoMember, live |-> TRUE]
  <2>1. PICK old \in SUBSET {u \in States : state[u].live}, v \in Fresh :
          state' = [u \in States |-> IF u = v THEN [owner |-> x, by |-> NoMember, live |-> TRUE]
                                     ELSE [state[u] EXCEPT !.live = @ /\ u \notin old]]
    BY <1>2 DEF Begin
  <2>2. CASE t = v
    <3>1. state'[t] = [owner |-> x, by |-> NoMember, live |-> TRUE]
      BY <2>1, <2>2
    <3>2. state[t].by = NoMember
      BY <2>2, FreshState DEF StateOK
    <3>3. QED
      BY <3>1, <3>2
  <2>3. CASE t # v
    <3>1. state'[t] = [state[t] EXCEPT !.live = @ /\ t \notin old]
      BY <2>1, <2>3
    <3>2. DOMAIN state[t] = {"owner", "by", "live"}
      BY <1>0 DEF StateRec
    <3>3. QED
      BY <3>1, <3>2
  <2>4. QED
    BY <2>2, <2>3
<1>3. ASSUME NEW s \in Sessions, Redeem(s)
      PROVE  /\ state'[t].owner = state[t].owner /\ state'[t].by = state[t].by
             /\ state'[t].live => state[t].live
  BY <1>0, <1>3 DEF Redeem, StateRec
<1>4. QED
  BY <1>1, <1>2, <1>3, StateChange

LEMMA StateOKInit == Init => StateOK
BY DEF Init, StateOK, Idle

LEMMA StateOKNext == Typed /\ StateOK /\ [Next]_vars => StateOK'
<1> SUFFICES ASSUME Typed, StateOK, [Next]_vars PROVE StateOK'
  OBVIOUS
<1>0. Typed'
  BY TypedNext
<1>1. ASSUME NEW t \in States, state'[t].owner = NoSeller PROVE state'[t].by = NoMember /\ ~state'[t].live
  <2>1. state[t] \in StateRec
    BY DEF Typed, TypeOK
  <2>2. CASE \E x \in Sellers : state'[t] = [owner |-> x, by |-> NoMember, live |-> TRUE]
    BY <1>1, <2>2, ConnectionAssumption
  <2>3. CASE \E m \in Members : SignIn(t, m) /\ state'[t] = [state[t] EXCEPT !.by = m]
    BY <1>1, <2>1, <2>3 DEF SignIn, StateRec
  <2>4. CASE /\ state'[t].owner = state[t].owner /\ state'[t].by = state[t].by
             /\ state'[t].live => state[t].live
    BY <1>1, <2>4 DEF StateOK
  <2>5. QED
    BY <2>2, <2>3, <2>4, StateStep
<1>2. ASSUME NEW t \in States, state[t].by # NoMember PROVE state'[t].by # NoMember
  BY <1>2, StateStep DEF SignIn
<1>3. ASSUME NEW s \in Sessions, sess'[s].pc \in {"redeem", "exchange"}
      PROVE  state'[sess'[s].st].by # NoMember
  <2>1. CASE sess'[s] = sess[s]
    BY <1>2, <1>3, <2>1 DEF StateOK, Typed, LocalOK
  <2>2. CASE sess'[s] # sess[s]
    <3> USE DEF Typed, TypeOK, Locals
    <3>1. CASE Requests(s)
      <4>1. ASSUME NEW x \in Sellers, NEW t \in States, Return(s, x, t) PROVE state'[sess'[s].st].by # NoMember
        <5>1. sess'[s].st = t /\ state[t].by # NoMember
          BY <4>1 DEF Return, Idle
        <5>2. QED
          BY <1>2, <5>1
      <4>2. ASSUME NEW x \in Sellers, Begin(s, x) \/ Sync(s, x) \/ SaveSettings(s, x) \/ Disconnect(s, x) \/ Refresh(s, x)
            PROVE  FALSE
        <5>1. CASE Begin(s, x)
          BY <2>2, <5>1 DEF Begin
        <5>2. CASE Sync(s, x) \/ SaveSettings(s, x)
          <6>1. ASSUME NEW r, r.pc \in {"policies", "choose"}, sess' = [sess EXCEPT ![s] = r]
                PROVE  sess'[s].pc \in {"policies", "choose"}
            BY <6>1
          <6>2. CASE Sync(s, x)
            <7> DEFINE r == [Idle EXCEPT !.pc = "policies", !.who = x]
            <7>1. r.pc = "policies" /\ sess' = [sess EXCEPT ![s] = r]
              BY <6>2 DEF Idle, Sync
            <7> HIDE DEF r
            <7>2. QED
              BY <1>3, <6>1, <7>1
          <6>3. CASE SaveSettings(s, x)
            <7> DEFINE r == [Idle EXCEPT !.pc = "choose", !.who = x, !.of = conn[x].policies]
            <7>1. r.pc = "choose" /\ sess' = [sess EXCEPT ![s] = r]
              BY <6>3 DEF Idle, SaveSettings
            <7> HIDE DEF r
            <7>2. QED
              BY <1>3, <6>1, <7>1
          <6>4. QED
            BY <5>2, <6>2, <6>3
        <5>3. CASE Disconnect(s, x)
          BY <1>3, <5>3 DEF Disconnect, Idle
        <5>4. CASE Refresh(s, x)
          BY <1>3, <5>4 DEF Refresh, Idle
        <5>5. QED
          BY <4>2, <5>1, <5>2, <5>3, <5>4
      <4>3. ASSUME NEW x \in Sellers, NEW o \in Orders, Pull(s, x, o) PROVE FALSE
        BY <1>3, <4>3 DEF Pull, Idle
      <4>4. QED
        BY <3>1, <4>1, <4>2, <4>3 DEF Requests
    <3>2. CASE SellerSteps(s)
      <4>1. CASE Redeem(s)
        <5>1. sess[s].pc = "redeem" /\ sess'[s].st = sess[s].st
          BY <1>3, <4>1 DEF Redeem, At, Goto, Done, Idle
        <5>2. sess[s].st \in States /\ state[sess[s].st].by # NoMember
          BY <5>1 DEF StateOK, LocalOK
        <5>3. QED
          BY <1>2, <5>1, <5>2
      <4>2. CASE ~ Redeem(s)
        BY <1>3, <3>2, <4>2 DEF SellerSteps, Exchange, Store, Flag, Identity, Name, Policies, SavePolicies,
              Pick, Choose, Unflag, Refreshed, SaveAccess, InsertOrder, Goto, Done, Idle
      <4>3. QED
        BY <4>1, <4>2
    <3>3. CASE NoticeSteps(s) \/ Die(s)
      BY <1>3, <3>3 DEF NoticeSteps, Seen, Forget, Unmark, Clear, ClearFails, Log, Answer, Die, Goto, Done,
            Idle, At
    <3>4. ASSUME NEW m \in Members, Deliver(s, m) PROVE FALSE
      BY <1>3, <3>4 DEF Deliver, Idle
    <3>5. QED
      BY <2>2, <3>1, <3>2, <3>3, <3>4, OwnStep
  <2>3. QED
    BY <2>1, <2>2
<1>4. QED
  BY <1>1, <1>2, <1>3 DEF StateOK

\* How a seller's row may change: by a statement of a request of that seller.
RowWrite(s, x) ==
    \/ /\ At(s, "store") /\ ~Connected(x)
       /\ conn'[x] = [access |-> sess[s].of, refresh |-> sess[s].of, user |-> NoName, user_id |-> NoMember,
                      policies |-> NoMember, policy_ids |-> NoMember]
    \/ /\ At(s, "store") /\ Connected(x)
       /\ conn'[x] = [conn[x] EXCEPT !.access = sess[s].of, !.refresh = sess[s].of]
    \/ /\ At(s, "name") /\ Connected(x)
       /\ conn'[x] = [conn[x] EXCEPT !.user = sess[s].name, !.user_id = sess[s].of]
    \/ At(s, "save") /\ Connected(x) /\ conn'[x] = [conn[x] EXCEPT !.policies = sess[s].of]
    \/ At(s, "choose") /\ Connected(x) /\ conn'[x] = [conn[x] EXCEPT !.policy_ids = sess[s].of]
    \/ At(s, "access") /\ Connected(x) /\ conn'[x] = [conn[x] EXCEPT !.access = sess[s].of]

LEMMA RowChange ==
    ASSUME Typed, [Next]_vars, NEW x \in Sellers, Connected(x)', conn'[x] # conn[x]
    PROVE  \E s \in Sessions : sess[s].who = x /\ RowWrite(s, x)
<1> USE DEF Typed, TypeOK
<1>1. ASSUME NEW s \in Sessions, Store(s) PROVE sess[s].who = x /\ RowWrite(s, x)
  BY <1>1 DEF Store, RowWrite
<1>2. ASSUME NEW s \in Sessions, Name(s) PROVE sess[s].who = x /\ RowWrite(s, x)
  BY <1>2 DEF Name, RowWrite
<1>3. ASSUME NEW s \in Sessions, SavePolicies(s) PROVE sess[s].who = x /\ RowWrite(s, x)
  BY <1>3 DEF SavePolicies, RowWrite
<1>4. ASSUME NEW s \in Sessions, Choose(s) PROVE sess[s].who = x /\ RowWrite(s, x)
  BY <1>4 DEF Choose, RowWrite
<1>5. ASSUME NEW s \in Sessions, SaveAccess(s) PROVE sess[s].who = x /\ RowWrite(s, x)
  BY <1>5 DEF SaveAccess, RowWrite
<1>6. ASSUME NEW s \in Sessions, Forget(s) \/ \E y \in Sellers : Disconnect(s, y) PROVE FALSE
  BY <1>6 DEF Forget, Disconnect, Connected
<1>7. QED
  BY <1>1, <1>2, <1>3, <1>4, <1>5, <1>6, ConnChange

\* The same by columns.
LEMMA RowColumns ==
    ASSUME Typed, NEW x \in Sellers, NEW s \in Sessions, RowWrite(s, x)
    PROVE  /\ \/ Connected(x) /\ conn'[x].user = conn[x].user /\ conn'[x].user_id = conn[x].user_id
              \/ At(s, "store") /\ conn'[x].user = NoName /\ conn'[x].user_id = NoMember
              \/ At(s, "name") /\ conn'[x].user = sess[s].name /\ conn'[x].user_id = sess[s].of
           /\ \/ Connected(x) /\ conn'[x].access = conn[x].access
              \/ At(s, "store") /\ conn'[x].access = sess[s].of
              \/ At(s, "access") /\ conn'[x].access = sess[s].of
           /\ \/ Connected(x) /\ conn'[x].refresh = conn[x].refresh
              \/ At(s, "store") /\ conn'[x].refresh = sess[s].of
           /\ \/ Connected(x) /\ conn'[x].policies = conn[x].policies
              \/ conn'[x].policies = NoMember \/ conn'[x].policies = sess[s].of
           /\ \/ Connected(x) /\ conn'[x].policy_ids = conn[x].policy_ids
              \/ conn'[x].policy_ids = NoMember \/ conn'[x].policy_ids = sess[s].of
<1>1. Connected(x) => conn[x] \in Row
  BY DEF Typed, TypeOK, Connected
<1>2. Connected(x) => DOMAIN conn[x] = {"access", "refresh", "user", "user_id", "policies", "policy_ids"}
  BY <1>1 DEF Row
<1>3. CASE At(s, "store") /\ ~Connected(x) /\
           conn'[x] = [access |-> sess[s].of, refresh |-> sess[s].of, user |-> NoName, user_id |-> NoMember,
                       policies |-> NoMember, policy_ids |-> NoMember]
  BY <1>3
<1>4. CASE At(s, "store") /\ Connected(x) /\ conn'[x] = [conn[x] EXCEPT !.access = sess[s].of, !.refresh = sess[s].of]
  BY <1>2, <1>4
<1>5. CASE At(s, "name") /\ Connected(x) /\ conn'[x] = [conn[x] EXCEPT !.user = sess[s].name, !.user_id = sess[s].of]
  BY <1>2, <1>5
<1>6. CASE At(s, "save") /\ Connected(x) /\ conn'[x] = [conn[x] EXCEPT !.policies = sess[s].of]
  BY <1>2, <1>6
<1>7. CASE At(s, "choose") /\ Connected(x) /\ conn'[x] = [conn[x] EXCEPT !.policy_ids = sess[s].of]
  BY <1>2, <1>7
<1>8. CASE At(s, "access") /\ Connected(x) /\ conn'[x] = [conn[x] EXCEPT !.access = sess[s].of]
  BY <1>2, <1>8
<1>9. QED
  BY <1>3, <1>4, <1>5, <1>6, <1>7, <1>8 DEF RowWrite

LEMMA RowOKNext == Typed /\ RowOK /\ [Next]_vars => RowOK'
<1> SUFFICES ASSUME Typed, RowOK, [Next]_vars, NEW x \in Sellers, Connected(x)'
             PROVE  conn'[x].user[1] = conn'[x].user_id
  BY DEF RowOK
<1>1. CASE conn'[x] = conn[x]
  BY <1>1 DEF RowOK, Connected
<1>2. CASE conn'[x] # conn[x]
  <2>1. PICK s \in Sessions : sess[s].who = x /\ RowWrite(s, x)
    BY <1>2, RowChange
  <2>2. At(s, "name") => sess[s].name[1] = sess[s].of
    BY DEF At, Typed, LocalOK
  <2>3. NoName[1] = NoMember
    BY DEF NoName
  <2>4. Connected(x) => conn[x].user[1] = conn[x].user_id
    BY DEF RowOK
  <2>5. QED
    BY <2>1, <2>2, <2>3, <2>4, RowColumns
<1>3. QED
  BY <1>1, <1>2

LEMMA TypeInit == Init => TypeInv
<1>1. Init => RowOK
  BY DEF Init, RowOK, Connected
<1>2. QED
  BY <1>1, TypedInit, StateOKInit DEF TypeInv

LEMMA TypeNext == TypeInv /\ [Next]_vars => TypeInv'
BY TypedNext, StateOKNext, RowOKNext DEF TypeInv

\* The state keeps its types, whatever requests, notices and faults there are.
THEOREM ConnectionTypes == Spec => []TypeOK
<1>1. TypeInv => TypeOK
  BY DEF TypeInv, Typed
<1>2. QED
  BY TypeInit, TypeNext, <1>1, PTL DEF Spec

-----------------------------------------------------------------------------
(* One member per connection.                                              *)

\* What seller x has of member m: in the row, in a request's hands, or to be had for a state
\* that is still good.
InRow(x, m) ==
    /\ Connected(x)
    /\ \/ m = conn[x].access \/ m = conn[x].refresh
       \/ m = conn[x].user_id \/ m = conn[x].user[1]
       \/ m = conn[x].policies \/ m = conn[x].policy_ids

InHand(s, x, m) ==
    /\ sess[s].who = x
    /\ \/ sess[s].of = m
       \/ sess[s].pc = "exchange" /\ state[sess[s].st].by = m

Offered(x, m) == \E t \in States : state[t].owner = x /\ state[t].live /\ state[t].by = m

Has(x, m) == InRow(x, m) \/ Offered(x, m) \/ \E s \in Sessions : InHand(s, x, m)

HandInv == \A x \in Sellers, m, n \in Members : Has(x, m) /\ Has(x, n) => m = n

\* A row only takes up what a request of its seller has in hand.
LEMMA HasRow ==
    ASSUME Typed, [Next]_vars, NEW x \in Sellers, NEW m \in Members, InRow(x, m)'
    PROVE  Has(x, m)
<1>0. m # NoMember /\ NoName[1] = NoMember
  BY ConnectionAssumption DEF NoName
<1>1. CASE conn'[x] = conn[x]
  BY <1>1 DEF InRow, Has, Connected
<1>2. CASE conn'[x] # conn[x]
  <2>1. PICK s \in Sessions : sess[s].who = x /\ RowWrite(s, x)
    BY <1>2, RowChange DEF InRow
  <2>2. At(s, "name") => sess[s].name[1] = sess[s].of
    BY DEF At, Typed, LocalOK
  <2>3. sess[s].of = m \/ InRow(x, m)
    BY <1>0, <2>1, <2>2, RowColumns DEF InRow
  <2>4. QED
    BY <2>1, <2>3 DEF Has, InHand
<1>3. QED
  BY <1>1, <1>2

\* A member is only offered to a seller by signing in.
LEMMA HasOffer ==
    ASSUME Typed, StateOK, [Next]_vars, NEW x \in Sellers, NEW m \in Members, Offered(x, m)',
           \A t \in States : SignIn(t, m) => state[t].owner # x
    PROVE  Offered(x, m)
<1>1. PICK t \in States : state'[t].owner = x /\ state'[t].live /\ state'[t].by = m
  BY DEF Offered
<1>2. m # NoMember /\ state[t] \in StateRec
  BY ConnectionAssumption DEF Typed, TypeOK
<1>3. ASSUME NEW n \in Members, SignIn(t, n), state'[t] = [state[t] EXCEPT !.by = n] PROVE FALSE
  BY <1>1, <1>2, <1>3 DEF StateRec
<1>4. ASSUME NEW y \in Sellers, state'[t] = [owner |-> y, by |-> NoMember, live |-> TRUE] PROVE FALSE
  <2>1. state'[t].by = NoMember
    BY <1>4
  <2>2. QED
    BY <1>1, <1>2, <2>1
<1>5. state[t].owner = x /\ state[t].live /\ state[t].by = m
  BY <1>1, <1>3, <1>4, StateStep
<1>6. QED
  BY <1>5 DEF Offered

\* A request only gets in hand what its seller has.
LEMMA HasHand ==
    ASSUME Typed, StateOK, [Next]_vars, NEW x \in Sellers, NEW m \in Members, NEW u \in Sessions,
           InHand(u, x, m)'
    PROVE  Has(x, m)
<1>0. /\ m # NoMember /\ x # NoSeller
      /\ sess \in [Sessions -> Locals]
      /\ LocalOK(sess[u])
  BY ConnectionAssumption DEF Typed, TypeOK
<1>1. CASE sess'[u] = sess[u]
  <2>1. CASE sess[u].of = m
    BY <1>1, <2>1 DEF Has, InHand
  <2>2. CASE sess[u].of # m
    <3>1. sess[u].who = x /\ sess[u].pc = "exchange" /\ state'[sess[u].st].by = m
      BY <1>1, <2>2 DEF InHand
    <3>2. sess[u].st \in States /\ state[sess[u].st].by # NoMember
      BY <1>0, <3>1 DEF LocalOK, StateOK
    <3>3. state'[sess[u].st].by = state[sess[u].st].by
      BY <3>2, StateStep DEF SignIn
    <3>4. QED
      BY <3>1, <3>3 DEF Has, InHand
  <2>3. QED
    BY <2>1, <2>2
<1>2. CASE sess'[u] # sess[u]
  <2>1. ASSUME NEW y \in Sellers, Sync(u, y) \/ Disconnect(u, y) \/ \E t \in States : Return(u, y, t)
        PROVE  FALSE
    <3>1. CASE Sync(u, y)
      BY <1>0, <3>1 DEF InHand, Sync, Idle
    <3>2. CASE Disconnect(u, y)
      BY <1>0, <3>2 DEF InHand, Disconnect, Idle
    <3>3. ASSUME NEW t \in States, Return(u, y, t) PROVE FALSE
      BY <1>0, <3>3 DEF InHand, Return, Idle
    <3>4. QED
      BY <2>1, <3>1, <3>2, <3>3
  <2>2. ASSUME NEW y \in Sellers, SaveSettings(u, y) \/ Refresh(u, y) PROVE InRow(x, m)
    <3>1. CASE SaveSettings(u, y)
      <4>1. Connected(y) /\ y = x /\ m = conn[x].policies
        BY <1>0, <3>1 DEF InHand, SaveSettings, Idle
      <4>2. QED
        BY <4>1 DEF InRow
    <3>2. CASE Refresh(u, y)
      <4>1. Connected(y) /\ y = x /\ m = conn[x].refresh
        BY <1>0, <3>2 DEF InHand, Refresh, Idle
      <4>2. QED
        BY <4>1 DEF InRow
    <3>3. QED
      BY <2>2, <3>1, <3>2
  <2>3. ASSUME NEW y \in Sellers, NEW o \in Orders, Pull(u, y, o) PROVE FALSE
    BY <1>0, <2>3 DEF InHand, Pull, Idle
  <2>4. CASE Redeem(u)
    <3>0. ~ Done(u) /\ sess[u].st \in States
      BY <1>0, <2>4 DEF InHand, Redeem, At, Done, Idle, LocalOK
    <3>1. /\ sess'[u] = [sess[u] EXCEPT !.pc = "exchange"]
          /\ state[sess[u].st].live /\ state[sess[u].st].owner = sess[u].who
      BY <1>0, <2>4, <3>0 DEF Redeem, Goto
    <3>2. state'[sess[u].st].by = state[sess[u].st].by
      BY <2>4, <3>0 DEF Redeem, Typed, TypeOK, StateRec
    <3>3. sess'[u].of = sess[u].of /\ sess'[u].who = sess[u].who /\ sess'[u].st = sess[u].st
      BY <1>0, <3>1 DEF Locals
    <3>4. QED
      BY <3>0, <3>1, <3>2, <3>3 DEF InHand, Has, Offered
  <2>5. CASE Exchange(u)
    <3>1. sess[u].pc = "exchange" /\ sess'[u].who = sess[u].who /\ sess'[u].of = state[sess[u].st].by
          /\ sess'[u].pc = "store"
      BY <1>0, <2>5 DEF InHand, Exchange, At, Done, Idle, Locals
    <3>2. QED
      BY <3>1 DEF InHand, Has
  <2>6. CASE Store(u) \/ SavePolicies(u) \/ Refreshed(u)
    <3>1. sess'[u].who = sess[u].who /\ sess'[u].of = sess[u].of /\ sess'[u].pc # "exchange"
      BY <1>0, <2>6 DEF InHand, Store, SavePolicies, Refreshed, Goto, Done, Idle, Locals
    <3>2. QED
      BY <3>1 DEF InHand, Has
  <2>7. CASE Flag(u) \/ Name(u)
    BY <1>0, <2>7 DEF InHand, Flag, Name, Locals
  <2>8. CASE Identity(u)
    <3>1. /\ sess'[u].who = sess[u].who /\ sess'[u].pc # "exchange"
          /\ \/ sess'[u].of = sess[u].of
             \/ Connected(sess[u].who) /\ sess'[u].of = conn[sess[u].who].access
      BY <1>0, <2>8 DEF Identity, Goto, Answers, Locals
    <3>2. QED
      BY <3>1 DEF InHand, InRow, Has
  <2>9. CASE Policies(u)
    <3>1. /\ sess'[u].who = sess[u].who /\ sess'[u].pc # "exchange"
          /\ Connected(sess[u].who) /\ sess'[u].of = conn[sess[u].who].access
      BY <1>0, <2>9 DEF InHand, Policies, Answers, Done, Idle, Locals
    <3>2. QED
      BY <3>1 DEF InHand, InRow, Has
  <2>10. CASE Pick(u)
    <3> DEFINE ids == IF Connected(sess[u].who) THEN conn[sess[u].who].policy_ids ELSE NoMember
    <3>1. /\ sess'[u].who = sess[u].who /\ sess'[u].pc # "exchange"
          /\ sess'[u].of = sess[u].of \/ sess'[u].of = ids
      BY <1>0, <2>10 DEF Pick, Locals
    <3>2. QED
      BY <1>0, <3>1 DEF InHand, InRow, Has
  <2>11. CASE Choose(u) \/ Unflag(u) \/ SaveAccess(u) \/ InsertOrder(u) \/ Die(u)
    BY <1>0, <2>11 DEF InHand, Choose, Unflag, SaveAccess, InsertOrder, Die, Done, Idle
  <2>12. CASE NoticeSteps(u)
    <3>1. sess[u].who = NoSeller
      BY <1>0, <2>12 DEF NoticeSteps, Seen, Forget, Unmark, Clear, ClearFails, Log, Answer, At, LocalOK, NoticePcs
    <3>2. sess'[u].who = NoSeller
      BY <1>0, <2>12, <3>1 DEF NoticeSteps, Seen, Forget, Unmark, Clear, ClearFails, Log, Answer, Goto, Done, Idle,
            Locals
    <3>3. QED
      BY <1>0, <3>2 DEF InHand
  <2>13. ASSUME NEW n \in Members, Deliver(u, n) PROVE FALSE
    BY <1>0, <2>13 DEF InHand, Deliver, Idle
  <2>14. CASE Requests(u)
    <3>1. ASSUME NEW y \in Sellers, Begin(u, y) PROVE FALSE
      BY <1>2, <3>1 DEF Begin
    <3>2. QED
      BY <2>1, <2>2, <2>3, <2>14, <3>1 DEF Requests, Has
  <2>15. CASE SellerSteps(u)
    BY <2>4, <2>5, <2>6, <2>7, <2>8, <2>9, <2>10, <2>11, <2>15 DEF SellerSteps
  <2>16. QED
    BY <1>2, <2>11, <2>12, <2>13, <2>14, <2>15, OwnStep
<1>3. QED
  BY <1>1, <1>2

LEMMA HandInit == Init => HandInv
BY ConnectionAssumption DEF Init, HandInv, Has, InRow, InHand, Offered, Connected, Idle

\* Only signing in brings a member a seller has nothing of, and it waits until nothing is left.
LEMMA HandNext == OneAtATime /\ TypeInv /\ HandInv /\ [Next]_vars => HandInv'
<1> SUFFICES ASSUME OneAtATime, TypeInv, HandInv, [Next]_vars,
                    NEW x \in Sellers, NEW m \in Members, NEW n \in Members, Has(x, m)', Has(x, n)'
             PROVE  m = n
  BY DEF HandInv
<1> USE DEF TypeInv
<1>1. CASE \A t \in States, k \in Members : SignIn(t, k) => state[t].owner # x
  <2>1. ASSUME NEW k \in Members, Has(x, k)' PROVE Has(x, k)
    <3>1. InRow(x, k)' \/ Offered(x, k)' \/ \E s \in Sessions : InHand(s, x, k)'
      BY <2>1 DEF Has
    <3>2. CASE InRow(x, k)'
      BY <3>2, HasRow
    <3>3. CASE Offered(x, k)'
      BY <1>1, <3>3, HasOffer DEF Has
    <3>4. CASE \E s \in Sessions : InHand(s, x, k)'
      BY <3>4, HasHand
    <3>5. QED
      BY <3>1, <3>2, <3>3, <3>4
  <2>2. QED
    BY <2>1 DEF HandInv
<1>2. ASSUME NEW t \in States, NEW k \in Members, SignIn(t, k), state[t].owner = x
      PROVE  m = n
  <2>1. ~ Connected(x) /\ \A s \in Sessions : sess[s].who # x
    BY <1>2 DEF SignIn
  <2>2. conn' = conn /\ sess' = sess
    BY <1>2 DEF SignIn
  <2>3. ASSUME NEW j \in Members, Has(x, j)' PROVE j = k
    <3>1. Offered(x, j)'
      BY <2>1, <2>2, <2>3 DEF Has, InRow, InHand, Connected
    <3>2. PICK u \in States : state'[u].owner = x /\ state'[u].live /\ state'[u].by = j
      BY <3>1 DEF Offered
    <3>3. CASE u = t
      BY <1>2, <3>2, <3>3 DEF SignIn, Typed, TypeOK, StateRec
    <3>4. CASE u # t
      BY <1>2, <3>2, <3>4, ConnectionAssumption DEF SignIn, Typed, TypeOK, StateRec
    <3>5. QED
      BY <3>3, <3>4
  <2>4. QED
    BY <2>3
<1>3. QED
  BY <1>1, <1>2

\* Whatever a connection holds is of one eBay account, where a seller signs in at eBay only
\* while not connected and with nothing of theirs under way (OneAtATime).
THEOREM ConnectionOneMember == OneAtATime /\ Spec => []OneMember
<1>1. TypeInv /\ HandInv => OneMember
  <2> SUFFICES ASSUME TypeInv, HandInv, NEW x \in Sellers, Connected(x)
               PROVE  /\ conn[x].refresh = conn[x].access
                      /\ {conn[x].user_id, conn[x].user[1], conn[x].policies, conn[x].policy_ids}
                             \subseteq {conn[x].access, NoMember}
    BY DEF OneMember
  <2>1. /\ conn[x].access \in Members /\ conn[x].refresh \in Members
        /\ conn[x].user_id \in Members \cup {NoMember}
        /\ conn[x].policies \in Members \cup {NoMember} /\ conn[x].policy_ids \in Members \cup {NoMember}
    BY RowType DEF TypeInv, Typed, TypeOK, Connected
  <2>2. conn[x].user[1] = conn[x].user_id
    BY DEF TypeInv, RowOK
  <2>3. ASSUME NEW m \in Members, InRow(x, m) PROVE m = conn[x].access
    BY <2>1, <2>3 DEF HandInv, Has, InRow
  <2>4. QED
    BY <2>1, <2>2, <2>3 DEF InRow
<1>2. OneAtATime => OneAtATime'
  OBVIOUS
<1>3. QED
  BY TypeInit, TypeNext, HandInit, HandNext, <1>1, <1>2, PTL DEF Spec

-----------------------------------------------------------------------------
(* What a step does about members who left.                                *)

\* A member who left changes no more.
LEMMA MemberStep ==
    ASSUME Typed, [Next]_vars, NEW m \in Members, ~member[m].open
    PROVE  member'[m] = member[m] /\ NameOf(m)' = NameOf(m)
<1> USE DEF Typed, TypeOK
<1>1. member'[m] = member[m]
  <2>1. ASSUME NEW n \in Members, Rename(n) \/ Close(n) PROVE member'[m] = member[m]
    BY <2>1 DEF Rename, Close
  <2>2. ASSUME NEW s \in Sessions, Requests(s) PROVE member' = member
    BY <2>2 DEF Requests, Return, Begin, Sync, SaveSettings, Disconnect, Refresh, Pull
  <2>3. ASSUME NEW s \in Sessions, SellerSteps(s) PROVE member' = member
    BY <2>3 DEF SellerSteps, Redeem, Exchange, Store, Flag, Identity, Name, Policies, SavePolicies, Pick,
              Choose, Unflag, Refreshed, SaveAccess, InsertOrder
  <2>4. ASSUME NEW s \in Sessions, NoticeSteps(s) \/ Die(s) PROVE member' = member
    BY <2>4 DEF NoticeSteps, Seen, Forget, Unmark, Clear, ClearFails, Log, Answer, Die
  <2>5. ASSUME NEW n \in Members, \/ \E t \in States : SignIn(t, n)
                                  \/ \E s \in Sessions : Deliver(s, n)
        PROVE  member' = member
    BY <2>5 DEF SignIn, Deliver
  <2>6. CASE UNCHANGED vars
    BY <2>6 DEF vars
  <2>7. QED
    BY <2>1, <2>2, <2>3, <2>4, <2>5, <2>6 DEF Next
<1>2. QED
  BY <1>1 DEF NameOf

\* The receipt is written, and a buyer's name, by these.
LEMMA LogChange ==
    ASSUME [Next]_vars, log' # log \/ buyer' # buyer
    PROVE  \E s \in Sessions : \/ Log(s) /\ buyer' = buyer
                               \/ (InsertOrder(s) \/ Clear(s)) /\ log' = log
<1>1. ASSUME NEW s \in Sessions, Requests(s) PROVE FALSE
  BY <1>1 DEF Requests, Return, Begin, Sync, SaveSettings, Disconnect, Refresh, Pull
<1>2. ASSUME NEW s \in Sessions, SellerSteps(s) PROVE InsertOrder(s) /\ log' = log
  BY <1>2 DEF SellerSteps, Redeem, Exchange, Store, Flag, Identity, Name, Policies, SavePolicies, Pick,
              Choose, Unflag, Refreshed, SaveAccess, InsertOrder
<1>3. ASSUME NEW s \in Sessions, NoticeSteps(s) \/ Die(s)
      PROVE  \/ Log(s) /\ buyer' = buyer
             \/ Clear(s) /\ log' = log
  BY <1>3 DEF NoticeSteps, Seen, Forget, Unmark, Clear, ClearFails, Log, Answer, Die
<1>4. ASSUME NEW m \in Members,
             \/ Rename(m) \/ Close(m)
             \/ \E t \in States : SignIn(t, m)
             \/ \E s \in Sessions : Deliver(s, m)
      PROVE  FALSE
  BY <1>4 DEF Rename, Close, SignIn, Deliver
<1>5. QED
  BY <1>1, <1>2, <1>3, <1>4 DEF Next, vars

\* A notice under way is about the same member, or has just come in.
LEMMA NoticeStep ==
    ASSUME Typed, [Next]_vars, NEW u \in Sessions, sess'[u].pc \in NoticePcs
    PROVE  \/ /\ sess[u].pc \in NoticePcs
              /\ sess'[u].of = sess[u].of /\ sess'[u].name = sess[u].name
              /\ \/ sess'[u].pc = sess[u].pc
                 \/ Seen(u) /\ sess'[u].pc = "forget"
                 \/ Seen(u) /\ sess[u].of \in log /\ sess'[u].pc = "answer"
                 \/ Forget(u) /\ sess'[u].pc = "unmark"
                 \/ (Clear(u) \/ ClearFails(u)) /\ sess'[u].pc = "log"
                 \/ Log(u) /\ sess'[u].pc = "answer"
           \/ \E m \in Members : /\ Deliver(u, m) /\ sess'[u].of = m
                                 /\ sess'[u].name = NameOf(m) /\ sess'[u].pc = "seen"
<1>0. sess \in [Sessions -> Locals] /\ LocalOK(sess[u])
  BY DEF Typed, TypeOK
<1>1. CASE sess'[u] = sess[u]
  BY <1>1
<1>2. ASSUME NEW m \in Members, Deliver(u, m)
      PROVE  sess'[u].of = m /\ sess'[u].name = NameOf(m) /\ sess'[u].pc = "seen"
  BY <1>0, <1>2 DEF Deliver, Idle
<1>3. CASE Seen(u)
  BY <1>0, <1>3 DEF Seen, At, Goto, NoticePcs, Locals
<1>4. CASE Forget(u)
  BY <1>0, <1>4 DEF Forget, At, NoticePcs, Locals
<1>5. CASE Unmark(u)
  BY <1>0, <1>5 DEF Unmark, At, NoticePcs, Locals
<1>6. CASE Clear(u) \/ ClearFails(u)
  BY <1>0, <1>6 DEF Clear, ClearFails, Goto, At, NoticePcs, Locals
<1>7. CASE Log(u)
  BY <1>0, <1>7 DEF Log, Goto, At, NoticePcs, Locals
<1>8. CASE Answer(u) \/ Die(u)
  BY <1>0, <1>8 DEF Answer, Die, Done, Idle, NoticePcs
<1>9. CASE SellerSteps(u)
  <2>1. CASE Redeem(u) \/ Exchange(u) \/ Store(u) \/ Flag(u)
    BY <1>0, <2>1 DEF Redeem, Exchange, Store, Flag, Goto, Done, Idle, NoticePcs, Locals
  <2>2. CASE Identity(u) \/ Name(u) \/ Policies(u)
    BY <1>0, <2>2 DEF Identity, Name, Policies, Goto, Done, Idle, NoticePcs, Locals
  <2>3. CASE SavePolicies(u) \/ Pick(u) \/ Choose(u)
    BY <1>0, <2>3 DEF SavePolicies, Pick, Choose, Goto, Done, Idle, NoticePcs, Locals
  <2>4. CASE Unflag(u) \/ Refreshed(u) \/ SaveAccess(u) \/ InsertOrder(u)
    BY <1>0, <2>4 DEF Unflag, Refreshed, SaveAccess, InsertOrder, Goto, Done, Idle, NoticePcs, Locals
  <2>5. QED
    BY <1>9, <2>1, <2>2, <2>3, <2>4 DEF SellerSteps
<1>10. CASE Requests(u) /\ sess'[u] # sess[u]
  <2>1. ASSUME NEW x \in Sellers, NEW t \in States, Return(u, x, t) PROVE FALSE
    BY <1>0, <2>1 DEF Return, Idle, NoticePcs
  <2>2. ASSUME NEW x \in Sellers, NEW o \in Orders, Pull(u, x, o) PROVE FALSE
    BY <1>0, <2>2 DEF Pull, Idle, NoticePcs
  <2>3. ASSUME NEW x \in Sellers, Begin(u, x) PROVE FALSE
    BY <1>10, <2>3 DEF Begin
  <2>4. ASSUME NEW x \in Sellers, Sync(u, x) \/ SaveSettings(u, x) PROVE FALSE
    BY <1>0, <2>4 DEF Sync, SaveSettings, Idle, NoticePcs
  <2>5. ASSUME NEW x \in Sellers, Disconnect(u, x) \/ Refresh(u, x) PROVE FALSE
    BY <1>0, <2>5 DEF Disconnect, Refresh, Idle, NoticePcs
  <2>6. QED
    BY <1>10, <2>1, <2>2, <2>3, <2>4, <2>5 DEF Requests
<1>11. QED
  BY <1>1, <1>2, <1>3, <1>4, <1>5, <1>6, <1>7, <1>8, <1>9, <1>10, OwnStep DEF NoticeSteps

\* The counters of the bounds only grow.
LEMMA AskedChange ==
    ASSUME [Next]_vars
    PROVE  asked' = asked \/ \E k \in Kinds : asked' = [asked EXCEPT ![k] = @ + 1]
<1>1. ASSUME NEW s \in Sessions, NEW k \in Kinds, Ask(s, k) \/ Charge(k)
      PROVE  \E j \in Kinds : asked' = [asked EXCEPT ![j] = @ + 1]
  BY <1>1 DEF Ask, Charge
<1>2. ASSUME NEW k \in Kinds, Charge(k) PROVE \E j \in Kinds : asked' = [asked EXCEPT ![j] = @ + 1]
  BY <1>2 DEF Charge
<1>3. ASSUME NEW s \in Sessions, Requests(s) PROVE \E k \in Kinds : asked' = [asked EXCEPT ![k] = @ + 1]
  BY <1>1, <1>3 DEF Requests, Return, Begin, Sync, SaveSettings, Disconnect, Refresh, Pull, Kinds
<1>4. ASSUME NEW s \in Sessions, SellerSteps(s)
      PROVE  asked' = asked \/ \E k \in Kinds : asked' = [asked EXCEPT ![k] = @ + 1]
  BY <1>1, <1>4 DEF SellerSteps, Redeem, Exchange, Store, Flag, Identity, Name, Policies, SavePolicies, Pick,
              Choose, Unflag, Refreshed, SaveAccess, InsertOrder, Kinds
<1>5. ASSUME NEW s \in Sessions, NoticeSteps(s) \/ Die(s)
      PROVE  asked' = asked \/ \E k \in Kinds : asked' = [asked EXCEPT ![k] = @ + 1]
  BY <1>1, <1>5 DEF NoticeSteps, Seen, Forget, Unmark, Clear, ClearFails, Log, Answer, Die, Kinds
<1>6. ASSUME NEW m \in Members,
             \/ Rename(m) \/ Close(m)
             \/ \E t \in States : SignIn(t, m)
             \/ \E s \in Sessions : Deliver(s, m)
      PROVE  asked' = asked \/ \E k \in Kinds : asked' = [asked EXCEPT ![k] = @ + 1]
  BY <1>2, <1>6 DEF Rename, Close, SignIn, Deliver, Kinds
<1>7. QED
  BY <1>3, <1>4, <1>5, <1>6 DEF Next, vars

-----------------------------------------------------------------------------
(* Nothing left of a member who is gone.                                   *)

\* The notice about m has been let in, or has its receipt.
Delivered(m) == m \in log \/ \E s \in Sessions : sess[s].pc \in NoticePcs /\ sess[s].of = m

\* The connections have been swept for m.
Swept(m) == m \in log \/ \E s \in Sessions : sess[s].pc \in {"unmark", "log"} /\ sess[s].of = m

\* The pulled orders have been swept for m, or that statement failed.
Cleared(m) == m \in log \/ \E s \in Sessions : sess[s].pc = "log" /\ sess[s].of = m

\* A request about to write something of member m.
Writes(s, m) ==
    \/ sess[s].pc \in {"store", "name", "access"} /\ sess[s].of = m
    \/ sess[s].pc = "insert" /\ sess[s].name[1] = m

NoticeInv ==
    \A s \in Sessions : /\ sess[s].pc \in NoticePcs => sess[s].name = NameOf(sess[s].of)
                        /\ sess[s].pc = "answer" => sess[s].of \in log

ClosedInv == \A m \in Members : Delivered(m) => ~member[m].open /\ \A s \in Sessions : ~Writes(s, m)

SweptInv ==
    \A m \in Members, x \in Sellers : Swept(m) /\ Connected(x) =>
        /\ m # conn[x].user_id /\ m # conn[x].user[1]
        /\ m = conn[x].access \/ m = conn[x].refresh => conn[x].user = NoName

ClearedInv == asked["clear"] = 0 => \A m \in Members, o \in Orders : Cleared(m) => buyer[o] # NameOf(m)

GoneInv == NoticeInv /\ ClosedInv /\ SweptInv /\ ClearedInv

\* A request only comes to write of a member whose account is open at that moment.
LEMMA WriteStep ==
    ASSUME Typed, StateOK, [Next]_vars, NEW u \in Sessions, NEW m \in Members, Writes(u, m)'
    PROVE  Writes(u, m) \/ member[m].open
<1>0. sess \in [Sessions -> Locals] /\ LocalOK(sess[u])
  BY DEF Typed, TypeOK
<1>1. CASE sess'[u] = sess[u]
  BY <1>1 DEF Writes
<1>2. CASE sess'[u] # sess[u]
  <2>1. CASE Requests(u)
    <3>1. ASSUME NEW x \in Sellers, NEW t \in States, Return(u, x, t) PROVE FALSE
      BY <1>0, <3>1 DEF Return, Idle, Writes
    <3>2. ASSUME NEW x \in Sellers, NEW o \in Orders, Pull(u, x, o) PROVE member[m].open
      <4>1. BuyerOf[o] \in Members /\ sess'[u].pc = "insert" /\ sess'[u].name = NameOf(BuyerOf[o])
        BY <1>0, <3>2, ConnectionAssumption DEF Pull, Idle
      <4>2. BuyerOf[o] = m
        BY <4>1, NameType DEF Writes
      <4>3. QED
        BY <3>2, <4>2 DEF Pull
    <3>3. ASSUME NEW x \in Sellers, Begin(u, x) PROVE FALSE
      BY <1>2, <3>3 DEF Begin
    <3>4. ASSUME NEW x \in Sellers, Sync(u, x) \/ SaveSettings(u, x) PROVE FALSE
      BY <1>0, <3>4 DEF Sync, SaveSettings, Idle, Writes
    <3>5. ASSUME NEW x \in Sellers, Disconnect(u, x) \/ Refresh(u, x) PROVE FALSE
      BY <1>0, <3>5 DEF Disconnect, Refresh, Idle, Writes
    <3>6. QED
      BY <2>1, <3>1, <3>2, <3>3, <3>4, <3>5 DEF Requests
  <2>2. CASE Exchange(u)
    BY <1>0, <2>2 DEF Exchange, Done, Idle, Writes, Locals
  <2>3. CASE Identity(u)
    BY <1>0, <2>3 DEF Identity, Answers, Goto, Writes, Locals
  <2>4. CASE Refreshed(u)
    BY <1>0, <2>4 DEF Refreshed, At, Goto, Done, Idle, Writes, Locals
  <2>5. CASE SellerSteps(u) /\ ~Exchange(u) /\ ~Identity(u) /\ ~Refreshed(u)
    BY <1>0, <2>5 DEF SellerSteps, Redeem, Store, Flag, Name, Policies, SavePolicies, Pick,
              Choose, Unflag, SaveAccess, InsertOrder, Goto, Done, Idle, Writes, Locals
  <2>6. CASE NoticeSteps(u) \/ Die(u) \/ \E n \in Members : Deliver(u, n)
    <3>1. CASE sess'[u].pc \in NoticePcs
      BY <3>1 DEF Writes, NoticePcs
    <3>2. CASE sess'[u].pc \notin NoticePcs
      <4>1. CASE Answer(u) \/ Die(u)
        BY <1>0, <4>1 DEF Answer, Die, Done, Idle, Writes
      <4>2. CASE Seen(u) \/ Forget(u) \/ Unmark(u)
        BY <1>0, <3>2, <4>2 DEF Seen, Forget, Unmark, Goto, At, NoticePcs, Locals
      <4>3. CASE Clear(u) \/ ClearFails(u) \/ Log(u)
        BY <1>0, <3>2, <4>3 DEF Clear, ClearFails, Log, Goto, NoticePcs, Locals
      <4>4. ASSUME NEW n \in Members, Deliver(u, n) PROVE FALSE
        BY <1>0, <3>2, <4>4 DEF Deliver, Idle, NoticePcs
      <4>5. QED
        BY <2>6, <4>1, <4>2, <4>3, <4>4 DEF NoticeSteps
    <3>3. QED
      BY <3>1, <3>2
  <2>7. QED
    BY <1>2, <2>1, <2>2, <2>3, <2>4, <2>5, <2>6, OwnStep
<1>3. QED
  BY <1>1, <1>2

\* A notice is let in when no request writes of its member any more.
LEMMA DeliverStep ==
    ASSUME Typed, NEW s \in Sessions, NEW m \in Members, Deliver(s, m)
    PROVE  ~member[m].open /\ \A r \in Sessions : ~Writes(r, m)
<1> SUFFICES ASSUME NEW r \in Sessions, Writes(r, m) PROVE FALSE
  BY DEF Deliver
<1>1. sess[r].who # NoSeller /\ sess[r].pc # "idle"
  BY ConnectionAssumption DEF Typed, LocalOK, SellerPcs, Writes
<1>2. QED
  BY <1>1 DEF Deliver, Handles, Writes

\* What is known of a member's notice before a step, from what is known after it.
LEMMA StageStep ==
    ASSUME Typed, NoticeInv, [Next]_vars, NEW m \in Members
    PROVE  /\ Delivered(m)' => Delivered(m) \/ \E s \in Sessions : Deliver(s, m)
           /\ Swept(m)' => Swept(m) \/ \E s \in Sessions : Forget(s) /\ sess[s].of = m
           /\ Cleared(m)' => Cleared(m) \/ \E s \in Sessions : (Clear(s) \/ ClearFails(s)) /\ sess[s].of = m
<1>1. ASSUME m \in log' PROVE m \in log \/ \E s \in Sessions : sess[s].pc = "log" /\ sess[s].of = m
  BY <1>1, LogChange DEF Log, At
<1>2. ASSUME NEW s \in Sessions, sess'[s].pc \in NoticePcs, sess'[s].of = m
      PROVE  /\ Delivered(m) \/ Deliver(s, m)
             /\ sess'[s].pc \in {"unmark", "log"} => Swept(m) \/ (Forget(s) /\ sess[s].of = m)
             /\ sess'[s].pc = "log" => Cleared(m) \/ ((Clear(s) \/ ClearFails(s)) /\ sess[s].of = m)
  <2>1. Clear(s) \/ ClearFails(s) => sess[s].pc = "unmark"
    BY DEF Clear, ClearFails, At
  <2>2. QED
    BY <1>2, <2>1, NoticeStep DEF Delivered, Swept, Cleared, NoticePcs
<1>3. QED
  BY <1>1, <1>2 DEF Delivered, Swept, Cleared, NoticePcs

LEMMA GoneInit == Init => GoneInv
BY DEF Init, GoneInv, NoticeInv, ClosedInv, SweptInv, ClearedInv, Delivered, Swept, Cleared, Idle, NoticePcs

LEMMA NoticeNext == TypeInv /\ NoticeInv /\ ClosedInv /\ [Next]_vars => NoticeInv'
<1> SUFFICES ASSUME TypeInv, NoticeInv, ClosedInv, [Next]_vars, NEW s \in Sessions, sess'[s].pc \in NoticePcs
             PROVE  /\ (sess[s].name = NameOf(sess[s].of))'
                    /\ sess'[s].pc = "answer" => sess'[s].of \in log'
  BY DEF NoticeInv, NoticePcs
<1> USE DEF TypeInv
<1>1. ASSUME NEW m \in Members, Deliver(s, m), sess'[s].of = m, sess'[s].name = NameOf(m), sess'[s].pc = "seen"
      PROVE  /\ (sess[s].name = NameOf(sess[s].of))'
             /\ sess'[s].pc = "answer" => sess'[s].of \in log'
  BY <1>1, MemberStep DEF Deliver, NameOf
<1>2. CASE sess[s].pc \in NoticePcs /\ sess'[s].of = sess[s].of /\ sess'[s].name = sess[s].name
  <2>1. sess[s].of \in Members
    BY <1>2 DEF Typed, LocalOK
  <2>2. ~member[sess[s].of].open
    BY <1>2, <2>1 DEF ClosedInv, Delivered
  <2>3. (sess[s].name = NameOf(sess[s].of))'
    BY <1>2, <2>1, <2>2, MemberStep DEF NoticeInv, NameOf
  <2>4. log \subseteq log'
    BY LogChange DEF Log
  <2>5. sess'[s].pc = "answer" => sess'[s].of \in log'
    BY <1>2, <2>4, NoticeStep DEF NoticeInv, Log
  <2>6. QED
    BY <2>3, <2>5
<1>3. QED
  BY <1>1, <1>2, NoticeStep

LEMMA ClosedNext == TypeInv /\ NoticeInv /\ ClosedInv /\ [Next]_vars => ClosedInv'
<1> SUFFICES ASSUME TypeInv, NoticeInv, ClosedInv, [Next]_vars, NEW m \in Members, Delivered(m)'
             PROVE  ~member'[m].open /\ \A s \in Sessions : ~Writes(s, m)'
  BY DEF ClosedInv
<1> USE DEF TypeInv
<1>1. ~member[m].open /\ \A s \in Sessions : ~Writes(s, m)
  BY StageStep, DeliverStep DEF ClosedInv
<1>2. QED
  BY <1>1, MemberStep, WriteStep

LEMMA SweptNext == TypeInv /\ HandInv /\ NoticeInv /\ ClosedInv /\ SweptInv /\ [Next]_vars => SweptInv'
<1> SUFFICES ASSUME TypeInv, HandInv, NoticeInv, ClosedInv, SweptInv, [Next]_vars,
                    NEW m \in Members, NEW x \in Sellers, Swept(m)', Connected(x)'
             PROVE  /\ m # conn'[x].user_id /\ m # conn'[x].user[1]
                    /\ m = conn'[x].access \/ m = conn'[x].refresh => conn'[x].user = NoName
  BY DEF SweptInv
<1> USE DEF TypeInv
<1>0. m # NoMember /\ NoName[1] = NoMember
  BY ConnectionAssumption DEF NoName
<1>1. CASE Swept(m)
  <2>1. \A s \in Sessions : ~Writes(s, m)
    BY <1>1 DEF Swept, Delivered, ClosedInv, NoticePcs
  <2>2. CASE conn'[x] = conn[x]
    BY <1>1, <2>2 DEF SweptInv, Connected
  <2>3. CASE conn'[x] # conn[x]
    <3>1. PICK s \in Sessions : sess[s].who = x /\ RowWrite(s, x)
      BY <2>3, RowChange
    <3>2. At(s, "store") \/ At(s, "name") \/ At(s, "access") => sess[s].of \in Members /\ sess[s].of # m
      BY <2>1 DEF Writes, At, Typed, LocalOK
    <3>3. At(s, "name") => sess[s].name[1] = sess[s].of
      BY DEF At, Typed, LocalOK
    <3>4. m # conn'[x].user_id /\ m # conn'[x].user[1]
      BY <1>0, <1>1, <3>1, <3>2, <3>3, RowColumns DEF SweptInv
    <3>5. ASSUME m = conn'[x].access \/ m = conn'[x].refresh PROVE conn'[x].user = NoName
      <4>1. Connected(x) /\ (m = conn[x].access \/ m = conn[x].refresh)
        BY <3>1, <3>2, <3>5, RowColumns
      <4>2. conn[x].user = NoName
        BY <1>1, <4>1 DEF SweptInv
      <4>3. Has(x, m)
        BY <4>1 DEF Has, InRow
      <4>4. ~ At(s, "name")
        BY <3>1, <3>2, <4>3 DEF Has, InHand, HandInv
      <4>5. QED
        BY <3>1, <4>2, <4>4, RowColumns
    <3>6. QED
      BY <3>4, <3>5
  <2>4. QED
    BY <2>2, <2>3
<1>2. ASSUME NEW s \in Sessions, Forget(s), sess[s].of = m
      PROVE  /\ m # conn'[x].user_id /\ m # conn'[x].user[1]
             /\ m = conn'[x].access \/ m = conn'[x].refresh => conn'[x].user = NoName
  <2>1. conn'[x] = conn[x] /\ Connected(x) /\ conn[x].user_id # m
    BY <1>2 DEF Forget, Connected
  <2>2. conn[x].user[1] # m
    BY <2>1 DEF RowOK
  <2>3. ASSUME m = conn[x].access \/ m = conn[x].refresh, conn[x].user # NoName PROVE FALSE
    <3>1. conn[x].user[1] \in Members
      BY <2>1, <2>3, RowType DEF Typed, TypeOK, Names, Connected
    <3>2. Has(x, m) /\ Has(x, conn[x].user[1])
      BY <2>1, <2>3 DEF Has, InRow
    <3>3. QED
      BY <2>2, <3>1, <3>2 DEF HandInv
  <2>4. QED
    BY <2>1, <2>2, <2>3
<1>3. QED
  BY <1>1, <1>2, StageStep

LEMMA ClearedNext == TypeInv /\ NoticeInv /\ ClosedInv /\ ClearedInv /\ [Next]_vars => ClearedInv'
<1> SUFFICES ASSUME TypeInv, NoticeInv, ClosedInv, ClearedInv, [Next]_vars, asked'["clear"] = 0,
                    NEW m \in Members, NEW o \in Orders, Cleared(m)'
             PROVE  buyer'[o] # NameOf(m)'
  BY DEF ClearedInv
<1> USE DEF TypeInv
<1>1. ~member[m].open /\ \A s \in Sessions : ~Writes(s, m)
  <2>1. ASSUME NEW s \in Sessions, Clear(s) \/ ClearFails(s), sess[s].of = m PROVE Delivered(m)
    BY <2>1 DEF Clear, ClearFails, At, Delivered, NoticePcs
  <2>2. Cleared(m) => Delivered(m)
    BY DEF Cleared, Delivered, NoticePcs
  <2>3. QED
    BY <2>1, <2>2, StageStep DEF ClosedInv
<1>2. NameOf(m)' = NameOf(m) /\ NameOf(m)[1] = m /\ m # NoMember /\ NoName[1] = NoMember
  BY <1>1, MemberStep, NameType, ConnectionAssumption DEF NoName
<1>3. asked["clear"] = 0
  <2>1. asked \in [Kinds -> Nat] /\ "clear" \in Kinds
    BY DEF Typed, TypeOK, Kinds
  <2>2. asked' = asked \/ \E k \in Kinds : asked' = [asked EXCEPT ![k] = @ + 1]
    BY AskedChange
  <2>3. QED
    BY <2>1, <2>2
<1>4. CASE Cleared(m)
  <2>1. buyer[o] # NameOf(m)
    BY <1>3, <1>4 DEF ClearedInv
  <2>2. ASSUME NEW s \in Sessions, InsertOrder(s) PROVE buyer'[o] # NameOf(m)
    BY <1>1, <1>2, <2>1, <2>2 DEF InsertOrder, At, Writes, Typed, TypeOK
  <2>3. ASSUME NEW s \in Sessions, Clear(s) PROVE buyer'[o] # NameOf(m)
    BY <1>2, <2>1, <2>3 DEF Clear
  <2>4. QED
    BY <1>2, <2>1, <2>2, <2>3, LogChange
<1>5. ASSUME NEW s \in Sessions, Clear(s), sess[s].of = m PROVE buyer'[o] # NameOf(m)
  <2>1. sess[s].name = NameOf(m)
    BY <1>5 DEF NoticeInv, Clear, At, NoticePcs
  <2>2. QED
    BY <1>2, <1>5, <2>1 DEF Clear
<1>6. ASSUME NEW s \in Sessions, ClearFails(s) PROVE FALSE
  BY <1>3, <1>6 DEF ClearFails, Charge, Typed, TypeOK, Kinds
<1>7. QED
  BY <1>2, <1>4, <1>5, <1>6, StageStep

\* Once its receipt is written, the program holds nothing it can tell to be of the member who
\* left, under the same provision about signing in.
THEOREM ConnectionForgotten == OneAtATime /\ Spec => []Forgotten
<1> DEFINE Inv == TypeInv /\ HandInv /\ GoneInv
<1>1. Init => Inv
  BY TypeInit, HandInit, GoneInit
<1>2. OneAtATime /\ Inv /\ [Next]_vars => Inv'
  BY TypeNext, HandNext, NoticeNext, ClosedNext, SweptNext, ClearedNext DEF GoneInv
<1>3. Inv => Forgotten
  <2> SUFFICES ASSUME Inv, NEW m \in log PROVE
        /\ \A x \in Sellers : Connected(x) =>
              /\ m \notin {conn[x].user_id, conn[x].user[1]}
              /\ m \in {conn[x].access, conn[x].refresh} => conn[x].user = NoName
        /\ asked["clear"] = 0 => \A o \in Orders : buyer[o] # NameOf(m)
    BY DEF Forgotten
  <2>1. m \in Members /\ Swept(m) /\ Cleared(m)
    BY DEF TypeInv, Typed, TypeOK, Swept, Cleared
  <2>2. QED
    BY <2>1 DEF GoneInv, SweptInv, ClearedInv
<1>4. OneAtATime => OneAtATime'
  OBVIOUS
<1> HIDE DEF Inv
<1>5. QED
  BY <1>1, <1>2, <1>3, <1>4, PTL DEF Spec

-----------------------------------------------------------------------------
(* The keyset and what is searched with it (LiveListings).                  *)

\* Keys that are those of the keyset in use, or known to be of an earlier one.
Current(t, config) == t.late \/ t.keys = config

IsToken(t) == t = [keys |-> t.keys, late |-> t.late] /\ t.late \in BOOLEAN

\* A search holds the number of the keyset it began with; while that is the last one read,
\* its token is current.
CallGood(c, n, config) ==
    /\ c = [at |-> c.at, q |-> c.q, token |-> c.token, loads |-> c.loads, host |-> c.host]
    /\ c.at \in {"idle", "token", "search"}
    /\ IsToken(c.token)
    /\ c.loads \in Nat /\ c.loads <= n
    /\ c.at = "token" => ~c.token.late
    /\ c.at # "idle" /\ c.loads = n => Current(c.token, config)

\* The answers kept are current, and one for each search text.
OneEach(entries) == \A i, j \in DOMAIN entries : entries[i].q = entries[j].q => i = j

KeptAnswers(entries, config) ==
    /\ \E S : entries \in Seq(S)
    /\ \A i \in DOMAIN entries : Current(entries[i], config)
    /\ OneEach(entries)

CacheGood(entries, config) == KeptAnswers(entries, config) /\ Len(entries) <= MaxCache

TokenGood(t, config) == IsToken(t) /\ (t # NoToken => Current(t, config))

LiveInv ==
    /\ loads \in Nat
    /\ call = [s \in Searches |-> call[s]]
    /\ \A s \in Searches : CallGood(call[s], loads, Config)
    /\ TokenGood(token, Config)
    /\ CacheGood(cache, Config)

LEMMA NoTokenGood == IsToken(NoToken) /\ \A config : TokenGood(NoToken, config)
BY DEF IsToken, TokenGood, NoToken

LEMMA NoCallGood == \A n \in Nat : \A config : CallGood(NoCall, n, config)
<1>1. /\ NoCall.at = "idle" /\ NoCall.token = NoToken /\ NoCall.loads = 0
      /\ NoCall = [at |-> NoCall.at, q |-> NoCall.q, token |-> NoCall.token,
                        loads |-> NoCall.loads, host |-> NoCall.host]
  BY DEF NoCall
<1>2. QED
  BY <1>1, NoTokenGood DEF CallGood

LEMMA EmptyCacheGood == LiveHolds => \A config : CacheGood(<<>>, config)
<1>1. <<>> \in Seq({}) /\ Len(<<>>) = 0 /\ \A i \in DOMAIN <<>> : FALSE
  OBVIOUS
<1>2. QED
  BY <1>1 DEF CacheGood, KeptAnswers, OneEach, LiveHolds

LEMMA LiveStarts == LiveHolds /\ LiveInit => LiveInv
<1>1. SUFFICES ASSUME LiveHolds, LiveInit PROVE LiveInv
  OBVIOUS
<1>2. loads = 0 /\ token = NoToken /\ cache = <<>> /\ call = [s \in Searches |-> NoCall]
  BY <1>1 DEF LiveInit
<1>3. call = [s \in Searches |-> call[s]]
  BY <1>2
<1>4. \A s \in Searches : CallGood(call[s], loads, Config)
  BY <1>2, NoCallGood
<1>5. QED
  BY <1>1, <1>2, <1>3, <1>4, NoTokenGood, EmptyCacheGood DEF LiveInv

\* A sequence without the entry at k.
LEMMA RemoveAtIs ==
    ASSUME NEW S, NEW s \in Seq(S), NEW k \in 1..Len(s)
    PROVE  /\ RemoveAt(s, k) \in Seq(S) /\ Len(RemoveAt(s, k)) = Len(s) - 1
           /\ \A i \in 1..(Len(s) - 1) : RemoveAt(s, k)[i] = s[IF i < k THEN i ELSE i + 1]
<1>0. PICK rest : rest = RemoveAt(s, k)
  OBVIOUS
<1>1. PICK n \in Nat : n = Len(s)
  OBVIOUS
<1>2. k \in Nat /\ 1 <= k /\ k <= n
  BY <1>1
<1>3. PICK a : a = SubSeq(s, 1, k - 1)
  OBVIOUS
<1>4. PICK b : b = SubSeq(s, k + 1, Len(s))
  OBVIOUS
<1>5. a \in Seq(S) /\ Len(a) = k - 1
  BY <1>3
<1>6. \A i \in 1..(k - 1) : a[i] = s[i]
  BY <1>3
<1>7. b \in Seq(S) /\ Len(b) = n - k
  BY <1>1, <1>2, <1>4
<1>8. \A i \in 1..(n - k) : b[i] = s[i + k]
  BY <1>1, <1>2, <1>4
<1>9. rest = a \o b
  BY <1>0, <1>3, <1>4 DEF RemoveAt
<1>10. /\ a \o b \in Seq(S) /\ Len(a \o b) = Len(a) + Len(b)
       /\ \A i \in 1..(Len(a) + Len(b)) : (a \o b)[i] = IF i <= Len(a) THEN a[i] ELSE b[i - Len(a)]
  BY <1>5, <1>7, ConcatProperties, Zenon
<1>11. rest \in Seq(S) /\ Len(rest) = Len(a) + Len(b)
  BY <1>9, <1>10, Zenon
<1>12. \A i \in 1..(Len(a) + Len(b)) : rest[i] = IF i <= Len(a) THEN a[i] ELSE b[i - Len(a)]
  BY <1>9, <1>10, Zenon
<1>13. Len(a) + Len(b) = n - 1
  BY <1>1, <1>2, <1>5, <1>7
<1>14. \A i \in 1..(n - 1) : rest[i] = IF i <= k - 1 THEN a[i] ELSE b[i - (k - 1)]
  BY <1>5, <1>12, <1>13, Zenon
<1>15. ASSUME NEW i \in 1..(n - 1) PROVE rest[i] = s[IF i < k THEN i ELSE i + 1]
  <2>1. i \in Nat /\ 1 <= i /\ i <= n - 1 /\ i \in 1..(n - 1)
    BY <1>1
  <2>2. CASE i < k
    <3>1. i <= k - 1 /\ i \in 1..(k - 1)
      BY <1>2, <2>1, <2>2
    <3>2. rest[i] = a[i]
      BY <1>14, <2>1, <3>1, Zenon
    <3>3. QED
      BY <1>6, <2>2, <3>1, <3>2, Zenon
  <2>3. CASE ~ (i < k)
    <3>1. ~ (i <= k - 1) /\ i - (k - 1) \in 1..(n - k) /\ (i - (k - 1)) + k = i + 1
      BY <1>2, <2>1, <2>3
    <3>2. rest[i] = b[i - (k - 1)]
      BY <1>14, <2>1, <3>1, Zenon
    <3>3. b[i - (k - 1)] = s[i + 1]
      BY <1>8, <3>1, Zenon
    <3>4. QED
      BY <2>3, <3>2, <3>3, Zenon
  <2>4. QED
    BY <2>2, <2>3
<1>16. QED
  BY <1>0, <1>1, <1>11, <1>13, <1>15, Zenon

\* The cache without the answer for a text, which it has once at most.
Others(c, q) == RemoveFirstMatch(c, LAMBDA e : e.q = q)

LEMMA FirstRemoved ==
    ASSUME NEW S, NEW s \in Seq(S), NEW q, NEW rest,
           rest = Others(s, q), \A i, j \in DOMAIN s : s[i].q = s[j].q => i = j
    PROVE  /\ rest \in Seq(S) /\ Len(rest) <= Len(s)
           /\ \A i \in DOMAIN rest : rest[i].q # q /\ \E j \in DOMAIN s : rest[i] = s[j]
           /\ \A i, j \in DOMAIN rest : rest[i].q = rest[j].q => i = j
<1>1. CASE ~ \E i \in 1..Len(s) : s[i].q = q
  BY <1>1 DEF Others, RemoveFirstMatch
<1>2. CASE \E i \in 1..Len(s) : s[i].q = q
  <2>1. PICK k \in 1..Len(s) : s[k].q = q
    BY <1>2
  <2>2. {i \in 1..Len(s) : s[i].q = q} = {k}
    BY <2>1
  <2>3. Min({k}) = k
    BY <2>1 DEF Min
  <2>4. SelectInSeq(s, LAMBDA e : e.q = q) = k
    BY <2>2, <2>3 DEF SelectInSeq
  <2>5. rest = RemoveAt(s, k)
    BY <1>2, <2>4 DEF Others, RemoveFirstMatch
  <2>6. k \in 1..Len(s)
    BY <2>1
  <2>7. /\ rest \in Seq(S) /\ Len(rest) = Len(s) - 1
        /\ \A i \in 1..(Len(s) - 1) : rest[i] = s[IF i < k THEN i ELSE i + 1]
    BY <2>5, <2>6, RemoveAtIs, Zenon
  <2>8. DOMAIN rest = 1..(Len(s) - 1) /\ DOMAIN s = 1..Len(s) /\ Len(s) \in Nat
    BY <2>7
  <2>9. ASSUME NEW i \in DOMAIN rest
        PROVE  /\ i \in Nat /\ rest[i] = s[IF i < k THEN i ELSE i + 1]
               /\ (IF i < k THEN i ELSE i + 1) \in DOMAIN s /\ (IF i < k THEN i ELSE i + 1) # k
    <3>1. i \in 1..(Len(s) - 1)
      BY <2>8
    <3>2. PICK n \in Nat : n = Len(s)
      BY <2>8
    <3>3. /\ i \in Nat /\ (IF i < k THEN i ELSE i + 1) \in 1..n
          /\ (IF i < k THEN i ELSE i + 1) # k
      BY <2>1, <3>1, <3>2
    <3>4. QED
      BY <2>7, <2>8, <3>1, <3>2, <3>3, Zenon
  <2>10. \A i \in DOMAIN rest : rest[i].q # q /\ \E j \in DOMAIN s : rest[i] = s[j]
    BY <2>1, <2>8, <2>9
  <2>11. ASSUME NEW i \in DOMAIN rest, NEW j \in DOMAIN rest, rest[i].q = rest[j].q PROVE i = j
    <3>1. PICK u \in DOMAIN s : u = (IF i < k THEN i ELSE i + 1) /\ rest[i] = s[u]
      BY <2>9
    <3>2. PICK v \in DOMAIN s : v = (IF j < k THEN j ELSE j + 1) /\ rest[j] = s[v]
      BY <2>9
    <3>3. u = v
      BY <2>11, <3>1, <3>2
    <3>4. QED
      BY <2>1, <2>9, <3>1, <3>2, <3>3
  <2>12. Len(rest) <= Len(s)
    <3>1. PICK n \in Nat : n = Len(s)
      BY <2>8
    <3>2. Len(rest) = n - 1
      BY <2>7, <3>1, Zenon
    <3>3. QED
      BY <3>1, <3>2
  <2>13. QED
    BY <2>7, <2>10, <2>11, <2>12, Zenon
<1>3. QED
  BY <1>1, <1>2

\* A cache without its oldest entry, or without the entry for one text.
LEMMA TailGood ==
    ASSUME NEW c, NEW config, KeptAnswers(c, config), c # <<>>
    PROVE  KeptAnswers(Tail(c), config) /\ Len(Tail(c)) = Len(c) - 1 /\ Len(c) \in Nat
<1>1. PICK S : c \in Seq(S)
  BY DEF KeptAnswers
<1>2. Tail(c) \in Seq(S) /\ Len(Tail(c)) = Len(c) - 1 /\ Len(c) \in Nat
  BY <1>1
<1>3. ASSUME NEW i \in DOMAIN Tail(c) PROVE i \in Nat /\ i + 1 \in DOMAIN c /\ Tail(c)[i] = c[i + 1]
  BY <1>1, <1>2
<1>4. \A i \in DOMAIN Tail(c) : Current(Tail(c)[i], config)
  BY <1>3 DEF KeptAnswers
<1>5. \A i, j \in DOMAIN Tail(c) : Tail(c)[i].q = Tail(c)[j].q => i = j
  <2>1. ASSUME NEW i \in DOMAIN Tail(c), NEW j \in DOMAIN Tail(c), Tail(c)[i].q = Tail(c)[j].q PROVE i = j
    <3>1. i + 1 = j + 1
      BY <1>3, <2>1 DEF KeptAnswers, OneEach
    <3>2. QED
      BY <1>3, <3>1
  <2>2. QED
    BY <2>1
<1>6. QED
  BY <1>2, <1>4, <1>5 DEF KeptAnswers, OneEach

LEMMA WithoutGood ==
    ASSUME NEW c, NEW config, KeptAnswers(c, config), NEW q, NEW rest,
           rest = Others(c, q)
    PROVE  /\ KeptAnswers(rest, config) /\ Len(rest) <= Len(c) /\ Len(rest) \in Nat /\ Len(c) \in Nat
           /\ \A i \in DOMAIN rest : rest[i].q # q
<1>1. PICK S : c \in Seq(S)
  BY DEF KeptAnswers
<1>2. \A i, j \in DOMAIN c : c[i].q = c[j].q => i = j
  BY DEF KeptAnswers, OneEach
<1>3. /\ rest \in Seq(S) /\ Len(rest) <= Len(c)
      /\ \A i \in DOMAIN rest : rest[i].q # q /\ \E j \in DOMAIN c : rest[i] = c[j]
      /\ \A i, j \in DOMAIN rest : rest[i].q = rest[j].q => i = j
  BY <1>1, <1>2, FirstRemoved
<1>4. Len(rest) \in Nat /\ Len(c) \in Nat
  BY <1>1, <1>3
<1>5. QED
  BY <1>3, <1>4 DEF KeptAnswers, OneEach

LEMMA AddedGood ==
    ASSUME NEW c, NEW config, KeptAnswers(c, config), NEW e, Current(e, config),
           \A i \in DOMAIN c : c[i].q # e.q
    PROVE  KeptAnswers(Append(c, e), config) /\ Len(Append(c, e)) = Len(c) + 1 /\ Append(c, e) # <<>>
<1>1. PICK S : c \in Seq(S)
  BY DEF KeptAnswers
<1>2. PICK T : T = S \cup {e}
  OBVIOUS
<1>3. c \in Seq(T)
  BY <1>1, <1>2
<1>4. PICK d : d = Append(c, e)
  OBVIOUS
<1>5. /\ d \in Seq(T) /\ Len(d) = Len(c) + 1 /\ Len(c) \in Nat /\ DOMAIN c = 1..Len(c)
      /\ d[Len(c) + 1] = e /\ \A i \in 1..Len(c) : d[i] = c[i]
  BY <1>2, <1>3, <1>4
<1>6. DOMAIN d = 1..(Len(c) + 1)
  BY <1>5
<1>7. ASSUME NEW i \in DOMAIN d PROVE (i \in DOMAIN c /\ d[i] = c[i]) \/ (i = Len(c) + 1 /\ d[i] = e)
  BY <1>5, <1>6
<1>8. \A i \in DOMAIN d : Current(d[i], config)
  BY <1>7 DEF KeptAnswers
<1>9. OneEach(d)
  BY <1>7 DEF KeptAnswers, OneEach
<1>10. d # <<>>
  BY <1>5
<1>11. QED
  BY <1>4, <1>5, <1>8, <1>9, <1>10 DEF KeptAnswers

\* An answer kept: it takes the place of the one for the same text, and the oldest goes when
\* there are too many.
LEMMA KeptGood ==
    ASSUME MaxCache \in Nat, NEW c, NEW config, CacheGood(c, config), NEW e, Current(e, config),
           NEW rest, rest = Others(c, e.q), NEW kept, kept = Append(rest, e),
           NEW new, new = IF Len(kept) > MaxCache THEN Tail(kept) ELSE kept
    PROVE  CacheGood(new, config)
<1>1. KeptAnswers(c, config) /\ Len(c) <= MaxCache
  BY DEF CacheGood
<1>2. /\ KeptAnswers(rest, config) /\ Len(rest) <= Len(c) /\ Len(rest) \in Nat /\ Len(c) \in Nat
      /\ \A i \in DOMAIN rest : rest[i].q # e.q
  BY <1>1, WithoutGood
<1>3. KeptAnswers(kept, config) /\ Len(kept) = Len(rest) + 1 /\ kept # <<>>
  BY <1>2, AddedGood
<1>4. KeptAnswers(Tail(kept), config) /\ Len(Tail(kept)) = Len(kept) - 1
  BY <1>3, TailGood
<1>5. Len(kept) > MaxCache \/ Len(kept) <= MaxCache
  BY <1>2, <1>3
<1>6. CASE Len(kept) > MaxCache
  BY <1>1, <1>2, <1>3, <1>4, <1>6 DEF CacheGood
<1>7. CASE ~ (Len(kept) > MaxCache)
  BY <1>3, <1>5, <1>7 DEF CacheGood
<1>8. QED
  BY <1>6, <1>7

LEMMA ConfigKept == UNCHANGED db => Config' = Config
BY DEF Config, Chosen

\* One search changes; the keyset does not.
LEMMA CallStep ==
    ASSUME LiveInv, UNCHANGED <<db, loads>>, NEW s \in Searches, NEW c, CallGood(c, loads, Config),
           call' = [call EXCEPT ![s] = c]
    PROVE  /\ call' = [t \in Searches |-> call'[t]]
           /\ \A t \in Searches : CallGood(call'[t], loads', Config')
<1>1. Config' = Config
  BY ConfigKept
<1>2. call = [t \in Searches |-> call[t]]
  BY DEF LiveInv
<1>3. call' = [t \in Searches |-> IF t = s THEN c ELSE call[t]]
  BY <1>2
<1>4. QED
  BY <1>1, <1>3 DEF LiveInv

\* The console writes and reads rows of meta: nothing the searches use changes.
LEMMA ConsoleStep == LiveInv /\ UNCHANGED <<db, token, cache, loads, call>> => LiveInv'
<1>1. SUFFICES ASSUME LiveInv, UNCHANGED <<db, token, cache, loads, call>> PROVE LiveInv'
  OBVIOUS
<1>2. Config' = Config
  BY <1>1, ConfigKept
<1>3. QED
  BY <1>1, <1>2 DEF LiveInv

\* Another keyset: what was kept is dropped, and every search is of an earlier one.
LEMMA TakeStep ==
    ASSUME LiveHolds, LiveInv, loads' = loads + 1, token' = NoToken, cache' = <<>>,
           call' = call \/ call' = [s \in Searches |-> NoCall]
    PROVE  LiveInv'
<1>1. loads' \in Nat
  BY DEF LiveInv
<1>2. call' = [s \in Searches |-> call'[s]]
  BY DEF LiveInv
<1>3. ASSUME NEW s \in Searches PROVE CallGood(call'[s], loads', Config')
  <2>1. CASE call' = call
    BY <2>1 DEF LiveInv, CallGood
  <2>2. CASE call' = [t \in Searches |-> NoCall]
    <3>1. call'[s] = NoCall
      BY <2>2
    <3>2. QED
      BY <1>1, <3>1, NoCallGood
  <2>3. QED
    BY <2>1, <2>2
<1>4. TokenGood(token', Config')
  BY NoTokenGood
<1>5. CacheGood(cache', Config')
  BY EmptyCacheGood
<1>6. QED
  BY <1>1, <1>2, <1>3, <1>4, <1>5 DEF LiveInv

LEMMA SearchForStep ==
    ASSUME LiveInv, NEW s \in Searches, NEW q \in Phrases, NEW fresh \in BOOLEAN, SearchFor(s, q, fresh)
    PROVE  LiveInv'
<1>1. PICK t : t = IF token # NoToken THEN token ELSE [keys |-> Config, late |-> FALSE]
  OBVIOUS
<1>2. IsToken(t) /\ Current(t, Config)
  BY <1>1 DEF LiveInv, TokenGood, IsToken, Current
<1>3. PICK c : c = [at |-> IF token # NoToken THEN "search" ELSE "token", q |-> q, loads |-> loads,
                    host |-> Chosen("env"), token |-> t]
  OBVIOUS
<1>4. c.at \in {"search", "token"} /\ c.token = t /\ c.loads = loads
      /\ c = [at |-> c.at, q |-> c.q, token |-> c.token, loads |-> c.loads, host |-> c.host]
  BY <1>3
<1>5. CallGood(c, loads, Config)
  <2>1. c.at = "token" => ~c.token.late
    BY <1>1, <1>3
  <2>2. QED
    BY <1>2, <1>4, <2>1 DEF CallGood, LiveInv
<1>6. call' = [call EXCEPT ![s] = c] /\ UNCHANGED <<meta, db, token, cache, loads, desk>>
  BY <1>1, <1>3 DEF SearchFor
<1>7. Config' = Config
  BY <1>6, ConfigKept
<1>8. QED
  BY <1>5, <1>6, <1>7, CallStep DEF LiveInv

\* A search is over, with or without an answer kept.
LEMMA OverStep ==
    ASSUME LiveInv, NEW s \in Searches, call' = [call EXCEPT ![s] = NoCall], UNCHANGED <<db, token, loads>>,
           CacheGood(cache', Config)
    PROVE  LiveInv'
<1>1. CallGood(NoCall, loads, Config)
  BY NoCallGood DEF LiveInv
<1>2. Config' = Config
  BY ConfigKept
<1>3. QED
  BY <1>1, <1>2, CallStep DEF LiveInv

LEMMA TokenArrivesStep ==
    ASSUME LiveInv, NEW s \in Searches, TokenArrives(s)
    PROVE  LiveInv'
<1>1. call[s].at = "token" /\ CallGood(call[s], loads, Config) /\ UNCHANGED <<meta, db, loads, desk, spent>>
  BY DEF TokenArrives, LiveInv
<1>2. PICK got : got = [call[s].token EXCEPT !.late = call[s].loads # loads]
  OBVIOUS
<1>3. got = [keys |-> call[s].token.keys, late |-> call[s].loads # loads]
  BY <1>1, <1>2 DEF CallGood, IsToken
<1>4. IsToken(got) /\ Current(got, Config)
  <2>1. got.keys = call[s].token.keys /\ got.late = (call[s].loads # loads) /\ got = [keys |-> got.keys, late |-> got.late]
    BY <1>3
  <2>2. IsToken(got)
    BY <2>1 DEF IsToken
  <2>3. Current(got, Config)
    BY <1>1, <2>1 DEF CallGood, Current
  <2>4. QED
    BY <2>2, <2>3
<1>5. CASE got.keys \in Valid
  <2>1. /\ token' = got /\ cache' = cache
        /\ call' = [call EXCEPT ![s].at = "search", ![s].token = got, ![s].host = Chosen("env")]
    BY <1>2, <1>5 DEF TokenArrives
  <2>2. PICK c : c = [call[s] EXCEPT !.at = "search", !.token = got, !.host = Chosen("env")]
    OBVIOUS
  <2>3. c = [at |-> "search", q |-> call[s].q, token |-> got, loads |-> call[s].loads, host |-> Chosen("env")]
    BY <1>1, <2>2 DEF CallGood
  <2>4. CallGood(c, loads, Config)
    <3>1. /\ c.at = "search" /\ c.token = got /\ c.loads = call[s].loads
          /\ c = [at |-> c.at, q |-> c.q, token |-> c.token, loads |-> c.loads, host |-> c.host]
      BY <2>3
    <3>2. QED
      BY <1>1, <1>4, <3>1 DEF CallGood
  <2>5. call' = [call EXCEPT ![s] = c]
    BY <2>1, <2>2 DEF LiveInv
  <2>6. Config' = Config
    BY <1>1, ConfigKept
  <2>7. QED
    BY <1>1, <1>4, <2>1, <2>4, <2>5, <2>6, CallStep DEF LiveInv, TokenGood
<1>6. CASE got.keys \notin Valid
  <2>1. call' = [call EXCEPT ![s] = NoCall] /\ UNCHANGED <<token, cache>>
    BY <1>2, <1>6 DEF TokenArrives, Fails
  <2>2. QED
    BY <1>1, <2>1, OverStep DEF LiveInv
<1>7. QED
  BY <1>5, <1>6

LEMMA SearchArrivesStep ==
    ASSUME LiveHolds, LiveInv, NEW s \in Searches, SearchArrives(s)
    PROVE  LiveInv'
<1>1. call[s].at = "search" /\ CallGood(call[s], loads, Config) /\ UNCHANGED <<meta, db, loads, desk, spent>>
  BY DEF SearchArrives, LiveInv
<1>2. CASE call[s].token.keys["env"] = call[s].host
  <2>1. PICK entry : entry = [q |-> call[s].q, keys |-> call[s].token.keys,
                              late |-> call[s].token.late \/ call[s].loads # loads]
    OBVIOUS
  <2>2. PICK rest : rest = Others(cache, call[s].q)
    OBVIOUS
  <2>3. PICK kept : kept = Append(rest, entry)
    OBVIOUS
  <2>4. /\ cache' = IF Len(kept) > MaxCache THEN Tail(kept) ELSE kept
        /\ call' = [call EXCEPT ![s] = NoCall] /\ token' = token
    BY <1>2, <2>1, <2>2, <2>3 DEF SearchArrives, Others
  <2>5. Current(entry, Config)
    <3>1. entry.keys = call[s].token.keys /\ entry.late = (call[s].token.late \/ call[s].loads # loads)
      BY <2>1
    <3>2. QED
      BY <1>1, <3>1 DEF CallGood, Current
  <2>6. CacheGood(cache', Config)
    <3>1. rest = Others(cache, entry.q)
      BY <2>1, <2>2
    <3>2. QED
      BY <2>3, <2>4, <2>5, <3>1, KeptGood DEF LiveInv, LiveHolds
  <2>7. QED
    BY <1>1, <2>4, <2>6, OverStep
<1>3. CASE call[s].token.keys["env"] # call[s].host
  <2>1. call' = [call EXCEPT ![s] = NoCall] /\ UNCHANGED <<token, cache>>
    BY <1>3 DEF SearchArrives, Fails
  <2>2. QED
    BY <1>1, <2>1, OverStep DEF LiveInv
<1>4. QED
  BY <1>2, <1>3

LEMMA ExpiresStep == LiveHolds /\ LiveInv /\ Expires => LiveInv'
<1>1. SUFFICES ASSUME LiveHolds, LiveInv, Expires PROVE LiveInv'
  OBVIOUS
<1>2. UNCHANGED <<meta, db, loads, desk, call>>
  BY <1>1 DEF Expires
<1>3. Config' = Config
  BY <1>2, ConfigKept
<1>4. CASE token' = NoToken /\ cache' = cache
  BY <1>1, <1>2, <1>3, <1>4, NoTokenGood DEF LiveInv
<1>5. CASE cache # <<>> /\ cache' = Tail(cache) /\ token' = token
  <2>1. KeptAnswers(Tail(cache), Config) /\ Len(Tail(cache)) = Len(cache) - 1 /\ Len(cache) \in Nat
    BY <1>1, <1>5, TailGood DEF LiveInv, CacheGood
  <2>2. CacheGood(cache', Config)
    BY <1>1, <1>5, <2>1 DEF LiveInv, CacheGood, LiveHolds
  <2>3. QED
    BY <1>1, <1>2, <1>3, <1>5, <2>2 DEF LiveInv
<1>6. QED
  BY <1>1, <1>4, <1>5 DEF Expires

LEMMA LiveStep == LiveHolds /\ LiveInv /\ [LiveNext]_liveVars => LiveInv'
<1>1. SUFFICES ASSUME LiveHolds, LiveInv, [LiveNext]_liveVars PROVE LiveInv'
  OBVIOUS
<1>2. CASE UNCHANGED liveVars
  BY <1>1, <1>2, ConsoleStep DEF liveVars
<1>3. CASE Save \/ WriteField \/ WriteFails \/ ClearKeyset \/ ReadConfig
  <2>1. UNCHANGED <<db, token, cache, loads, call>>
    BY <1>3 DEF Save, WriteField, WriteFails, ClearKeyset, ReadConfig
  <2>2. QED
    BY <1>1, <2>1, ConsoleStep
<1>4. CASE TakeConfig
  BY <1>1, <1>4, TakeStep DEF TakeConfig
<1>5. ASSUME NEW s \in Searches,
             \/ \E q \in Phrases, fresh \in BOOLEAN : SearchFor(s, q, fresh)
             \/ TokenArrives(s) \/ SearchArrives(s)
      PROVE  LiveInv'
  BY <1>1, <1>5, SearchForStep, TokenArrivesStep, SearchArrivesStep
<1>6. ASSUME NEW s \in Searches, CallFails(s) PROVE LiveInv'
  BY <1>1, <1>6, OverStep DEF CallFails, Fails, LiveInv
<1>7. CASE Expires
  BY <1>1, <1>7, ExpiresStep
<1>8. CASE Reboot
  BY <1>1, <1>8, TakeStep DEF Reboot
<1>9. QED
  BY <1>1, <1>2, <1>3, <1>4, <1>5, <1>6, <1>7, <1>8 DEF LiveNext

\* The token and the answers the process keeps belong to the keyset it has now, unless the
\* call that fetched them was under way when the keyset changed.
THEOREM KeptIsOfTheKeyset == LiveSpec => []NothingStale
<1>1. LiveInv => NothingStale
  BY DEF LiveInv, TokenGood, CacheGood, KeptAnswers, Current, NothingStale
<1>2. (LiveInit => LiveInv) /\ (LiveInv /\ [LiveNext]_liveVars => LiveInv')
  BY LiveStarts, LiveStep, LiveAssumption
<1>3. QED
  BY <1>1, <1>2, PTL DEF LiveSpec

\* The search cache never holds more answers than it may, and one for each text.
CacheBounded == Len(cache) <= MaxCache /\ OneEach(cache)

\* It is so in every state: an answer replaces the one for the same text, and when there are
\* too many the oldest goes.
THEOREM CacheStaysBounded == LiveSpec => []CacheBounded
<1>1. LiveInv => CacheBounded
  BY DEF LiveInv, CacheGood, KeptAnswers, CacheBounded
<1>2. (LiveInit => LiveInv) /\ (LiveInv /\ [LiveNext]_liveVars => LiveInv')
  BY LiveStarts, LiveStep, LiveAssumption
<1>3. QED
  BY <1>1, <1>2, PTL DEF LiveSpec

=============================================================================
