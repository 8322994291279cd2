----------------------------- MODULE Fulfilment -----------------------------
(***************************************************************************)
(* What the Orders page promises of stock: an order waits, then it is      *)
(* shipped and its units come off the shelf, once and for all; or it is    *)
(* deleted and nothing comes off.  Orders.tla is shown to implement this   *)
(* as long as the seller makes one request at a time.                      *)
(***************************************************************************)
EXTENDS Integers

CONSTANTS
    Rows,       \* inventory rows
    Ids,        \* order ids
    Needs,      \* Needs: what an order may ask for, a set of functions on Rows
    Stock       \* Stock[r]: the units row r starts with

VARIABLES
    state,      \* state[o]: "none", "waiting", "shipped" or "deleted"
    need,       \* need[o][r]: units of row r order o asks for
    units       \* units[r]: units on hand

vars == <<state, need, units>>

Nothing == [r \in Rows |-> 0]

Init ==
    /\ state = [o \in Ids |-> "none"]
    /\ need = [o \in Ids |-> Nothing]
    /\ units = Stock

Place(o) ==
    /\ state[o] = "none"
    /\ state' = [state EXCEPT ![o] = "waiting"]
    /\ need'[o] \in Needs
    /\ need' = [need EXCEPT ![o] = need'[o]]
    /\ UNCHANGED units

\* Stock that is not there cannot come off: the count stops at zero.
Ship(o) ==
    /\ state[o] = "waiting"
    /\ state' = [state EXCEPT ![o] = "shipped"]
    /\ units' = [r \in Rows |->
                    IF units[r] > need[o][r] THEN units[r] - need[o][r] ELSE 0]
    /\ UNCHANGED need

Delete(o) ==
    /\ state[o] = "waiting"
    /\ state' = [state EXCEPT ![o] = "deleted"]
    /\ need' = [need EXCEPT ![o] = Nothing]
    /\ UNCHANGED units

Next == \E o \in Ids : Place(o) \/ Ship(o) \/ Delete(o)

Spec == Init /\ [][Next]_vars

=============================================================================
