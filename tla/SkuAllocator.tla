---------------------------- MODULE SkuAllocator ----------------------------
(***************************************************************************)
(* What the seller's SKU counter promises, with no counter in sight: a set *)
(* of SKUs of which each may be handed out once.  draws[k] says how often  *)
(* SKU k was handed out.  BatchCommit is shown to implement it as long as  *)
(* one request at a time touches the counter.                              *)
(***************************************************************************)
EXTENDS Integers

CONSTANT Skus   \* every SKU the counter can print

VARIABLE draws  \* draws[k]: how many times SKU k was drawn from the counter

Init == draws = [k \in Skus |-> 0]

\* A request draws some SKUs nobody has been given before.
Draw ==
    /\ draws' \in [Skus -> 0..1]
    /\ \A k \in Skus : draws[k] <= draws'[k]

Next == Draw

Spec == Init /\ [][Next]_draws

=============================================================================
