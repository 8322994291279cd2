------------------------------ MODULE MCPricing ------------------------------
(* Small instances of Pricing for TLC: two cards, two printings; one card.  *)
EXTENDS Pricing, TLC

ByMarket == {<<"pct", -10>>}
TwoRules == {<<"pct", -10>>, <<"fixed", 0>>}
RawOnly == [v \in Variants |-> [g \in Grades |-> IF g = Raw THEN 200 ELSE NoPrice]]
Alike == Permutations(Variants)
=============================================================================
