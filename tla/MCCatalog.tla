------------------------------ MODULE MCCatalog ------------------------------
(* A small instance of PhotoIndex for TLC: one group, two singles that share *)
(* a number, and a card of that number seeded from another provider.         *)
EXTENDS PhotoIndex, TLC

OneGroup == [p \in Products |-> "g1"]
Names == ("p1" :> "pikachu") @@ ("p2" :> "pikachu ball")
Numbers == [p \in Products |-> 25]
Ranks == ("normal" :> 1) @@ ("foil" :> 2)
Seed == [c \in Ids |-> IF c = 1 THEN [group |-> "g1", product |-> NoProduct, name |-> "pikachu",
                                      number |-> 25, image |-> "s"] ELSE NoCard]
T == [finishes |-> {"normal", "foil"}, image |-> "t"]
U == [finishes |-> {}, image |-> "u"]
NoPicture == [finishes |-> {}, image |-> NoImage]
ThreeListings == {T, U, NoPicture}
BothListed == {[p \in Products |-> IF p = "p1" THEN T ELSE U]}
Looks == {("s" :> 2) @@ ("t" :> 9) @@ ("u" :> 3)}
=============================================================================
