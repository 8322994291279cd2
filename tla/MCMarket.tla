------------------------------ MODULE MCMarket ------------------------------
(***************************************************************************)
(* A small instance of the public site for TLC: the price sync, searches   *)
(* between two syncs, and the live listings.  The live listings share      *)
(* nothing with the rest: a behaviour is about the one or the other.       *)
(***************************************************************************)
EXTENDS Search, LiveListings, TLC

vars == <<syncVars, address, liveVars>>

-----------------------------------------------------------------------------
(* Two sets: "ho-oh" has no number of its own, "lugia" shares its number   *)
(* with the alternate art, "mew" is in the other set.                      *)

TwoSets == <<"base", "neo">>
SetNames == "base" :> <<"base", "set">> @@ "neo" :> <<"neo">>
GroupNames == "g1" :> <<"base", "set">> @@ "g2" :> <<"neo", "genesis">> @@ "g3" :> <<"base", "set", "two">>

Homes == "hooh" :> "base" @@ "lugia" :> "base" @@ "mew" :> "neo"
CardNames == "hooh" :> <<"ho-oh">> @@ "lugia" :> <<"lugia">> @@ "mew" :> <<"mew">>
CardNumbers == "hooh" :> 0 @@ "lugia" :> 1 @@ "mew" :> 2

ProductGroups == "p1" :> "g1" @@ "p2" :> "g1" @@ "p3" :> "g1" @@ "p4" :> "g2"
ProductNames == "p1" :> <<"lugia">> @@ "p2" :> <<"lugia", "alt">> @@ "p3" :> <<"ho-oh", "holo">> @@ "p4" :> <<"mew">>
ProductNumbers == "p1" :> 1 @@ "p2" :> 1 @@ "p3" :> 3 @@ "p4" :> 2

SubTypeFinish == "normal" :> "normal" @@ "1st edition" :> "1st" @@ "1st edition normal" :> "1st"
Says(a, b, c) == "normal" :> a @@ "1st edition" :> b @@ "1st edition normal" :> c
Mirror1 == "p1" :> Says(5, 0, 0) @@ "p2" :> Says(9, 0, 0) @@ "p3" :> Says(0, 7, 8) @@ "p4" :> Says(2, 0, 0)
Mirror2 == "p1" :> Unlisted @@ "p2" :> Says(9, 0, 0) @@ "p3" :> Says(4, 7, 0) @@ "p4" :> Says(1, 0, 0)
TwoMirrors == {Mirror1, Mirror2}

Seeded == [c \in Cards |-> IF c = "hooh" THEN {} ELSE {"normal"}]
SeededRows ==
    {[Row("lugia", "normal", 0, "market", 6, 1) EXCEPT !.demo = TRUE],
     [Row("lugia", "normal", 0, "market", 60, 1) EXCEPT !.demo = TRUE, !.grade = "PSA 10"],
     Row("mew", "normal", 0, "market", 3, 1)}

-----------------------------------------------------------------------------
(* Visitors.                                                               *)

GamesOf == "base" :> "pokemon" @@ "neo" :> "pokemon-jp"
Rarities == "hooh" :> "rare" @@ "lugia" :> "rare" @@ "mew" :> None
Words == "hooh" :> {"ho-oh"} @@ "lugia" :> {"lugia"} @@ "mew" :> {"mew"}
Near == "hooh" :> {"ho-oh", "hooh"} @@ "lugia" :> {"lugia", "luiga"} @@ "mew" :> {"mew", "mewtwo"}
Texts ==
    {NoQuery,
     [NoQuery EXCEPT !.terms = {"lugia"}],
     [NoQuery EXCEPT !.terms = {"luiga"}, !.set = "base"],
     [NoQuery EXCEPT !.terms = {"luiga"}, !.number = 2],
     [NoQuery EXCEPT !.grade = "PSA 10", !.set = "base", !.finish = "normal"]}
PriceRanges == {<<4, 8>>}

-----------------------------------------------------------------------------
(* The keyset.                                                             *)

SearchSymmetry == Permutations(Searches)
Typed == "id" :> {"new"} @@ "secret" :> {"new"} @@ "env" :> {"sandbox"}
Settings == "id" :> "old" @@ "secret" :> "old" @@ "env" :> "production"
Keysets == {Settings, "id" :> "new" @@ "secret" :> "new" @@ "env" :> "sandbox",
            "id" :> "new" @@ "secret" :> "new" @@ "env" :> "production"}
Forms == {"id" :> "new" @@ "secret" :> "new" @@ "env" :> "sandbox",
          "env" :> "production"}
Budgets == "saves" :> 2 @@ "searches" :> 2 @@ "faults" :> 1 @@ "expiries" :> 1

-----------------------------------------------------------------------------
Init == MarketInit /\ mirror = Mirror1 /\ SearchInit /\ LiveInit

Full == [days |-> Days, syncs |-> Syncs, changes |-> Changes, faults |-> Faults]

\* The visitor browses what the syncs have left, whole sets and half done ones.
MaxFilters == 2
Filters(p) == Cardinality({d \in Dims : p[d] # Blank}) + (IF p.min # NoBound THEN 1 ELSE 0)
Home == AskFor(NoQuery)
Next ==
    \/ /\ spent = [k \in DOMAIN LiveBudget |-> 0]
       /\ UNCHANGED liveVars
       /\ \/ address = Home /\ MarketNext /\ UNCHANGED address
          \/ At("idle") /\ used = Full /\ synced = day
             /\ SearchNext /\ Filters(address') <= MaxFilters
    \/ /\ used = [days |-> 0, syncs |-> 0, changes |-> 0, faults |-> 0]
       /\ address = Home
       /\ LiveNext
       /\ UNCHANGED <<syncVars, address>>

Spec == Init /\ [][Next]_vars

=============================================================================
