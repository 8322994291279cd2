------------------------------ MODULE MCUpload ------------------------------
(***************************************************************************)
(* A small instance of Upload for TLC: five photos in groups of two, one   *)
(* and two, into a batch with room for six; of the settings a scan starts  *)
(* from; of the matching of its lines; and of the page that picks the      *)
(* photos.  They share no state: a behaviour is about one of them.         *)
(***************************************************************************)
EXTENDS Upload, Settings, TLC

\* The second group is cut by its bytes.
CutByBytes == <<<<"p1", "p2">>, <<"p3">>, <<"p4", "p5">>>>
Alike == Permutations(Handlers)

-----------------------------------------------------------------------------
(* A catalog of six cards: three of a name, two of them with one index;    *)
(* one with no printing.                                                   *)

CONSTANTS Limit, Shortlist, MaxList, MaxBytes, Edits, Rounds, Faults
VARIABLES line, prefs, found,
          browser, picked, layout, swapped, det, todo, button, job, run, sent, landed, alone, used

Number(idx, pre, of) == [idx |-> idx, pre |-> pre, of |-> of]
OnePrinting(finish, language) == <<[finish |-> finish, language |-> language, default |-> TRUE]>>

Catalogued ==
    "base" :> [name |-> <<"base">>, game |-> "pokemon"] @@ "jungle" :> [name |-> <<"jungle">>, game |-> "pokemon"]
    @@ "dawn" :> [name |-> <<"romance", "dawn">>, game |-> "onepiece"]

Card(name, set, number, printings) ==
    [name |-> name, set |-> set, number |-> number, printings |-> printings,
     search |-> Range(name) \cup Range(Catalogued[set].name) \cup {Catalogued[set].game}]

SixCards ==
    <<Card(<<"pikachu">>, "base", Number(58, "none", 102),
           <<[finish |-> "normal", language |-> "EN", default |-> FALSE],
             [finish |-> "holofoil", language |-> "EN", default |-> TRUE]>>),
      Card(<<"pikachu">>, "jungle", Number(60, "none", 64), OnePrinting("normal", "EN")),
      Card(<<"pikachu">>, "jungle", Number(58, "none", 0), OnePrinting("normal", "JP")),
      Card(<<"pikachu", "v">>, "dawn", Number(43, "none", 185), OnePrinting("reverse_holofoil", "EN")),
      Card(<<"luffy">>, "dawn", Number(3, "op1-", 0), OnePrinting("normal", "EN")),
      Card(<<"luffy">>, "base", Number(-1, "none", 0), <<>>)>>

Patterns ==
    [quantity |-> <<"3x" :> 3>>, grade |-> <<"psa 10" :> "PSA 10">>,
     finish |-> <<"reverse" :> "reverse_holofoil", "holo" :> "holofoil">>,
     condition |-> <<"nm" :> "NM">>, language |-> <<"japanese" :> "JP", "en" :> "EN">>,
     number |-> <<"op1-3" :> Number(3, "op1-", 0),
                  "58/102" :> Number(58, "none", 102) @@ "43/185" :> Number(43, "none", 185)
                      @@ "60/64" :> Number(60, "none", 64),
                  "58" :> Number(58, "none", 0)>>]

PartOf(s, t) == s = t \/ <<s, t>> \in {<<"en", "greninja">>, <<"v", "pikachv">>, <<"holofoil", "reverse_holofoil">>}
CutFrom(t, s) == IF s = t THEN <<>> ELSE IF t = "greninja" THEN <<"gr", "inja">> ELSE <<"pikach">>
TypoOf(s, t) == {s, t} = {"pikachu", "pikachv"}
LengthOf(w) == IF w = "v" THEN 1 ELSE IF w \in {"pikachu", "pikachv", "greninja"} THEN 7 ELSE 4
Likeness(words, name) ==
    IF words = name THEN 10000
    ELSE IF Range(words) \cap {"pikachu", "pikachv"} # {} /\ "pikachu" \in Range(name) THEN 7000 ELSE 1000
Close(words, name) == "pikachv" \in Range(words) /\ "pikachu" \in Range(name)

Nothing == [boostSets |-> <<>>, outSets |-> <<>>, boostTerms |-> <<>>, outTerms |-> <<>>, game |-> "none"]
TypedOptions ==
    {Nothing, [Nothing EXCEPT !.boostSets = <<"base", "jungle", "base">>],
     [Nothing EXCEPT !.outSets = <<"jungle", "nowhere">>],
     [Nothing EXCEPT !.boostTerms = <<"v">>, !.game = "pokemon"], [Nothing EXCEPT !.outTerms = <<"base">>]}
TypedLines ==
    {card \o more :
        card \in {<<"pikachu", "58/102">>, <<"pikachu", "58">>, <<"pikachu", "60/64">>, <<"pikachu">>,
                  <<"pikachu", "v", "43/185">>, <<"pikachu", "base", "set", "58/102">>,
                  <<"pikachu", "jungle", "58/102">>, <<"pikachv">>, <<"43/185">>, <<"jungle">>,
                  <<"luffy", "op1-3">>, <<"luffy", "romance", "dawn", "card">>, <<"greninja">>,
                  <<"psa 10", "v", "reverse">>},
        more \in {<<>>, <<"japanese">>, <<"nm", "en">>, <<"3x", "holo">>}}

\* Photos to pick: one with two cards, two of one card, one the server does not take as it
\* is.  Their bytes have line ends and dashes where a delimiter has them.
Snaps == {"binder", "phone", "scan", "tiff"}
Size == [f \in Snaps |-> CASE f = "binder" -> 5 [] f = "phone" -> 5 [] f = "scan" -> 2 [] f = "tiff" -> 4]
CardsSeen == [f \in Snaps |-> IF f = "binder" THEN 2 ELSE 1]
Content(f, k) ==
    <<<<"cr">>, <<"lf">>, <<f, ToString(k)>>, <<"cr">>, <<"lf">>, <<"cr">>, <<"lf">>, <<"-">>, <<"-">>>>
    \o (IF f = "phone" THEN <<<<"cr">>, <<"lf">>>> ELSE <<>>)

Look == INSTANCE Identify WITH
            Cards <- SixCards, Sets <- Catalogued, Rules <- Patterns, Part <- PartOf, Cut <- CutFrom,
            Typo <- TypoOf, Letters <- LengthOf, Similar <- Likeness, Trigrams <- Close,
            SetPrefixes <- {"op1-"}, SetNamed <- "base" :> "base" @@ "jungle" :> "jungle",
            Lines <- TypedLines, Forms <- TypedOptions
Pick == INSTANCE Dropzone WITH
            Drops <- {<<"phone", "scan">>, <<"tiff", "binder">>},
            SizeOf <- Size, CardsIn <- CardsSeen, Bytes <- Content,
            Taken <- Snaps \ {"tiff"}, Drawable <- Snaps

lookup == <<line, prefs, found>>
page == <<browser, picked, layout, swapped, det, todo, button, job, run, sent, landed, alone, used>>

InitAll == Init /\ SettingsInit /\ Look!LookupInit /\ Pick!DropzoneInit

PageIdle == used.edits = 0 /\ browser = "no script"
Unsent == batches = <<>> /\ client.op = "start" /\ client.pc = "ready" /\ mishaps = 0

NextAll ==
    \/ /\ saves = 0 /\ line = <<>> /\ PageIdle
       /\ Next
       /\ UNCHANGED <<settings, lookup, page>>
    \/ /\ Unsent /\ line = <<>> /\ PageIdle
       /\ SettingsNext
       /\ UNCHANGED <<vars, lookup, page>>
    \/ /\ Unsent /\ saves = 0 /\ PageIdle
       /\ Look!LookupNext
       /\ UNCHANGED <<vars, settings, page>>
    \/ /\ Unsent /\ saves = 0 /\ line = <<>>
       /\ Pick!DropzoneNext
       /\ UNCHANGED <<vars, settings, lookup>>

SpecAll == InitAll /\ [][NextAll]_<<vars, settings, lookup, page>>

ExactFound == Look!ExactFound
CardsArrive == Pick!CardsArrive

=============================================================================
