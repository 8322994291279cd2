------------------------------- MODULE Catalog -------------------------------
(***************************************************************************)
(* The catalog import (app/catalog-import.ts): one game's sets, cards and  *)
(* printings are read from the TCGplayer mirror group by group, product by *)
(* product, statement by statement, with no transaction.  A group that     *)
(* fails is counted and the next one is tried; a group that was recorded   *)
(* is skipped by later imports unless they are forced; a restart forgets   *)
(* the import and keeps the rows.                                          *)
(*                                                                         *)
(* A product is a single; sealed products have no collector number and are *)
(* filtered out where the listing is read.  Prices, slugs, texts and codes *)
(* are left out: no other row depends on them.                             *)
(***************************************************************************)
EXTENDS Integers, FiniteSets, FiniteSetsExt

CONSTANTS
    Groups,          \* TCGplayer groups of the game
    Products,        \* TCGplayer products that are singles
    GroupOf,         \* [Products -> Groups]
    NameOf,          \* a product's card name, cleaned
    NumberOf,        \* a product's collector number
    Finishes,        \* printings a price sub-type maps to
    Normal,          \* the finish of a product without prices
    Rank,            \* [Finishes -> Nat]: the place of a finish in FINISH_RANK
    Images,          \* image URLs
    NoImage,         \* no URL
    TcgImages,       \* those on TCGplayer's own host
    Ids,             \* card ids
    SeededSets,      \* groups whose set was seeded from another provider
    SeededCards,     \* the cards seeded with them, with their default printing
    Listings,        \* what the mirror may say of a product
    Mirrors,         \* what it says of all of them at first
    MaxEvents        \* bound: imports, changes of the mirror, restarts and PhotoIndex's events

NoId == 0
NoProduct == "none"
NotListed == [finishes |-> {}]
NoCard == [group |-> "none"]

ListingRec == [finishes : SUBSET Finishes, image : Images \cup {NoImage}]
CardRec == [group : Groups, product : Products \cup {NoProduct},
            name : {NameOf[p] : p \in Products}, number : {NumberOf[p] : p \in Products},
            image : Images \cup {NoImage}]

\* What the import is run on: a game with a group and a product, "none" no product's name,
\* and no two seeded cards of one product.
CatalogHolds ==
    /\ Groups # {} /\ Products # {} /\ NoProduct \notin Products
    /\ \A c, d \in Ids : (SeededCards[c] # NoCard /\ SeededCards[d] # NoCard
                             /\ SeededCards[c].product = SeededCards[d].product
                             /\ SeededCards[c].product \in Products) => c = d
    /\ GroupOf \in [Products -> Groups]
    /\ Normal \in Finishes /\ IsFiniteSet(Finishes) /\ Rank \in [Finishes -> Nat]
    /\ NoImage \notin Images /\ TcgImages \subseteq Images
    /\ Ids \subseteq Nat \ {NoId}
    /\ SeededSets \subseteq Groups
    /\ SeededCards \in [Ids -> CardRec \cup {NoCard}]
    /\ Listings \subseteq ListingRec /\ Mirrors \subseteq [Products -> Listings \cup {NotListed}]
    /\ MaxEvents \in Nat
ASSUME CatalogAssumption == CatalogHolds

VARIABLES
    mirror,      \* mirror[p]: the listing of p today (external)
    recorded,    \* meta: the groups with a catalog:tcgcsv key
    sets,        \* sets: the groups that have a row
    cards,       \* cards
    printings,   \* card_variants: printings[c][f] is "none", "plain" or "default"
    job,         \* the running import of this process, and what it has read
    whole,       \* whole[g]: the listing of g when it was last recorded (observed)
    spent        \* events so far

catalogVars == <<mirror, recorded, sets, cards, printings, job, whole, spent>>

Nothing == [p \in Products |-> NotListed]
NoPrintings == [f \in Finishes |-> "none"]

\* importGame's variables.
Job == [pc : {"idle", "groups", "group", "fetch", "set", "card", "write", "print", "default", "record", "hash"},
        force : BOOLEAN, todo : SUBSET Groups, group : Groups,
        listing : [Products -> ListingRec \cup {NotListed}], adopted : BOOLEAN,
        left : SUBSET Products, product : Products, card : Ids \cup {NoId},
        variants : [Finishes -> {"none", "plain", "default"}], subtypes : SUBSET Finishes,
        added : BOOLEAN, cardsAdded : BOOLEAN]

NoJob == [pc |-> "idle", force |-> FALSE, todo |-> {}, group |-> CHOOSE g \in Groups : TRUE,
          listing |-> Nothing, adopted |-> FALSE, left |-> {}, product |-> CHOOSE p \in Products : TRUE,
          card |-> NoId, variants |-> NoPrintings, subtypes |-> {}, added |-> FALSE, cardsAdded |-> FALSE]

Running == job.pc # "idle"
Exists(c) == cards[c] # NoCard

CatalogInit ==
    /\ mirror \in Mirrors
    /\ recorded = {}
    /\ sets = SeededSets
    /\ cards = SeededCards
    /\ printings = [c \in Ids |-> IF Exists(c) THEN [NoPrintings EXCEPT ![Normal] = "default"] ELSE NoPrintings]
    /\ job = NoJob
    /\ whole = [g \in Groups |-> Nothing]
    /\ spent = 0

\* One more event.
Spend ==
    /\ spent < MaxEvents
    /\ spent' = spent + 1

-----------------------------------------------------------------------------
(* The whole import.                                                       *)

\* The owner's button, behind the check that nothing runs; the group list is fetched next.
StartImport(force) ==
    /\ ~Running
    /\ Spend
    /\ job' = [NoJob EXCEPT !.pc = "groups", !.force = force]
    /\ UNCHANGED <<mirror, recorded, sets, cards, printings, whole>>

GroupList ==
    /\ job.pc = "groups"
    /\ job' = [job EXCEPT !.pc = "group", !.todo = Groups]
    /\ UNCHANGED <<mirror, recorded, sets, cards, printings, whole, spent>>

\* The import is over: new cards have the photo index built first, awaited.
GroupsDone ==
    /\ job.pc = "group" /\ job.todo = {}
    /\ job' = IF job.cardsAdded THEN [NoJob EXCEPT !.pc = "hash"] ELSE NoJob
    /\ UNCHANGED <<mirror, recorded, sets, cards, printings, whole, spent>>

\* Mutant of ImportFails: the flag is cleared on the way out of a success only.
ImportFailsRunning ==
    /\ job.pc = "groups" \/ (job.pc = "group" /\ job.todo = {})
    /\ job' = [job EXCEPT !.pc = "groups", !.force = ~job.force]
    /\ UNCHANGED <<mirror, recorded, sets, cards, printings, whole, spent>>

\* A failure outside the groups: the list cannot be fetched, the last key not be written.
ImportFails ==
    /\ job.pc = "groups" \/ (job.pc = "group" /\ job.todo = {})
    /\ job' = NoJob
    /\ UNCHANGED <<mirror, recorded, sets, cards, printings, whole, spent>>

-----------------------------------------------------------------------------
(* One group.                                                              *)

\* The next group: the variables of this one are gone.
Leave(cardsAdded) ==
    job' = [NoJob EXCEPT !.pc = "group", !.force = job.force, !.todo = job.todo, !.cardsAdded = cardsAdded]

\* A recorded group is skipped unless the import is forced.
NextGroup(g) ==
    /\ job.pc = "group" /\ g \in job.todo
    /\ job' = [job EXCEPT !.todo = @ \ {g}, !.group = g, !.added = FALSE,
                          !.pc = IF g \in recorded /\ ~job.force THEN "group" ELSE "fetch"]
    /\ UNCHANGED <<mirror, recorded, sets, cards, printings, whole, spent>>

Singles(listing) == {p \in Products : listing[p] # NotListed}

\* Products and prices of the group; a group without singles is recorded and done.
FetchGroup ==
    /\ job.pc = "fetch"
    /\ LET listing == [p \in Products |-> IF GroupOf[p] = job.group THEN mirror[p] ELSE NotListed]
       IN  IF Singles(listing) = {}
           THEN /\ recorded' = recorded \cup {job.group}
                /\ whole' = [whole EXCEPT ![job.group] = listing]
                /\ Leave(job.cardsAdded)
           ELSE /\ job' = [job EXCEPT !.pc = "set", !.listing = listing, !.left = Singles(listing)]
                /\ UNCHANGED <<recorded, whole>>
    /\ UNCHANGED <<mirror, sets, cards, printings, spent>>

\* upsertSet: the set of a group is found or made.
UpsertSet ==
    /\ job.pc = "set"
    /\ sets' = sets \cup {job.group}
    /\ job' = [job EXCEPT !.pc = "card", !.adopted = job.group \in sets]
    /\ UNCHANGED <<mirror, recorded, cards, printings, whole, spent>>

RecordGroup ==
    /\ job.pc = "card" /\ job.left = {}
    /\ recorded' = recorded \cup {job.group}
    /\ whole' = [whole EXCEPT ![job.group] = job.listing]
    /\ Leave(job.cardsAdded \/ job.added)
    /\ UNCHANGED <<mirror, sets, cards, printings, spent>>

\* Mutant of GroupFails: a failed group is recorded like one that succeeded.
GroupFailsRecorded ==
    /\ job.pc \in {"fetch", "set", "card", "write", "print", "default"}
    /\ recorded' = recorded \cup {job.group}
    /\ whole' = [whole EXCEPT ![job.group] = job.listing]
    /\ Leave(job.cardsAdded)
    /\ UNCHANGED <<mirror, sets, cards, printings, spent>>

\* A failed fetch or statement: counted, what was written stays, the next group is tried.
GroupFails ==
    /\ job.pc \in {"fetch", "set", "card", "write", "print", "default"}
    /\ Leave(job.cardsAdded)
    /\ UNCHANGED <<mirror, recorded, sets, cards, printings, whole, spent>>

-----------------------------------------------------------------------------
(* One product.                                                            *)

\* The cards of a seeded set that product p may be: same number, no product yet.
Unclaimed(p) == {c \in Ids : Exists(c) /\ cards[c].group = job.group
                             /\ cards[c].number = NumberOf[p] /\ cards[c].product = NoProduct}

\* By product id; else, in a set that was there, by number and name, or number if only one has it.
Found(p) ==
    LET own == {c \in Ids : Exists(c) /\ cards[c].product = p}
        named == {c \in Unclaimed(p) : cards[c].name = NameOf[p]}
    IN  IF own # {} THEN own
        ELSE IF ~job.adopted THEN {}
        ELSE IF named # {} THEN named
        ELSE IF Cardinality(Unclaimed(p)) = 1 THEN Unclaimed(p) ELSE {}

FindCard(p) ==
    /\ job.pc = "card" /\ p \in job.left
    /\ \E c \in IF Found(p) = {} THEN {NoId} ELSE Found(p) :
          job' = [job EXCEPT !.pc = "write", !.left = @ \ {p}, !.product = p, !.card = c]
    /\ UNCHANGED <<mirror, recorded, sets, cards, printings, whole, spent>>

\* Another provider's image is kept.
KeepImg(c) == cards[c].image \notin TcgImages \cup {NoImage}

\* One sub-type a price, or "Normal" when nothing is priced.
Subtypes(p) == IF job.listing[p].finishes = {} THEN {Normal} ELSE job.listing[p].finishes

\* The row is updated or inserted, and the printings it has are read: only an import writes them.
WriteCard ==
    /\ job.pc = "write"
    /\ LET p == job.product
           new == job.card = NoId
           free == {c \in Ids : ~Exists(c)}
           c == IF new THEN Min(free) ELSE job.card
           image == IF ~new /\ KeepImg(c) THEN cards[c].image ELSE job.listing[p].image
       IN  /\ new => free # {}
           /\ cards' = [cards EXCEPT ![c] =
                  [group |-> IF new THEN job.group ELSE cards[c].group, product |-> p,
                   name |-> NameOf[p], number |-> NumberOf[p], image |-> image]]
           /\ job' = [job EXCEPT !.pc = "print", !.card = c, !.added = @ \/ new,
                                 !.variants = printings[c], !.subtypes = Subtypes(p)]
    /\ UNCHANGED <<mirror, recorded, sets, printings, whole, spent>>

\* A sub-type whose printing is not there is inserted, never as the default.
AddVariant(f) ==
    /\ job.pc = "print" /\ f \in job.subtypes
    /\ LET new == job.variants[f] = "none"
           left == job.subtypes \ {f}
       IN  /\ printings' = IF new THEN [printings EXCEPT ![job.card][f] = "plain"] ELSE printings
           /\ job' = [job EXCEPT !.variants[f] = IF new THEN "plain" ELSE @, !.subtypes = left,
                                 !.pc = IF left = {} THEN "default" ELSE "print"]
    /\ UNCHANGED <<mirror, recorded, sets, cards, whole, spent>>

Have(variants) == {f \in Finishes : variants[f] # "none"}

\* A card needs one default printing: the best-ranked finish that exists.
SetDefault ==
    /\ job.pc = "default"
    /\ LET have == Have(job.variants)
       IN  \E best \in {f \in have : \A g \in have : Rank[f] <= Rank[g]} :
              printings' = IF \E f \in have : job.variants[f] = "default" THEN printings
                           ELSE [printings EXCEPT ![job.card][best] = "default"]
    /\ job' = [job EXCEPT !.pc = "card", !.card = NoId, !.variants = NoPrintings]
    /\ UNCHANGED <<mirror, recorded, sets, cards, whole, spent>>

-----------------------------------------------------------------------------

\* The mirror lists another product, prices another printing or shows another image.
MirrorMoves(p, l) ==
    /\ Spend
    /\ l # mirror[p]
    /\ mirror' = [mirror EXCEPT ![p] = l]
    /\ UNCHANGED <<recorded, sets, cards, printings, job, whole>>

ProductSteps ==
    \/ \E p \in Products : FindCard(p)
    \/ WriteCard
    \/ \E f \in Finishes : AddVariant(f)
    \/ SetDefault

GroupSteps == (\E g \in Groups : NextGroup(g)) \/ FetchGroup \/ UpsertSet \/ RecordGroup \/ GroupFails

ImportSteps == GroupList \/ GroupsDone \/ ImportFails \/ GroupSteps \/ ProductSteps

CatalogOwner ==
    \/ \E force \in BOOLEAN : StartImport(force)
    \/ \E p \in Products, l \in Listings : MirrorMoves(p, l)

-----------------------------------------------------------------------------
(* Properties.                                                             *)

CatalogTypes ==
    /\ mirror \in [Products -> ListingRec \cup {NotListed}]
    /\ recorded \subseteq Groups /\ sets \subseteq Groups
    /\ cards \in [Ids -> CardRec \cup {NoCard}]
    /\ printings \in [Ids -> [Finishes -> {"none", "plain", "default"}]]
    /\ job \in Job
    /\ whole \in [Groups -> [Products -> ListingRec \cup {NotListed}]]
    /\ spent \in Nat

CardsOf(p) == {c \in Ids : Exists(c) /\ cards[c].product = p}
Defaults(c) == {f \in Finishes : printings[c][f] = "default"}

\* A group that later imports skip is whole: every single it listed when it was recorded has
\* one card, with every priced printing and one default among them; and whatever stopped,
\* failed or was tried again, no product has two cards and no card two default printings.
RecordedWhole ==
    /\ \A p \in Products : Cardinality(CardsOf(p)) <= 1
    /\ \A c \in Ids : Cardinality(Defaults(c)) <= 1
    /\ \A g \in recorded : \A p \in Singles(whole[g]) : \E c \in CardsOf(p) :
          whole[g][p].finishes \subseteq Have(printings[c]) /\ Defaults(c) # {}

=============================================================================
