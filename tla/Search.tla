------------------------------- MODULE Search -------------------------------
(***************************************************************************)
(* The public catalog search (search.ts) and the links of its page         *)
(* (render/pages.ts renderSearch): a visitor asks, follows facet links,    *)
(* removes chips, sets a price range, turns pages.  The page's whole state *)
(* is the address: the parameters below.                                   *)
(*                                                                         *)
(* A search reads one state of the catalog; its several statements are not *)
(* told apart.  What the query parser (app/identify.ts) makes of a text is *)
(* data: a query is what it understood.  Sorting is left out, and the cuts *)
(* at 12 sets and 14 rarities are beyond the bounds.                       *)
(***************************************************************************)
EXTENDS PriceSync

CONSTANTS
    Queries,   \* texts a visitor may type: [terms, number, grade, game, set, finish]
    GameOf,    \* [the sets -> games]
    RarityOf,  \* [Cards -> rarities]
    WordsOf,   \* [Cards -> SUBSET words]: what search_text contains
    CloseTo,   \* [Cards -> SUBSET words]: the words its name is trigram-close to
    Ranges,    \* price ranges a visitor may type: <<min, max>>, NoBound for a blank box
    PageSize

Blank == "any"
NoBound == 0     \* a blank price box; the prices typed are positive
Dims == {"game", "set", "rarity", "finish"}
NoQuery == [terms |-> {}, number |-> NoNumber, grade |-> None, game |-> Blank, set |-> Blank, finish |-> Blank]

\* "any" is what an address says of no dimension: it is not the name of a value.
SearchHolds ==
    /\ \A q \in Queries : DOMAIN q = DOMAIN NoQuery
    /\ PageSize \in Nat \ {0}
    /\ Blank \notin {GameOf[s] : s \in AllSets} \cup AllSets \cup {RarityOf[c] : c \in Cards} \cup Finishes
ASSUME SearchAssumption == SearchHolds

VARIABLE address   \* the parameters of the page the visitor is on

AskFor(q) == [q |-> q, game |-> Blank, set |-> Blank, rarity |-> Blank, finish |-> Blank,
              min |-> NoBound, max |-> NoBound, page |-> 1]

SearchInit == address = AskFor(NoQuery)

-----------------------------------------------------------------------------
(* search().                                                               *)

\* Mutant of Effective: what the query says wins over the link that was followed.
EffectiveQueryFirst(p) ==
    [p EXCEPT !.game = IF p.q.game # Blank THEN p.q.game ELSE @,
              !.set = IF p.q.set # Blank THEN p.q.set ELSE @,
              !.finish = IF p.q.finish # Blank THEN p.q.finish ELSE @]

\* "Explicit params, back-filled by what the query text said. Explicit always wins".
Effective(p) ==
    [p EXCEPT !.game = IF @ = Blank THEN p.q.game ELSE @,
              !.set = IF @ = Blank THEN p.q.set ELSE @,
              !.finish = IF @ = Blank THEN p.q.finish ELSE @]

\* priceJoin: the highest market price of any printing, ungraded or of the grade asked for;
\* a range leaves out the cards that have none.
PricesOf(c, grade) == {r.cents : r \in {x \in rows : x.card = c /\ x.kind = "market" /\ x.grade = grade}}
InRange(p, c) ==
    /\ p.min # NoBound => \E x \in PricesOf(c, p.q.grade) : x >= p.min
    /\ p.max # NoBound => PricesOf(c, p.q.grade) # {} /\ \A x \in PricesOf(c, p.q.grade) : x <= p.max

\* buildWhere, with one dimension's filter left out.
HasText(p, c, fuzzy) ==
    /\ IF fuzzy /\ p.q.terms # {} THEN p.q.terms \cap CloseTo[c] # {} ELSE p.q.terms \subseteq WordsOf[c]
    /\ p.q.number # NoNumber => CardNumber[c] = p.q.number
ValuesOf(c, dim) ==
    CASE dim = "game" -> {GameOf[SetOf[c]]}
      [] dim = "set" -> {SetOf[c]}
      [] dim = "rarity" -> {RarityOf[c]} \ {None}
      [] dim = "finish" -> finishes[c]
Where(p, without, fuzzy) ==
    LET e == Effective(p)
    IN  {c \in Cards : /\ HasText(p, c, fuzzy) /\ InRange(p, c)
                       /\ \A d \in Dims \ {without} : e[d] = Blank \/ e[d] \in ValuesOf(c, d)}

\* Exact first; when nothing is found the words are taken as close matches, if that helps.
Fuzzy(p) ==
    /\ Where(p, None, FALSE) = {} /\ p.q.terms # {}
    /\ Where(p, None, TRUE) # {}
Found(p) == Where(p, None, Fuzzy(p))
Pages(p) == Max({1, (Cardinality(Found(p)) + PageSize - 1) \div PageSize})

\* The facets: every value of a dimension, counted with the dimension's own filter removed.
Counted(p, dim, k) == Cardinality({c \in Where(p, dim, Fuzzy(p)) : k \in ValuesOf(c, dim)})
Facet(p, dim) == UNION {ValuesOf(c, dim) : c \in Where(p, dim, Fuzzy(p))}

\* "Did you mean", when not even the close matches found a card.
Suggestions(p) ==
    IF Found(p) = {} /\ p.q.terms # {} THEN {c \in Cards : p.q.terms \cap CloseTo[c] # {}} ELSE {}

-----------------------------------------------------------------------------
(* The page's links.                                                       *)

\* A facet option: on, or off when it is the active one; the page starts again.
Follow(p, dim, k) ==
    [p EXCEPT ![dim] = IF Effective(p)[dim] = k THEN Blank ELSE k, !.page = 1]

Visit(p) == address' = p /\ UNCHANGED syncVars

\* The search box of the page's head sends the text alone.
TypeText == \E q \in Queries : Visit(AskFor(q))
FollowFacet == \E dim \in Dims : \E k \in Facet(address, dim) : Visit(Follow(address, dim, k))
\* A chip's x; the price chip removes a parameter the address does not have.
RemoveChip == \E dim \in Dims : address[dim] # Blank /\ Visit([address EXCEPT ![dim] = Blank, !.page = 1])
RemovePriceChip == (address.min # NoBound \/ address.max # NoBound) /\ Visit([address EXCEPT !.page = 1])
SetRange == \E r \in Ranges : Visit([address EXCEPT !.min = r[1], !.max = r[2], !.page = 1])
ClearAll == Visit(AskFor(address.q))
TurnPage == \E n \in 1..Pages(address) : n # address.page /\ Visit([address EXCEPT !.page = n])
DidYouMean ==
    \E c \in Suggestions(address) : \E q \in Queries : q.terms = WordsOf[c] /\ Visit(AskFor(q))

SearchNext ==
    \/ TypeText \/ FollowFacet \/ RemoveChip \/ RemovePriceChip \/ SetRange \/ ClearAll \/ TurnPage
    \/ DidYouMean

\* A visitor searches at any moment of a sync, and between two of them.
SiteInit == MarketInit /\ SearchInit
SiteNext == (MarketNext /\ UNCHANGED address) \/ SearchNext
SiteSpec == SiteInit /\ [][SiteNext]_<<syncVars, address>>

-----------------------------------------------------------------------------
(* Properties.                                                             *)

\* "Each dimension counted with its own filter removed": the number beside a facet option is
\* the number of cards its link leads to, whatever text, chips and price range are in force,
\* unless the cards shown are close matches.
FacetsHonest ==
    ~Fuzzy(address) =>
        \A dim \in Dims : \A k \in Facet(address, dim) \ {Effective(address)[dim]} :
            Cardinality(Found(Follow(address, dim, k))) = Counted(address, dim, k)

=============================================================================
