------------------------------ MODULE MCPublish ------------------------------
(***************************************************************************)
(* A small instance of Publish for TLC: two listings, in two worlds; of    *)
(* the stock and its listings; and of titles.  They share no state: a      *)
(* behaviour is about one of them.                                         *)
(***************************************************************************)
EXTENDS Publish, Stock, Titles, TLC

CONSTANTS clock, seller

None == [k \in Kinds |-> 0]

\* The timer beside the seller's run-due button, one due listing per run, calls failing.
BesideTheTimer ==
    [timer |-> TRUE, limit |-> 1,
     budget |-> [None EXCEPT !["create"] = 2, !["run"] = 1, !["mark"] = 1, !["automatic"] = 1],
     fails |-> {"publish"}, lost |-> {}, dies |-> {}]

\* One request at a time, calls failing cleanly, stops where nothing is left unwritten.
InTurns ==
    [timer |-> FALSE, limit |-> 2,
     budget |-> [None EXCEPT !["create"] = 2, !["schedule"] = 1, !["unschedule"] = 1, !["run"] = 2,
                             !["publish"] = 2, !["end"] = 2, !["export"] = 1, !["connect"] = 1],
     fails |-> {"prepare", "offer", "withdraw"}, lost |-> {},
     dies |-> {"run", "offer", "bump", "withdraw"}]

TwoWorlds == {BesideTheTimer, InTurns}

-----------------------------------------------------------------------------
(* Cards whose fields are long and short, against a budget of 24.          *)

Printed == [year |-> 4, game |-> 7, set |-> 9, setcode |-> 0, name |-> 9, number |-> 4, rarity |-> 9,
            rarityabbr |-> 2, finish |-> 4, finishsays |-> FALSE, gamesays |-> FALSE]
Cards ==
    {[Printed EXCEPT !.name = n, !.number = i, !.setcode = c, !.finishsays = f, !.rarityabbr = r] :
        n \in {9, 14, 25}, i \in {0, 4}, c \in {0, 2}, f \in BOOLEAN, r \in {0, 2}}
RawAndGraded ==
    {[condition |-> 2, conditionlabel |-> 9, grade |-> g, grader |-> 3, cert |-> 5, sku |-> 6,
      language |-> 7, english |-> e] : g \in {0, 5}, e \in BOOLEAN}

Block(k) == [k |-> k, len |-> 0]
Custom(len) == [k |-> "text", len |-> len]
Default == <<Block("year"), Block("game"), Block("setcode"), Block("name"), Block("number"),
             Block("rarity"), Block("finish"), Block("condition"), Block("language")>>
Layouts ==
    {[blocks |-> <<>>, optimize |-> TRUE],
     [blocks |-> Default, optimize |-> TRUE], [blocks |-> Default, optimize |-> FALSE],
     [blocks |-> <<Custom(12), Block("set"), Block("rarity"), Block("number"), Block("sku"),
                   Block("grade"), Block("name")>>, optimize |-> TRUE],
     [blocks |-> <<Block("name"), Block("year"), Block("number"), Block("name")>>, optimize |-> TRUE]}
Fillings == {<<>>, <<Block("set"), Custom(3), Block("name"), Block("price"), Block("cert")>>}

InitAll == Init /\ StockInit /\ TitlesInit

\* Nothing was listed, stocked or titled yet.
Unpublished == world = InTurns /\ asked = None /\ \A s \in Sessions : sess[s] = Idle
Unstocked == made = 0 /\ \A r \in Rows : row[r] = "in_stock"
Untitled == pc = "idle"

Alone(A) == Unstocked /\ Untitled /\ A /\ UNCHANGED <<stock, titles>>

NextAll ==
    \/ Alone(Next)
    \/ Unpublished /\ Untitled /\ StockNext /\ UNCHANGED <<vars, titles>>
    \/ Unpublished /\ Unstocked /\ TitlesNext /\ UNCHANGED <<vars, stock>>

\* The fairness of Publish, where a behaviour is about it.
FairAll ==
    /\ InitAll /\ [][NextAll]_<<vars, stock, titles>>
    /\ WF_vars(Alone(RunStart(Clock) /\ UNCHANGED world))
    /\ \A s \in Sessions : WF_vars(Alone(Steps(s) /\ UNCHANGED world))

=============================================================================
