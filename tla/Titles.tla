-------------------------------- MODULE Titles --------------------------------
(***************************************************************************)
(* A listing's title (app/title.ts, app/listing.ts, app/compose.ts): from  *)
(* the seller's title structure, else from a template, else put together   *)
(* by the built-in rules, and brought within eBay's limit.                 *)
(*                                                                         *)
(* A title is a sequence of parts; what matters of a part is its key, its  *)
(* length (0: nothing to say) and its rank among what may be dropped.      *)
(***************************************************************************)
EXTENDS Integers, SequencesExt, FiniteSetsExt

CONSTANTS
    Printings,   \* what the catalog says of a card: the lengths of its fields
    Copies,      \* what the seller's copy adds: condition, grade, cert, sku, language
    Structures,  \* title structures: blocks, optimize
    Templates,   \* templates: sequences of {placeholders} and texts
    Overrides,   \* lengths of the titles a seller types
    Budget       \* 80: EBAY_TITLE_MAX and TITLE_MAX

\* TITLE_TOKENS: the higher, the sooner it is dropped; a custom text is at 55.
Rank == [name |-> 0, number |-> 0, grade |-> 15, condition |-> 25, finish |-> 35,
         rarity |-> 45, language |-> 50, text |-> 55, setcode |-> 60, set |-> 70,
         game |-> 78, year |-> 85, sku |-> 95]
NeverDrop == {"name", "number"}

VARIABLES
    pc,       \* "idle", "picked", "structure", "drop", "builtin", "cut", "done"
    face,     \* listingFields: the lengths of everything a title may say
    way,      \* where this title came from
    blocks,   \* the parts, or the built-in's leading ones
    tail,     \* the built-in's parts after the number
    anchored  \* the name and number it was to say: history
titles == <<pc, face, way, blocks, tail, anchored>>

-----------------------------------------------------------------------------
(* Parts.                                                                  *)

Part(k, len) == [k |-> k, len |-> len]

\* The parts at those places, in their order.
Those(parts, places) ==
    LET upto[n \in 0..Len(parts)] ==
            IF n = 0 THEN <<>> ELSE IF n \in places THEN Append(upto[n - 1], parts[n]) ELSE upto[n - 1]
    IN  upto[Len(parts)]

\* The parts that say something, and those that are never dropped.
Said(parts) == Those(parts, {i \in DOMAIN parts : parts[i].len > 0})
Anchored(parts) == Those(parts, {i \in DOMAIN parts : parts[i].k \in NeverDrop})

\* Joined with spaces.
Joined(said) ==
    LET chars[n \in 0..Len(said)] ==
            IF n = 0 THEN 0 ELSE (IF n = 1 THEN 0 ELSE chars[n - 1] + 1) + said[n].len
    IN  chars[Len(said)]
Length(parts) == Joined(Said(parts))

\* What a cut leaves whole.
Whole(parts) ==
    LET said == Said(parts)
    IN  SubSeq(said, 1, Max({i \in 0..Len(said) : Joined(SubSeq(said, 1, i)) <= Budget}))

\* listingFields: without a grade there is no grader and no cert.
Face(p, c) ==
    [k \in DOMAIN p \cup DOMAIN c |->
        IF k \in {"grader", "cert"} /\ c.grade = 0 THEN 0 ELSE IF k \in DOMAIN c THEN c[k] ELSE p[k]]

\* tokenValue: a slab has no condition, English goes without saying.
TokenValue(k, f) ==
    CASE k = "condition" -> IF f.grade > 0 THEN 0 ELSE f.condition
      [] k = "language" -> IF f.english THEN 0 ELSE f.language
      [] OTHER -> f[k]

Abbreviated(f) == IF f.rarityabbr > 0 THEN f.rarityabbr ELSE f.rarity

\* buildTitle's fill: an unknown placeholder says nothing.
Fill(template, f) ==
    [i \in DOMAIN template |->
        IF template[i].k = "text" THEN template[i]
        ELSE Part(template[i].k, IF template[i].k \in DOMAIN f THEN f[template[i].k] ELSE 0)]

\* The fields of a card have lengths, and a structure is a sequence of parts.
Fields == DOMAIN Rank \ {"text"}
PartRec == [k : DOMAIN Rank, len : Nat]
Measured(f) == (\A k \in Fields : f[k] \in Nat) /\ f.rarityabbr \in Nat
TitleHolds ==
    /\ Budget \in Nat
    /\ \A p \in Printings, c \in Copies : Measured(Face(p, c))
    /\ \A st \in Structures : st.blocks \in Seq(PartRec) /\ st.optimize \in BOOLEAN
ASSUME TitlesAssumption == TitleHolds

-----------------------------------------------------------------------------
(* The ways to a title, in their order of precedence.                      *)

TitlesInit ==
    /\ pc = "idle" /\ way = "none"
    /\ face = <<>>
    /\ blocks = <<>> /\ tail = <<>> /\ anchored = <<>>

\* A copy of a printing is given a title.
PickCopy(p, c) ==
    /\ pc = "idle" /\ pc' = "picked"
    /\ face' = Face(p, c)
    /\ UNCHANGED <<way, blocks, tail, anchored>>

NameAndNumber == Said(<<Part("name", face.name), Part("number", face.number)>>)

Begin(next, how, parts, after) ==
    /\ pc = "picked" /\ pc' = next /\ way' = how
    /\ blocks' = parts /\ tail' = after
    /\ anchored' = IF next = "builtin" THEN NameAndNumber ELSE Anchored(parts)
    /\ UNCHANGED face

Structured(st) ==
    Begin(IF st.optimize THEN "structure" ELSE "cut", IF st.optimize THEN "structure" ELSE "as is",
          Said([i \in DOMAIN st.blocks |->
                   IF st.blocks[i].k = "text" THEN st.blocks[i]
                   ELSE Part(st.blocks[i].k, TokenValue(st.blocks[i].k, face))]), <<>>)

FromTemplate(template) == Begin("cut", "template", Fill(template, face), <<>>)

\* Year, game and set; after the number the rarity (unless the finish says it), the
\* finish, the grade or condition and the language (unless the game says it).
BuiltIn ==
    Begin("builtin", "builtin",
          <<Part("year", face.year), Part("game", face.game),
            IF face.setcode > 0 THEN Part("setcode", face.setcode) ELSE Part("set", face.set)>>,
          Said(<<Part("rarity", IF face.finishsays THEN 0 ELSE face.rarityabbr), Part("finish", face.finish)>>)
            \o <<IF face.grade > 0 THEN Part("grade", face.grade) ELSE Part("condition", face.condition)>>
            \o (IF face.gamesays THEN <<>> ELSE <<Part("language", face.language)>>))

\* sellerTitle: the structure, if it has blocks; else the template, if there is one.
SellerTitle(st, template) ==
    IF st.blocks # <<>> THEN Structured(st)
    ELSE IF template # <<>> THEN FromTemplate(template) ELSE BuiltIn

\* The listing builder: a title that was typed, or the template it was asked with.
Typed(len) == Begin("cut", "typed", <<Part("typed", len)>>, <<>>)

-----------------------------------------------------------------------------
(* Bringing it within the budget.                                          *)

\* renderStructuredTitle: the rarity is abbreviated first.
Abbreviate ==
    /\ pc = "structure"
    /\ pc' = IF Length(blocks) > Budget THEN "drop" ELSE "cut"
    /\ blocks' = IF Length(blocks) > Budget
                 THEN [i \in DOMAIN blocks |-> IF blocks[i].k = "rarity" THEN Part("rarity", Abbreviated(face)) ELSE blocks[i]]
                 ELSE blocks
    /\ UNCHANGED <<face, way, tail, anchored>>

Droppable == {i \in DOMAIN blocks : blocks[i].k \notin NeverDrop}

\* Mutant of DropBlock: blocks are dropped from the end.
DropLast ==
    /\ pc = "drop"
    /\ IF Length(blocks) > Budget /\ blocks # <<>>
       THEN blocks' = Front(blocks) /\ UNCHANGED pc
       ELSE pc' = "cut" /\ UNCHANGED blocks
    /\ UNCHANGED <<face, way, tail, anchored>>

\* The first of those with the highest rank goes.
DropBlock ==
    /\ pc = "drop"
    /\ IF Length(blocks) > Budget /\ Droppable # {}
       THEN LET rank(i) == Rank[blocks[i].k]
                i == Min({j \in Droppable : \A h \in Droppable : rank(h) <= rank(j)})
            IN  blocks' = RemoveAt(blocks, i) /\ UNCHANGED pc
       ELSE pc' = "cut" /\ UNCHANGED blocks
    /\ UNCHANGED <<face, way, tail, anchored>>

Assembled == blocks \o NameAndNumber \o tail

\* The built-in drops from the end of the tail, all but its first, then from the front.
DropToken ==
    /\ pc = "builtin"
    /\ IF Length(Assembled) > Budget /\ (Len(tail) > 1 \/ blocks # <<>>)
       THEN /\ IF Len(tail) > 1 THEN tail' = Front(tail) /\ UNCHANGED blocks
               ELSE blocks' = Tail(blocks) /\ UNCHANGED tail
            /\ UNCHANGED pc
       ELSE pc' = "cut" /\ blocks' = Assembled /\ tail' = <<>>
    /\ UNCHANGED <<face, way, anchored>>

CutTitle ==
    /\ pc = "cut"
    /\ pc' = "done"
    /\ blocks' = Whole(blocks)
    /\ UNCHANGED <<face, way, tail, anchored>>

TitlesNext ==
    \/ \E p \in Printings, c \in Copies : PickCopy(p, c)
    \/ \E st \in Structures, template \in Templates : SellerTitle(st, template)
    \/ \E template \in Templates : FromTemplate(template)
    \/ \E len \in Overrides : Typed(len)
    \/ Abbreviate \/ DropBlock \/ DropToken \/ CutTitle

TitlesSpec == TitlesInit /\ [][TitlesNext]_titles

-----------------------------------------------------------------------------
(* Properties.                                                             *)

\* "Never removing the card name or number": a title put together by the built-in
\* rules, or by a structure with "optimize" on, says the whole name and the whole
\* number wherever they were to stand, whatever else is long, if those alone fit.
NameKept ==
    pc = "done" /\ way \in {"structure", "builtin"} /\ Length(anchored) <= Budget =>
        \A i \in DOMAIN anchored : anchored[i] \in ToSet(blocks)

=============================================================================
