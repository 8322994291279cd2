------------------------------- MODULE Identify -------------------------------
(***************************************************************************)
(* Matching a typed card line against the catalog (app/identify.ts,        *)
(* app/matching.ts, util.ts): the line is taken apart, candidates are      *)
(* fetched, scored and ranked, and the best is auto-matched, sent to       *)
(* review or failed.                                                       *)
(*                                                                         *)
(* A line is a sequence of tokens: words, and phrases such as "near mint"  *)
(* or "psa 10" that one rule takes out whole.  What the text of a word     *)
(* says is given by relations between words.  Scores are in ten-           *)
(* thousandths, rounded down.  A query has no ORDER BY and a limit, so     *)
(* which rows it returns, and in which order, is any choice.               *)
(***************************************************************************)
EXTENDS Integers, SequencesExt, FiniteSetsExt

CONSTANTS
    Cards,           \* Cards[c]: name, set, number, search (the words of search_text), printings
    Sets,            \* Sets[s]: name, game
    Rules,           \* Rules[kind]: parseInput's patterns in order, each a function from tokens to values
    Part(_, _),      \* is the text of one word part of another's?
    Cut(_, _),       \* the words left of one when another is cut out of it
    Typo(_, _),      \* are two words a typo or two apart?
    Letters(_),      \* the length of a word
    Similar(_, _),   \* 1 - levenshtein / length, of some words and a name
    Trigrams(_, _),  \* does pg_trgm call some words and a name alike?
    SetPrefixes,     \* number prefixes that name a set ("OP11-")
    SetNamed,        \* SetNamed[term]: the set a typed name stands for
    Lines,           \* what may be typed
    Forms,           \* the Advanced Matching Options as they may be typed
    Limit,           \* 80: rows a query returns
    Shortlist,       \* 6: candidates looked at
    MaxList          \* 20: entries of an option

None == "none"
NoNumber == [idx |-> -1, pre |-> None, of |-> 0]

One == 10000
Auto == 9000      \* AUTO_THRESHOLD
MinMatch == 5000  \* MIN_MATCH
Window == 1000    \* LANGUAGE_PREFER_WINDOW

VARIABLES
    line,   \* the line looked up
    prefs,  \* the options it was looked up with
    found   \* what came of it

lookup == <<line, prefs, found>>

-----------------------------------------------------------------------------
(* parseInput: each kind of detail is taken out by its first rule that     *)
(* finds something; what is taken out is the first place its text stands.  *)

Eat(words, rules, otherwise) ==
    LET at(i) == {w \in DOMAIN words : words[w] \in DOMAIN rules[i]}
        firing == {i \in DOMAIN rules : at(i) # {}}
    IN  IF firing = {} THEN [value |-> otherwise, left |-> words]
        ELSE LET i == Min(firing)
                 text == words[Min(at(i))]
                 w == Min({v \in DOMAIN words : Part(text, words[v])})
             IN  [value |-> rules[i][text],
                  left |-> SubSeq(words, 1, w - 1) \o Cut(words[w], text) \o SubSeq(words, w + 1, Len(words))]

Stop == {"the", "a", "an", "of", "and", "card", "tcg"}

Parse(l) ==
    LET quantity == Eat(l, Rules.quantity, 1)
        grade == Eat(quantity.left, Rules.grade, None)
        finish == Eat(grade.left, Rules.finish, None)
        condition == Eat(finish.left, Rules.condition, None)
        language == Eat(condition.left, Rules.language, None)
        number == Eat(language.left, Rules.number, NoNumber)
    IN  [terms |-> SelectSeq(number.left, LAMBDA w : w \notin Stop),
         number |-> number.value, quantity |-> quantity.value, grade |-> grade.value,
         condition |-> condition.value, finish |-> finish.value, language |-> language.value, set |-> None]

-----------------------------------------------------------------------------
(* numberMatch: how a typed number fits a card's; 0 when either is missing. *)

Fit(want, have) ==
    CASE want = NoNumber \/ have = NoNumber -> 0
      [] want = have -> One
      [] want.idx # have.idx -> 0
      [] want.pre = None /\ want.of = 0 -> One
      [] have.pre = None /\ have.of = 0 -> 8000
      [] OTHER -> 3500

-----------------------------------------------------------------------------
(* matchSet: the longest run of the line's words that is a set's name,     *)
(* with "set" after it or not, or two words or more of it.                 *)

Runs(words) ==
    {words} \cup (IF Last(words) = "set" THEN {} ELSE {Append(words, "set")})
        \cup {r \in {SubSeq(words, i, j) : i, j \in DOMAIN words} : Len(r) >= 2}

Spoken(terms) ==
    {g \in [set : DOMAIN Sets, at : 1..Len(terms), len : 1..Len(terms)] :
        /\ g.at + g.len - 1 <= Len(terms)
        /\ SubSeq(terms, g.at, g.at + g.len - 1) \in Runs(Sets[g.set].name)}

\* The set the line speaks, its words taken out; which of several of one length, the
\* rows' order decides.  A number that names its set leaves no guess, nor does a line
\* of nothing else.
Guesses(p) ==
    LET spoken == IF p.number.pre \in SetPrefixes THEN {} ELSE Spoken(p.terms)
        longest == {g \in spoken : \A h \in spoken : h.len <= g.len}
        without(g) == SubSeq(p.terms, 1, g.at - 1) \o SubSeq(p.terms, g.at + g.len, Len(p.terms))
    IN  IF spoken = {} THEN {p}
        ELSE {IF without(g) = <<>> THEN p ELSE [p EXCEPT !.set = g.set, !.terms = without(g)] : g \in longest}

-----------------------------------------------------------------------------
(* fetchRows: every word, and the typed number's own rows added; else the  *)
(* longest word; else a typo apart; else the number alone.                 *)

AnyOf(rows) == IF Cardinality(rows) <= Limit THEN {rows} ELSE kSubset(Limit, rows)
Has(c, w) == \E h \in Cards[c].search : Part(w, h)
Numbered(rows, number) == {c \in rows : number # NoNumber /\ Cards[c].number.idx = number.idx}

LongestWord(terms) ==
    terms[Min({i \in DOMAIN terms : \A j \in DOMAIN terms : Letters(terms[j]) <= Letters(terms[i])})]

\* Mutant of Fetch: the rows of the typed number are not added.
FetchFew(p) ==
    LET from == {c \in DOMAIN Cards : p.set \in {None, Cards[c].set}}
        terms == SelectSeq(p.terms, LAMBDA w : Letters(w) >= 2)
        every == {c \in from : terms # <<>> /\ \A w \in ToSet(terms) : Has(c, w)}
    IN  IF every # {} THEN AnyOf(every) ELSE {{}}

Fetch(p) ==
    LET from == {c \in DOMAIN Cards : p.set \in {None, Cards[c].set}}
        terms == SelectSeq(p.terms, LAMBDA w : Letters(w) >= 2)
        every == {c \in from : terms # <<>> /\ \A w \in ToSet(terms) : Has(c, w)}
        longest == {c \in from : p.terms # <<>> /\ Has(c, LongestWord(p.terms))}
        near == {c \in from : terms # <<>> /\ Trigrams(terms, Cards[c].name)}
    IN  CASE every # {} -> {a \cup b : a \in AnyOf(every), b \in AnyOf(Numbered(every, p.number))}
          [] every = {} /\ longest # {} -> AnyOf(longest)
          [] every = {} /\ longest = {} /\ near # {} -> AnyOf(near)
          [] OTHER -> AnyOf(Numbered(from, p.number))

-----------------------------------------------------------------------------
(* scoreRow, and the boosts of the matching options.                       *)

Meets(a, b) == Part(a, b) \/ Part(b, a) \/ Typo(a, b)
Share(seq, words) == (One * Cardinality({i \in DOMAIN seq : \E w \in words : Meets(seq[i], w)})) \div Len(seq)

Hay(c) == ToSet(Cards[c].name) \cup ToSet(Sets[Cards[c].set].name)

ScoreRow(p, c) ==
    LET recall == Share(Cards[c].name, ToSet(p.terms))
        precision == IF p.terms = <<>> THEN recall ELSE Share(p.terms, Hay(c) \cup {Sets[Cards[c].set].game})
        similarity == IF p.terms = <<>> THEN 0 ELSE Similar(p.terms, Cards[c].name)
        text == (50 * recall + 35 * precision + 15 * similarity) \div 100
        number == IF Cards[c].number = NoNumber THEN 2000 ELSE Fit(p.number, Cards[c].number)
    IN  IF p.number = NoNumber THEN text ELSE (75 * text + 25 * number) \div 100

Says(c, terms) == {t \in terms : \E h \in Hay(c) : Part(t, h)}

Score(p, o, c) ==
    Min({One, ScoreRow(p, c) + (IF Cards[c].set \in o.boostSets THEN 1000 ELSE 0)
                             + 500 * Cardinality(Says(c, o.boostTerms))})

Allowed(o, rows) ==
    {c \in rows : /\ o.game \in {None, Sets[Cards[c].set].game}
                  /\ Cards[c].set \notin o.outSets
                  /\ Says(c, o.outTerms) = {}}

\* prefsFromForm: names of sets the catalog knows, terms, each list cut at MaxList.
PrefsOf(form) ==
    LET list(xs) == LET seen == SelectSeq([i \in DOMAIN xs |-> i], LAMBDA i : \A j \in 1..(i - 1) : xs[j] # xs[i])
                    IN  {xs[seen[i]] : i \in 1..Min({MaxList, Len(seen)})}
        sets(xs) == {SetNamed[x] : x \in list(xs) \cap DOMAIN SetNamed}
    IN  [boostSets |-> sets(form.boostSets), outSets |-> sets(form.outSets),
         boostTerms |-> list(form.boostTerms), outTerms |-> list(form.outTerms), game |-> form.game]

-----------------------------------------------------------------------------
(* pickVariant and the ranking.                                            *)

\* In the typed language when the card has that; the typed finish, or one that holds it
\* or is held by it; else the default printing, else the first.
PickVariant(c, finish, language) ==
    LET all == Cards[c].printings
        spoken == {i \in DOMAIN all : all[i].language = language}
        vs == IF spoken = {} THEN DOMAIN all ELSE spoken
        exact == {i \in vs : all[i].finish = finish}
        partial == {i \in vs : Part(all[i].finish, finish) \/ Part(finish, all[i].finish)}
        default == {i \in vs : all[i].default}
    IN  CASE exact # {} -> Min(exact)
          [] exact = {} /\ partial # {} -> Min(partial)
          [] exact = {} /\ partial = {} /\ default # {} -> Min(default)
          [] OTHER -> Min(vs)

Speaks(c, language) == \E v \in ToSet(Cards[c].printings) : v.language = language

\* Best score first, the typed language first among equals, equals in any order.
Ranked(p, o, rows) ==
    LET rank(c) == 2 * Score(p, o, c) + (IF Speaks(c, p.language) THEN 1 ELSE 0)
        n == Min({Shortlist, Cardinality(rows)})
    IN  {s \in [1..n -> rows] :
            /\ \A i, j \in 1..n : i < j => s[i] # s[j] /\ rank(s[i]) >= rank(s[j])
            /\ \A c \in rows \ ToSet(s) : \A i \in 1..n : rank(s[i]) >= rank(c)}

\* A printing in the typed language goes first within a Window of the top score.
Preferred(p, o, cands) ==
    LET near == {i \in DOMAIN cands : /\ Speaks(cands[i], p.language)
                                      /\ Score(p, o, cands[i]) >= Score(p, o, cands[1]) - Window}
    IN  IF near = {} THEN cands ELSE <<cands[Min(near)]>> \o RemoveAt(cands, Min(near))

\* The top score, sharpened by its margin over the next, no lower than .92 (.9) when
\* the number (the spoken set) bears it out.
Confidence(p, o, cands) ==
    LET top == Score(p, o, cands[1])
        margin == top - Score(p, o, cands[2])
        alone == Len(cands) = 1
        sharpened == IF alone THEN top ELSE (top * (8000 + (2000 * Min({1200, margin})) \div 1200)) \div One
        sure == top >= 6000
        number == IF sure /\ Fit(p.number, Cards[cands[1]].number) >= 8000 THEN {9200} ELSE {}
        set == IF sure /\ p.set # None /\ Cards[cands[1]].set = p.set THEN {9000} ELSE {}
    IN  Min({9900, Max({0, sharpened} \cup number \cup set)})

Failed == [status |-> "failed", best |-> None, printing |-> 0, confidence |-> 0, others |-> {}]

Result(p, o, ranked) ==
    LET printed == SelectSeq(ranked, LAMBDA c : Cards[c].printings # <<>>)
        cands == Preferred(p, o, printed)
        confidence == Confidence(p, o, cands)
    IN  IF printed = <<>> THEN Failed
        ELSE [status |-> IF Score(p, o, cands[1]) < MinMatch THEN "failed"
                         ELSE IF confidence >= Auto THEN "matched" ELSE "needs_review",
              best |-> cands[1],
              printing |-> PickVariant(cands[1], p.finish, p.language),
              confidence |-> confidence,
              others |-> {cands[i] : i \in 2..Min({5, Len(cands)})}]

-----------------------------------------------------------------------------
(* identify, and its callers.                                              *)

NoForm == [boostSets |-> <<>>, outSets |-> <<>>, boostTerms |-> <<>>, outTerms |-> <<>>, game |-> None]

LookupInit == line = <<>> /\ prefs = PrefsOf(NoForm) /\ found = Failed

Nowhere(p, rows) ==
    p.set # None /\ p.number # NoNumber /\ \A c \in rows : Fit(p.number, Cards[c].number) < 8000

\* The guess of a set is dropped when nothing fetched in it carries the typed number.
Identify(l, o, failing) ==
    \E guess \in Guesses(Parse(l)) : \E first \in Fetch(guess) :
        LET wrong == Nowhere(guess, first)
            p == IF wrong THEN Parse(l) ELSE guess
        IN  \E rows \in IF wrong THEN Fetch(p) ELSE {first} :
            \E ranked \in Ranked(p, o, Allowed(o, rows)) :
                LET r == Result(p, o, ranked)
                IN  /\ line' = l /\ prefs' = o
                    /\ found' = IF r.status = "failed" THEN [r EXCEPT !.status = failing] ELSE r

\* A pasted line.
Scan(l, form) == Identify(l, PrefsOf(form), "failed")

\* A cert's hint: what fails goes to review, the cert is real.
Graded(l) == Identify(l, PrefsOf(NoForm), "needs_review")

\* Lookups share nothing: one is enough.
LookupNext ==
    /\ line = <<>>
    /\ \E l \in Lines : Graded(l) \/ (\E form \in Forms : Scan(l, form))

-----------------------------------------------------------------------------
(* Properties.                                                             *)

Plain(o) == o = PrefsOf(NoForm)

\* A line that reads as a card's name and number finds a card of that name and number
\* and is sure of it, however many namesakes fill the rows a query returns and whatever
\* language, condition or quantity is typed along (a line that also speaks a set is
\* narrowed to that set, and the number must not fill a query by itself).
ExactFound ==
    LET p == Parse(line)
    IN  \A c \in DOMAIN Cards :
            /\ line # <<>> /\ Plain(prefs)
            /\ p.terms = Cards[c].name /\ p.number # NoNumber /\ p.number = Cards[c].number
            /\ Cards[c].printings # <<>>
            /\ Guesses(p) = {p}
            /\ \E w \in ToSet(p.terms) : Letters(w) >= 2
            /\ Cardinality(Numbered({d \in DOMAIN Cards : \A w \in ToSet(p.terms) : Has(d, w)}, p.number)) <= Limit
            => /\ found.status = "matched"
               /\ Cards[found.best].name = Cards[c].name
               /\ Fit(p.number, Cards[found.best].number) >= 8000

=============================================================================
