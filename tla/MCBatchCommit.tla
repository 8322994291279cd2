--------------------------- MODULE MCBatchCommit ---------------------------
(* Instances of BatchCommit for TLC: two or three cards in one batch, or    *)
(* the first card in a batch of its own.                                    *)
EXTENDS BatchCommit, TLC

OneBatch == [i \in Items |-> 1]
FirstApart == [i \in Items |-> IF i = 1 THEN 1 ELSE 2]

KnownOrNot == {<<"matched", CHOOSE c \in Cards : TRUE>>, <<"needs_review", NoCard>>}
Known == {"matched"} \X Cards

Alike == Permutations(Sessions) \cup Permutations(Cards)

Nothing == [k \in Kinds |-> 0]
SerialBudget ==
    [Nothing EXCEPT !["detect"] = 1, !["number"] = 1, !["clear"] = 1, !["blank"] = 1,
                    !["prefix"] = 1, !["replace"] = 1, !["commit"] = 2]
LinksBudget ==
    [Nothing EXCEPT !["detect"] = 2, !["save"] = 1, !["skip"] = 1, !["approve"] = 1,
                    !["shop"] = 1, !["commit"] = 1]

NoTyped == {}

=============================================================================
