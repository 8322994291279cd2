---------------------------- MODULE MCConnection ----------------------------
(***************************************************************************)
(* A small instance of Connection for TLC.                                  *)
(***************************************************************************)
EXTENDS Connection, TLC

CONSTANTS tab, hook, ann, ben, acme, shop

None == [k \in Kinds |-> 0]
\* One browser, and what runs beside it: eBay's notices and a background call.
Served == [s \in Sessions |-> IF s = tab THEN Kinds \ {"notice", "refresh"} ELSE {"notice", "refresh"}]

\* Ann moves between two accounts, one of which Ben shares.
Moves == ann :> {acme, shop} @@ ben :> {shop}
OwnBuyer == "o1" :> shop

FlowBudget == "page" :> 2 @@ "return" :> 2 @@ "disconnect" :> 1 @@ "refresh" :> 1 @@ "close" :> 1 @@ "mishap" :> 1
              @@ "clear" :> 1 @@ None

=============================================================================
