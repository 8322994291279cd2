------------------------------ MODULE MCArchive ------------------------------
(***************************************************************************)
(* A small instance of Archive for TLC.                                     *)
(***************************************************************************)
EXTENDS Archive, TLC

CONSTANTS clock, browser, acme, other

None == [k \in Kinds |-> 0]
\* The timer beside one browser, the seller's or the owner's.
Served == clock :> {} @@ browser :> Kinds

\* One account each, and what is sold on it.
OneEach == 1 :> {acme}
OneSale == "o1" :> acme
Uploads == "f1" :> "sample"

ArchiveBudget == "seller" :> 2 @@ "owner" :> 2 @@ "fault" :> 1

=============================================================================
