----------------------------- MODULE MCAccounts -----------------------------
(***************************************************************************)
(* A small instance of Accounts and Workspace for TLC.  The two share no   *)
(* state: a behaviour is about the one or the other.                       *)
(***************************************************************************)
EXTENDS Accounts, Workspace, TLC

CONSTANTS a, b, ann, boss

\* Sign-ups and requests for a link are made one at a time, everything else by both.
Apart == a :> {"signup", "signin", "use", "plan"} @@ b :> {"signin", "logout", "ask", "use"}

DayBudget == "signup" :> 2 @@ "signin" :> 1 @@ "logout" :> 1 @@ "ask" :> 2 @@ "use" :> 2
             @@ "plan" :> 1 @@ "fault" :> 1

-----------------------------------------------------------------------------

Seats == "hers" :> ann @@ "his" :> boss
Home == "hers" :> "there" @@ "his" :> "there"
Visits == "session" :> 2 @@ "console" :> 3 @@ "app" :> 2 @@ "login" :> 3 @@ "fault" :> 1

InitBoth == Init /\ DeskInit

NextBoth ==
    \/ /\ \A k \in DOMAIN counted : counted[k] = 0
       /\ Next
       /\ UNCHANGED deskVars
    \/ /\ boot = "paywall" /\ ~configured /\ asked["fault"] = 0
       /\ DeskNext
       /\ UNCHANGED vars

SpecBoth == InitBoth /\ [][NextBoth]_<<vars, deskVars>>

=============================================================================
