---------------------------- MODULE LiveListings ----------------------------
(***************************************************************************)
(* The owner's eBay keyset (app/ebay-config.ts, saved from the console,    *)
(* app/ebay-admin.ts) and the live listings searched with it (ebay.ts).    *)
(* The keyset is kept in meta, key by key, and read into the process after *)
(* a save; the process keeps an application token and the answers of       *)
(* recent searches, and drops both when the keyset changes.                *)
(*                                                                         *)
(* The field "env" stands for the environment and marketplace, "id" and    *)
(* "secret" for the keys; mock mode touches none of this state.  eBay is   *)
(* external.                                                               *)
(***************************************************************************)
EXTENDS Naturals, Sequences, FiniteSets, SequencesExt

CONSTANTS
    Values,     \* [Fields -> what may be typed there]
    EnvVars,    \* [Fields -> the server's own setting]
    Valid,      \* the keysets eBay knows
    Patches,    \* what a save may change: functions on a set of fields
    Searches,   \* searches under way at the same time
    Phrases,    \* search texts
    MaxCache,   \* bound: the cache's 300 entries
    LiveBudget  \* bound: saves, searches, faults and expiries

\* The order in which saveEbayConfig writes.
KEYS == <<"id", "secret", "env">>
Fields == Range(KEYS)
Unset == "unset"     \* no row in meta; in a patch, null
NoToken == [keys |-> [f \in Fields |-> Unset], late |-> FALSE]

\* What the constants must satisfy.
LiveHolds ==
    /\ DOMAIN EnvVars = Fields /\ DOMAIN Values = Fields
    /\ \A p \in Patches : DOMAIN p \subseteq Fields
    /\ MaxCache \in Nat \ {0}
ASSUME LiveAssumption == LiveHolds

VARIABLES
    meta,     \* meta: the ebay.* rows
    db,       \* what the process has read of them
    token,    \* tokenCache
    cache,    \* the search cache, oldest entry first
    loads,    \* how often the keyset was read since the behaviour began
    desk,     \* the owner's request
    call,     \* what each search is doing and what it has read
    spent     \* how many of what LiveBudget bounds there were
liveVars == <<meta, db, token, cache, loads, desk, call, spent>>

NoDesk == [at |-> "idle", left |-> <<>>, patch |-> [f \in {} |-> Unset], read |-> [f \in {} |-> Unset]]
NoCall == [at |-> "idle", q |-> "none", token |-> NoToken, host |-> Unset, loads |-> 0]

\* pick: the console's value, or the server's setting.
Chosen(f) == IF db[f] # Unset THEN db[f] ELSE EnvVars[f]
Config == [f \in Fields |-> Chosen(f)]

LiveInit ==
    /\ meta = [f \in Fields |-> Unset] /\ db = meta
    /\ token = NoToken /\ cache = <<>> /\ loads = 0
    /\ desk = NoDesk /\ call = [s \in Searches |-> NoCall]
    /\ spent = [k \in DOMAIN LiveBudget |-> 0]

Spend(k) == spent[k] < LiveBudget[k] /\ spent' = [spent EXCEPT ![k] = @ + 1]

-----------------------------------------------------------------------------
(* The console.                                                            *)

\* ebayFormToPatch and saveEbayConfig: a blank key is left alone.
Save ==
    /\ desk.at = "idle" /\ Spend("saves")
    /\ \E p \in Patches :
          desk' = [NoDesk EXCEPT !.at = "write", !.patch = p,
                                 !.left = SelectSeq(KEYS, LAMBDA f : f \in DOMAIN p)]
    /\ UNCHANGED <<meta, db, token, cache, loads, call>>

\* One statement for each field the patch has.
WriteField ==
    /\ desk.at = "write" /\ desk.left # <<>>
    /\ meta' = [meta EXCEPT ![Head(desk.left)] = desk.patch[Head(desk.left)]]
    /\ desk' = [desk EXCEPT !.left = Tail(@), !.at = IF Tail(desk.left) = <<>> THEN "read" ELSE "write"]
    /\ UNCHANGED <<db, token, cache, loads, call, spent>>

\* A statement fails: the fields written so far stay, and are not read.
WriteFails ==
    /\ desk.at = "write" /\ Spend("faults")
    /\ desk' = NoDesk
    /\ UNCHANGED <<meta, db, token, cache, loads, call>>

\* clearEbayConfig.
ClearKeyset ==
    /\ desk.at = "idle" /\ Spend("saves")
    /\ meta' = [f \in Fields |-> Unset]
    /\ desk' = [NoDesk EXCEPT !.at = "read"]
    /\ UNCHANGED <<db, token, cache, loads, call>>

\* loadEbayConfig reads the rows, or fails ...
ReadConfig ==
    /\ desk.at = "read"
    /\ \/ desk' = [desk EXCEPT !.at = "take", !.read = meta] /\ UNCHANGED spent
       \/ Spend("faults") /\ desk' = [desk EXCEPT !.at = "take", !.read = [f \in Fields |-> Unset]]
    /\ UNCHANGED <<meta, db, token, cache, loads, call>>

\* Mutant of TakeConfig: nobody listens for the change.
TakeConfigQuietly ==
    /\ desk.at = "take"
    /\ db' = desk.read /\ loads' = loads + 1 /\ desk' = NoDesk
    /\ UNCHANGED <<meta, token, cache, call, spent>>

\* ... and takes them, nothing if it failed; the listeners drop what they have cached.
TakeConfig ==
    /\ desk.at = "take"
    /\ db' = desk.read /\ loads' = loads + 1 /\ desk' = NoDesk
    /\ token' = NoToken /\ cache' = <<>>
    /\ UNCHANGED <<meta, call, spent>>

-----------------------------------------------------------------------------
(* A search.                                                               *)

Configured == Chosen("id") # Unset /\ Chosen("secret") # Unset
Cached(q) == {i \in DOMAIN cache : cache[i].q = q}

\* A search without its answer in the cache, or the console's test, which does not look
\* there, takes the token or asks eBay for one with the keys of this moment.
SearchFor(s, q, fresh) ==
    /\ call[s].at = "idle" /\ Configured /\ Spend("searches")
    /\ fresh \/ Cached(q) = {}
    /\ call' = [call EXCEPT ![s] =
                   [at |-> IF token # NoToken THEN "search" ELSE "token", q |-> q, loads |-> loads,
                    host |-> Chosen("env"),
                    token |-> IF token # NoToken THEN token ELSE [keys |-> Config, late |-> FALSE]]]
    /\ UNCHANGED <<meta, db, token, cache, loads, desk>>

Fails(s) == call' = [call EXCEPT ![s] = NoCall] /\ UNCHANGED <<token, cache>>

\* eBay's token arrives and is kept, though the keyset may have changed meanwhile; the
\* search goes to the host of this moment.
TokenArrives(s) ==
    /\ call[s].at = "token"
    /\ LET got == [call[s].token EXCEPT !.late = call[s].loads # loads]
       IN  IF got.keys \in Valid
           THEN /\ token' = got
                /\ call' = [call EXCEPT ![s].at = "search", ![s].token = got, ![s].host = Chosen("env")]
                /\ UNCHANGED cache
           ELSE Fails(s)
    /\ UNCHANGED <<meta, db, loads, desk, spent>>

\* The answer arrives and is kept; the oldest entry goes when there are too many.  A token
\* of another environment is refused.
SearchArrives(s) ==
    /\ call[s].at = "search"
    /\ LET others == RemoveFirstMatch(cache, LAMBDA e : e.q = call[s].q)
           entry == [q |-> call[s].q, keys |-> call[s].token.keys,
                     late |-> call[s].token.late \/ call[s].loads # loads]
           kept == Append(others, entry)
       IN  IF call[s].token.keys["env"] = call[s].host
           THEN /\ cache' = IF Len(kept) > MaxCache THEN Tail(kept) ELSE kept
                /\ call' = [call EXCEPT ![s] = NoCall]
                /\ UNCHANGED token
           ELSE Fails(s)
    /\ UNCHANGED <<meta, db, loads, desk, spent>>

CallFails(s) ==
    /\ call[s].at # "idle" /\ Spend("faults")
    /\ Fails(s)
    /\ UNCHANGED <<meta, db, loads, desk>>

\* Ten minutes, or the token's time, pass.
Expires ==
    /\ Spend("expiries")
    /\ \/ token # NoToken /\ token' = NoToken /\ UNCHANGED cache
       \/ cache # <<>> /\ cache' = Tail(cache) /\ UNCHANGED token
    /\ UNCHANGED <<meta, db, loads, desk, call>>

\* The server stops and boots again: it reads the keyset before it listens.
Reboot ==
    /\ Spend("faults")
    /\ db' = meta /\ loads' = loads + 1
    /\ token' = NoToken /\ cache' = <<>>
    /\ desk' = NoDesk /\ call' = [s \in Searches |-> NoCall]
    /\ UNCHANGED meta

LiveNext ==
    \/ Save \/ WriteField \/ WriteFails \/ ClearKeyset \/ ReadConfig \/ TakeConfig
    \/ \E s \in Searches :
          \/ \E q \in Phrases, fresh \in BOOLEAN : SearchFor(s, q, fresh)
          \/ TokenArrives(s) \/ SearchArrives(s) \/ CallFails(s)
    \/ Expires \/ Reboot

LiveSpec == LiveInit /\ [][LiveNext]_liveVars

-----------------------------------------------------------------------------
(* Properties.                                                             *)

\* "Modules that cache tokens register onEbayConfigChange": the token and the answers the
\* process keeps belong to the keyset it has now, whatever saves were cut short and whatever
\* was read in between, unless the call that fetched them was under way at a change.
NothingStale ==
    /\ token # NoToken => token.late \/ token.keys = Config
    /\ \A i \in DOMAIN cache : cache[i].late \/ cache[i].keys = Config

=============================================================================
