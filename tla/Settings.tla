------------------------------- MODULE Settings -------------------------------
(***************************************************************************)
(* A seller's Configuration pages and the scan form, which writes some of  *)
(* the same columns (server.ts handleSettings and handleScan, app/store.ts *)
(* updateSeller, app/exporters.ts, app/listing.ts).  A value stands for    *)
(* whatever was typed into a field, after the page's trimming and bounds.  *)
(*                                                                         *)
(* The four channel pages share one JSON column: a save reads it, puts its *)
(* own keys in and writes it back.                                         *)
(***************************************************************************)
EXTENDS Integers, FiniteSets, Sequences

CONSTANTS
    Tabs,     \* requests being served at the same time
    Values,   \* what a field may be given, nothing included
    Bodies,   \* description templates a seller writes, none of them empty
    Saves     \* bound: pages saved

Empty == "empty"

Section == [shop |-> {"display_name", "sku_prefix", "sku_pad", "sku_next"},
            pricing |-> {"price_mode", "price_pct", "price_fixed_cents", "default_condition",
                         "default_language", "auto_price_pref", "price_floor_cents"},
            matching |-> {"matching_prefs"},
            titles |-> {"title_structure"},
            descriptions |-> {"description_templates"},
            ebay |-> {"ebay_store_category", "item_location", "ebay_shipping_policy",
                      "ebay_return_policy", "ebay_payment_policy", "best_offer"},
            privacy |-> {"training_opt_in"}]

ChannelKeys == [shopify |-> {"shopify_vendor", "shopify_location", "shopify_grams", "shopify_tags"},
                whatnot |-> {"whatnot_category", "whatnot_shipping_profile", "whatnot_offerable"},
                tcgplayer |-> {"tcg_my_store", "tcg_store_multiplier", "tcg_reserve_qty"},
                manapool |-> {"manapool_note"}]

\* The scan form's own saves: "save these defaults", a new SKU prefix, matching options.
ScanForm == [defaults |-> {"default_condition", "default_language", "price_mode", "price_pct"},
             prefix |-> {"sku_prefix"},
             matching |-> {"matching_prefs"}]

Keys(f) == UNION {f[x] : x \in DOMAIN f}
Columns == Keys(Section) \ {"description_templates"}
Channels == Keys(ChannelKeys)

\* DESCRIPTION_TEMPLATE_MAX
Slots == 1..3

VARIABLES
    columns,    \* sellers: a column each
    templates,  \* sellers.description_templates: the bodies kept, and the active one's place
    channels,   \* sellers.channel_prefs
    tab,        \* the request each tab is waiting for
    saves,      \* pages saved so far
    said,       \* what each field was last given: history
    wanted,     \* the description last chosen: history
    crossed     \* have two saves of channel pages crossed?

settings == <<columns, templates, channels, tab, saves, said, wanted, crossed>>

Closed == [pc |-> "closed", page |-> "none", form |-> Empty, read |-> [k \in Channels |-> Empty]]

SettingsInit ==
    /\ columns = [c \in Columns |-> Empty]
    /\ templates = [active |-> 1, items |-> <<>>]
    /\ channels = [k \in Channels |-> Empty]
    /\ tab = [t \in Tabs |-> Closed]
    /\ saves = 0
    /\ said = [c \in Columns \cup Channels |-> Empty]
    /\ wanted = Empty
    /\ crossed = FALSE

Post(t) == tab[t].pc = "closed" /\ saves < Saves /\ saves' = saves + 1

\* A field that is given a value has been given it.
Said(keys, v) == said' = [k \in DOMAIN said |-> IF k \in keys THEN v ELSE said[k]]

-----------------------------------------------------------------------------
(* One UPDATE of the columns that the page or the form owns.               *)

SavePage(t, keys, v) ==
    /\ Post(t)
    /\ columns' = [c \in Columns |-> IF c \in keys THEN v ELSE columns[c]]
    /\ Said(keys, v)
    /\ UNCHANGED <<templates, channels, tab, wanted, crossed>>

-----------------------------------------------------------------------------
(* Descriptions: three slots and the active one; the ones left blank are   *)
(* not kept, and the active one is a place among those kept.               *)

\* The slots that are kept, in their order.
Kept(body) ==
    LET slot(i) == IF body[i] # Empty THEN <<i>> ELSE <<>>
    IN  slot(1) \o slot(2) \o slot(3)

\* Mutant of SaveDescriptions: the slot's own number is stored as the active place.
SaveSlotNumber(t, body, active) ==
    /\ Post(t)
    /\ templates' = [active |-> IF active <= Len(Kept(body)) THEN active ELSE 1,
                     items |-> [j \in DOMAIN Kept(body) |-> body[Kept(body)[j]]]]
    /\ wanted' = body[active]
    /\ UNCHANGED <<columns, channels, tab, said, crossed>>

SaveDescriptions(t, body, active) ==
    /\ Post(t)
    /\ LET kept == Kept(body)
           place == {j \in DOMAIN kept : kept[j] = active}
       IN  templates' = [active |-> IF place = {} THEN 1 ELSE CHOOSE j \in place : TRUE,
                         items |-> [j \in DOMAIN kept |-> body[kept[j]]]]
    /\ wanted' = body[active]
    /\ UNCHANGED <<columns, channels, tab, said, crossed>>

\* activeDescriptionTemplate: the place is brought into bounds when it is read.
ActiveDescription ==
    LET n == Len(templates.items)
    IN  IF n = 0 THEN Empty
        ELSE templates.items[IF templates.active < n THEN templates.active ELSE n]

-----------------------------------------------------------------------------
(* Channel pages: read, merge, write.                                      *)

OpenChannel(t, page, v) ==
    /\ Post(t)
    /\ tab' = [tab EXCEPT ![t] = [pc |-> "merge", page |-> page, form |-> v, read |-> channels]]
    /\ crossed' = (crossed \/ \E u \in Tabs : tab[u].pc = "merge")
    /\ UNCHANGED <<columns, templates, channels, said, wanted>>

SaveChannel(t) ==
    /\ tab[t].pc = "merge"
    /\ channels' = [k \in Channels |-> IF k \in ChannelKeys[tab[t].page] THEN tab[t].form ELSE tab[t].read[k]]
    /\ Said(ChannelKeys[tab[t].page], tab[t].form)
    /\ tab' = [tab EXCEPT ![t] = Closed]
    /\ UNCHANGED <<columns, templates, saves, wanted, crossed>>

SettingsNext ==
    \E t \in Tabs :
        \/ \E p \in DOMAIN Section \ {"descriptions"}, v \in Values : SavePage(t, Section[p], v)
        \/ \E p \in DOMAIN ScanForm, v \in Values : SavePage(t, ScanForm[p], v)
        \/ \E body \in [Slots -> Bodies \cup {Empty}], active \in Slots : SaveDescriptions(t, body, active)
        \/ \E p \in DOMAIN ChannelKeys, v \in Values : OpenChannel(t, p, v)
        \/ SaveChannel(t)

SettingsSpec == SettingsInit /\ [][SettingsNext]_settings

-----------------------------------------------------------------------------
(* Properties.                                                             *)

\* "Only those columns change": every field, of a page or a channel, holds what it was
\* last given, however pages and scan forms are saved in between; and the description
\* used is the one chosen last, whichever slots were left blank.  (Two channel pages
\* saved at the same moment are another matter: they share a column.)
SavedIsUsed ==
    /\ \A c \in Columns : columns[c] = said[c]
    /\ ~crossed => \A k \in Channels : channels[k] = said[k]
    /\ wanted # Empty => ActiveDescription = wanted

=============================================================================
