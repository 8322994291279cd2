# Verification of CardIndex

TLA+ models of `src/card-db-mvp`, a trading-card workspace: a seller photographs
or pastes cards, reviews what was recognised, commits them to inventory under
SKUs, lists them on eBay, and picks and ships the orders that come in; an owner
runs the service, and the public searches its catalog, prices and sold archive.
The server is one Node process (more than one may run) over Postgres. The
repository has no automated tests, so what is stated here is otherwise checked by
hand. Paths below are under `src/card-db-mvp/src/` (`README.md`, unless said
otherwise, is `src/card-db-mvp/README.md`).

What makes the code hard is the same everywhere. A handler is `async`; each
`query()` (`pg.ts`) is one autocommitted statement, so between any two statements
of a request another request, another tab, or a timer may run. Only `tx()` groups
writes, at READ COMMITTED, and most handlers read what they decide on before they
open it. A request may stop between two statements (an error, a deploy), and a
call to eBay may fail, or be carried out and its answer lost.

## How the models are made

* One TLA+ action is one statement, one transaction's writes, or one call to an
  outside service, with the decisions the code takes on its result. What a request
  has read is in its record in `sess` (`work` in `Upload`, `desk` in `Stock`, `req`
  in `Workspace`); `pc` or `at` says which statement is next.
* A request is any of the handlers' entry points, taken by an idle session.
  `Sessions` with one element means one request at a time; two elements, any overlap.
* `Budget[k]` bounds the requests of kind `k` in a behaviour, so the user may stop
  asking; for that reason the configurations do not check deadlock.
* `Die` (or `Stop`) ends a request between two statements: written rows stay.
* eBay, the card mirror, the image host and mail are external: what they answer is
  any of the answers the code tells apart.
* Row scoping by seller (`session-context.ts`) is uniform. `Accounts`, `Workspace`,
  `Connection` and `Archive`, which are about several sellers, have several; the
  other modules have one.
* Pure computations (titles, sheets, matching, prices, searches) are operators over
  small data; the variables of such a module hold one input and its outcome, and
  TLC goes through the inputs.

## Components

| Part (source) | State | Operations | Hard because | Module |
|---|---|---|---|---|
| Chunked upload (`render/app.ts` script; `server.ts` 628-742; `upload.ts`) | the pick and the page's job; `scan_batches`; `scan_items` | pick, layouts, pairs, card search; start, chunk, finish, retry; one-request form | a job that outlives its run, answers lost, retries beside the original, a stop half way through a chunk, the plan's cap | `Upload`, `Dropzone`, `Multipart` |
| Scan batches and review (`app/store.ts`, `server.ts` 754-931) | `scan_items`, `scan_batches.status` | detect duplicates, finalize, skip, approve, replace, save, number, clear | detection repeated beside edits; statuses worked out from old reads | `BatchCommit` |
| Commit and SKU counter (`store.ts` 640-717, `app/sku.ts`) | `inventory`, `sellers.sku_prefix/sku_next` | commitBatch; every other writer of the counter | counter read outside the transaction | `BatchCommit`, `SkuAllocator` |
| Pricing rules (`app/pricing.ts`, `server.ts`, `store.ts`) | price, rule and override of an item; `market` prices | add, save, replace, price all, commit, reprice, bulk inventory | stale forms, flags and prices written by different paths | `Pricing` |
| Inventory and listings (`store.ts`, `server.ts` 850-1300, `app/exporters.ts`) | `inventory.status`, `listings` | listing builder, blank listings, bulk bars, schedule spacing, export | two statements per listing, ids chosen on an old page | `Stock` |
| Publishing and scheduler (`app/ebay-sell.ts`) | `listings`, offers at eBay | create, schedule, publish, revise, run due, end | timer beside buttons, failing calls, lost answers | `Publish` |
| Titles (`app/title.ts`, `app/compose.ts`, `app/listing.ts`) | none | structure, template, built-in rules, optimizer | what is dropped when a title is too long | `Titles` |
| Orders (`app/orders.ts`, `server.ts` 572-591, 1049-1095) | `orders`, `order_items`, `inventory.quantity` | place, fetch, pick, ship, delete, mark, push quantity | check before transaction; count before write | `Orders`, `Fulfilment` |
| Sheets (`app/exporters.ts`, `app/orders.ts`, `app/soldimport.ts`) | a file | write CSV, two readers, pull sheet to orders | quotes, line breaks, blank rows, lines of one order apart | `Sheets` |
| eBay connection, account deletion (`app/ebay-sell.ts`, `app/ebay-deletion.ts`) | `ebay_connections`, states, the deletion log, buyers' names | connect, refresh, sync, fetch, disconnect, deletion notice | refreshes in flight beside a second sign-in; notices repeated, late or half done | `Connection` |
| Sold archive (`app/soldharvest.ts`, `app/soldimport.ts`) | `sold_sales`, `last_sold_harvest` | timer, fetch button, harvest after connecting, feed upload, removal | a watermark written after work that takes days of someone's time | `Archive` |
| Accounts and sessions (`app/auth.ts`, `app/billing.ts`) | `sellers`, sessions, reset links | sign up, sign in, sign out, reset, grandfathering, boot | sign-up claims a legacy row; a reset in several statements | `Accounts` |
| Owner console, workspaces, lists, feedback (`app/admin.ts`, `server.ts`, `app/feedback.ts`) | cookies, lock-out, activity log, plans, lists, notes | log in, open a customer's dashboard, work in it, change a plan, answer | which of two cookies a request works as | `Workspace` |
| Settings (`server.ts` 1100-1200, `store.ts`) | the columns of `sellers`, templates, channel preferences | every section, the scan forms' defaults | several pages write one row, four write one column | `Settings` |
| Identification (`app/identify.ts`, `app/matching.ts`) | none | parse a line, fetch, score, decide | limits and thresholds | `Identify` |
| Photo recognition (`app/hashindex.ts`, `app/vision.ts`) | `card_hashes`, missing images, cache | build, stop, refresh, recognise | workers beside imports; a host that turns the server away | `PhotoIndex` |
| Catalog import (`app/catalog-import.ts`) | sets, cards, variants, recorded groups | import, force, resume | no transaction; seeded cards adopted | `Catalog` |
| Daily prices (`scripts/sync-tcgcsv.ts`) | `prices`, history | a sync, repeated or resumed | no transaction; one printing under two sub-types | `PriceSync` |
| Search pages (`search.ts`, `render/pages.ts`) | the address | search, facets, chips, range, paging | each facet counted without its own filter | `Search` |
| Live listings and keyset (`ebay.ts`, `app/ebay-config.ts`) | keyset in `meta`, token, cached answers | save, clear, load, search | a cache beside the key it was filled with | `LiveListings` |
| Sales lookup, rendering, mail, storage, seeds | none of their own | reads, formatting, I/O | - | not modelled |

The parts meet in the tables. Upload fills `scan_items` with what identification
found; review edits them, pricing sets their price, and a commit turns them into
`inventory`; listings and order lines point at inventory rows; shipping takes
quantities off them and pushes the rest to the listings. The import and the price
sync write the catalog that identification and search read. Each module owns its
tables and starts from the states the part before it leaves: `BatchCommit` from
items as identification leaves them (`Looks`), `Orders` from rows that are listed
and live, `Stock` with an order that ships and a listing that goes live as single steps.

## Modules

**Review and commit.** `BatchCommit` has one record per item (status, card,
condition, SKU, link), the seller's counter, and the inventory rows. A *card* is a
printing; a *condition* stands for condition, language and grade together, which is
what `detectDuplicates` compares. A row's quantity is the set of items whose copies
it holds, so a merge that loses or doubles a card shows. Two observed variables,
which the code does not store: `taken` (what each commit selected) and `draws` (how
often each SKU was taken from the counter). `SkuAllocator` is what the counter
promises: a set of SKUs handed out at most once.

`Pricing` has an item's price, rule and override flag through the same life; the
rest of the item is in `BatchCommit`. `hand` is what the seller typed last, `worth`
and `filed` what a printing was worth and was filed at before.

**Upload.** `Upload` has the requests of one batch, statement by statement, with the
answers that are lost. `Dropzone` has what surrounds them: the photos picked and how
they are grouped, the job every run of the script works off, and the cards the server
makes of a request's files; there a request is one step, served or failed.
`Multipart` writes a body as a browser does and parses it as `upload.ts` does, a
photo being a sequence of tokens that may hold line ends and dashes.

**Selling.** `Stock` has rows, listings and two desks that send forms made on older
pages. `Publish` has a listing's row, its offers at eBay and which of them are live;
a *world* says which requests, failures and stops a behaviour has. `Titles` has a
title as a sequence of parts with a length and a rank among what may be dropped.

**Orders.** `Orders` has orders with their lines, the rows, each row's live listing,
and at eBay the quantity on offer and the buyers' orders; `Fulfilment` is its
abstract order book: wait, then ship once or be deleted. `Sheets` writes CSV as the
exporters do, reads it as the importer does, and books the orders one by one.

**Sellers.** `Accounts` has rows, sessions and links; a password is the person who
chose it and a number, so that who can sign in where is visible. `Workspace` has
browsers with their cookies. `Connection` has tokens, names and policies, each
standing for the eBay member it is of, so that mixing shows. `Archive` counts days.
`Settings` has the columns as fields that hold what was last given.

**Catalog.** `Catalog` imports groups product by product; `PhotoIndex` EXTENDS it
with the hashes of the cards' images. `PriceSync` has prices as rows of a set,
because the code keeps them unique by deleting before it inserts. `Search` and
`Identify` are operators over a small catalog. `LiveListings` tags a token and an
answer with the keyset it was fetched with.

`*Proofs.tla` hold the theorems, eight modules for the parts of the system; see Proofs.

`MC*.tla` give the constants for TLC. Some take in further modules: by EXTENDS, as the
proof modules do, `MCPublish` `Stock` and `Titles`, `MCUpload` `Settings`, `MCAccounts`
`Workspace`, `MCMarket` `Search` (which EXTENDS `PriceSync`) and `LiveListings`; by
INSTANCE, `MCOrders` `Sheets`, `MCUpload` `Identify` and `Dropzone`. Modules hosted
together share no variable, and a behaviour is about one of them, so a run is the
union of their state spaces and not a product. `MCMarket` searches the catalog its
syncs have priced, between two syncs.

## Runs

| Run | Instance | Shows |
|---|---|---|
| `commit_serial` | 3 cards (one raw, two slabs), known or not, one session: number, clear, blank, prefix change, replace, two commits; commits may stop | implements `SkuAllocator` |
| `commit_links` | 3 raw cards of two printings, two sessions, detection twice (may stop), save with or without another printing, skip, approve, settings, a commit | `DupLinksLeadBack`, `NothingLostOrDoubled` |
| `orders_flow` | 2 rows, a SKU on both, one on none, an eBay order for two; one session picks, ships, deletes, one places and fetches; fetch and ship may stop. One pull sheet of a few lines | `StockMatchesShipped`, `ImportedOnce`, `EbayStockTrue`, implements `Fulfilment`; `LinesInOrders` |
| `publish` | 2 listings, 3 attempts, two worlds (below). One row, two desks, two listings, three requests. Titles of every copy under every layout | `StatusMatchesEbay`, `OneOffer`, `DueHandled`; `ListedHasDraft`, `ExportTrue`; `NameKept` |
| `upload_retry` | 5 photos in groups of two, one (cut by its bytes) and two, cap 6, two requests at a time, three mishaps, one Retry. Two tabs, three saves of settings. Typed lines against six cards. Four photos, one with two cards and one the server refuses, in browsers without script, without and with shrinking; three edits, two presses, a failed request | `AllPhotosIn`, `SettledTrue`; `SavedIsUsed`; `ExactFound`; `CardsArrive` |
| `archive` | a seller, an order, a feed line, days 0-3; the timer, and a browser with two requests of the seller and two of the owner; one fault | `NoneOutOfReach`, `OnlyPaid`, `SameSaleOnce`, `PaidIsArchived` |
| `connection` | 2 sellers, 2 eBay accounts, a browser and the notices | `OneMember`, `Forgotten`, `EventuallyForgotten` |
| `accounts` | 2 people, two sessions, two links, a restart. Two browsers, a customer and the owner, six log rows | `Isolated`, `ResetLinks`, `OldPasswordOut`; `OwnerMarked`, `NothingTaken` |
| `pricing` | 2 items, 2 printings, 2 market prices, 4 requests, a save and a pricing run that may stop | `OverrideIsTyped`, `PriceOfPrinting` |
| `catalog` | one group of two products, a seeded set and card, three ids, three images of which one is gone, three events in all (imports, restarts, mirror changes, builds, outages, photos) | `RecordedWhole`, `OnlyGone`, `ImportEnds` |
| `market` | 2 sets, 3 groups, 3 cards, 4 products, two mirrors, two syncs over two days, one fault; every query and chip. Two live searches, two keysets | `OncePerDay`, `SetPriced`; `FacetsHonest`; `NothingStale` |
| `bad_override` | one item, one rule | a comment's claim refuted (`OwnPriceKept`) |

Why these are enough. Three cards are the least that give a link whose target is
itself linked, after an edit between two detections; two batches let slabs sit beside
raw cards. Two sessions overlap in every way two requests can. Two lines on one
row, a SKU that two rows carry and one that none does are the cases `createOrder`
and `shipOrder` tell apart. Groups of two, one and two are a full one, one cut short by
its bytes and another full one after it; with a cap of 6, one repeat uses up the room,
in the middle of the last group if it is the first group that is repeated. Two requests
are a retry beside the one it repeats. A pick, a failure, an edit and a
second press are what mixing two picks in one batch would take. Three attempts is the code's own
limit; two listings with one taken per tick show that a failing one does not block
the other. Three days are longer than the overlap of two, so an order can fall
behind a watermark. Two eBay accounts let a seller move from one to another, two
sellers share one. Two markets on the two sides of a floor make a price that only
the floor explains. Three groups make a set that no group, one and two answer to.

Code limits made smaller, with their case still there: five console attempts are 2;
80 rows of a query, 6 shortlisted candidates and 20 entries of a matching option are
2 each; a title's 80 characters are 24, with field lengths to match; 300 cached
searches are 1; a backfill is 4 days and the overlap 2.

### Worlds of `Publish`

`BesideTheTimer`: the timer runs beside a seller who creates, marks and presses "run
due", publish calls fail, nothing stops half way; `DueHandled` is about it.
`InTurns`: one request at a time, no timer, calls fail cleanly, stops only where
nothing at eBay is left unwritten, the connection may be cut; `StatusMatchesEbay`
and `OneOffer` are about it. They fail outside it, see below.

### Fairness

* `Publish`: the timer ticks whenever no run is busy (`setInterval`), and every
  statement and call of a request returns or times out (30 s, `ebay-sell.ts:341`).
* `Archive`: the timer ticks, and its statements and calls return or time out.
  Nothing is assumed of other requests.
* `Connection`: statements and calls return, and eBay posts a notice until it is
  answered; that is eBay's documented behaviour, which `ebay-deletion.ts` relies on.
* `PhotoIndex`: the import's own steps are taken, fetches included: each has a
  timeout (`hashindex.ts`, `catalog-import.ts`). Builds of others may stall for ever.

Nothing is assumed of users or of answers. The other runs have no liveness.

### Assumptions a run makes

In brackets, the hypothesis under which the proofs state the same thing for any instance.

* `commit_serial`: one request at a time, blank start numbers, no counter typed by
  hand, no numbering that stops (`OneAtATime` of `BatchCommitProofs`).
* `orders_flow`: one session picks, ships and deletes (`OneClerk`), one fetches
  (`OneFetch`), and what eBay's buyers order is on one row (`OneRowEach`).
  `EbayStockTrue` is about rows sold on one side only, and behaviours without a stop.
* `upload_retry`: caps are whole chunks (`upload.ts`); groups may be of any size up to a
  chunk. `AllPhotosIn` excuses the photos of groups sent after a short one, in a batch
  that holds as many cards as the plan allows; where every group but the last is full
  (`FullGroups` of `UploadProofs`) nothing is excused. `SettledTrue` is about batches
  no request was given up on (`overtaken`). The settings property leaves out two
  channel pages saved at one moment (`crossed`). `CardsArrive` is about photos that
  arrive as images, and pages left alone while they upload (`alone`).
* `archive`: a buyer pays within the overlap, less what a harvest takes (`Late +
  Slow <= Overlap`, `Punctual`); a seller keeps to one eBay account (`OneAccountEach`);
  the owner imports one file at a time (`OneOwner`).
* `connection`: eBay user names are never given to another member, and one seller
  signs in at a time (`OneAtATime` of `Connection`).
* `accounts`: sign-ups and link requests one after another (`Apart`; `OneSignUp`,
  `OneAsk`); a sign-out after a reset is not cut off (`MayDie` has no `"signout"`;
  `Unbroken`); one person per browser.
* `pricing`: one request at a time (`OneRequest`).
* `publish`: in the world `InTurns`, no offer without its id stored (`OffersKept`),
  nothing carried out at eBay and not written down (`RowsKept`).
* `catalog`: an image host that turns the server away does so for a whole build
  (`Steady`, and `Steady = TRUE` of `MissingIsGone`), since the code asks it once per
  pass; imports do not overlap; no two seeded cards are of one product.
* `market`: one sync at a time, and not beside an import; a search reads one state. The
  real prices of the seed, which have no history (`seed.ts:154`), are of an earlier day
  than any sync (`SyncHolds`): `OncePerDay` is about the days after.

## What the code does not do

`bad_override` checks a claim and TLC refutes it: the batch tool
(`render/app.ts:1014`) says that a price given to a whole batch is "kept as your own
(not recomputed)", and `README.md:296` that an override always wins; saving a review
form with the price box untouched recomputes it by the rule (`server.ts` 796-815).

The models reach further departures, which follow from the same causes and have no
run of their own. They say which conditions the passing properties need.

Review, SKUs, commit:

* `store.ts:8-9` says SKU allocation is serialized in a transaction; the counter is
  read before the transaction opens, and two commits give the same numbers (two
  sessions break `DrawnOnce`). So does a numbering that stops before `server.ts:923`,
  and a start number or a counter typed below one already given.
* `store.ts:611-612` says linked items are alike. A link outlives an edit: a card
  replaced, or a condition changed, after detection keeps its link, and a merging
  commit files two different cards as one row with the first one's name.
* A batch may be committed again and its items, now `approved`, are filed again under
  the same SKUs (`store.ts:647`); Approve alone writes the status that `store.ts:403`
  counts as committed.

Prices:

* `README.md:300` says automatic prices never go under a floor; `replaceMatch`
  (`store.ts:590`), `repriceItem` and the bulk change of inventory (`server.ts:882`)
  leave it out, `replaceMatch` also a fixed price, and the bulk change takes a slab's
  raw market.
* A replacement that overlaps "price all" overwrites a typed price while its flag
  stays (two sessions break `OverrideIsTyped`); Save drops the previous-price
  preference; the history of one millisecond has no order.

Upload:

* `server.ts:688-692` says nothing is appended to a closed batch; the check comes
  before the photos are identified, and a chunk answered late still adds its photos and its count.
* With chunks used up by repeated photos, the page is told the batch is full and
  Retry never gets further; a finish whose answer is lost is answered "closed" when
  tried again.
* Where the browser cannot shrink photos, `groupsOf` cuts groups by their bytes too
  (`render/app.ts:1915-1923`). After photos were repeated, the room of the plan's cap may
  then end inside a group that is not the last: the server cuts the chunk to the room
  (`server.ts:659`, 733-736) and answers that all is well, and the page lands on a batch
  with photos missing, which were shown as sent.
* `render/app.ts:2006` says nothing is lost. A photo picked, or a layout chosen, while
  a batch is sent enables the button (1729) and drops the job (1698): a second run
  shares its job with the first, and groups are skipped or sent as another layout.
  The detection of cards that ends meanwhile enables the button too.
* The page takes photos by any image type (1688), the server by a list (`upload.ts`
  158-165). One that the browser cannot shrink and the server does not take is dropped
  silently; as a back it moves the backs after it to other cards, and when no back is
  left fronts are paired with each other (`server.ts:645`).
* `groupsOf` weighs fronts only, and nothing where photos are shrunk (1918): a group
  may be over the limit, and Retry is refused each time.

Orders:

* The check that an order is not shipped comes before the transaction
  (`orders.ts:199`); two requests take the units off twice. Two ships whose orders
  share rows may lock them in opposite order; Postgres then aborts one.
* A pick toggle that read the order before it shipped puts it back to picked
  (`orders.ts:189`), and two toggles may leave the older count.
* Two fetches side by side import one eBay order twice (`server.ts:1053`). Two ships
  of one row may push quantities in the opposite order, and a typed order's ship
  offers again a copy eBay has sold but the seller not shipped (`ebay-sell.ts:598-606`).
* A pull sheet imported again makes its orders again.

Listings:

* `ebay-sell.ts:87-88` says three failures park a listing; a stop between counting
  the third and parking leaves it scheduled and never selected.
* A publish call that fails, or whose answer is lost, after a new offer was made
  (565-571) makes the retry create another. A second run that fails parks a listing
  the first has put live (126), and an end beside a publish marks a live listing ended (589).
* A bulk "list" of a sold row marks it listed again; a stop between
  `createListing`'s statements leaves a draft on a row in stock. The message after a
  bulk schedule counts listings it did not schedule.
* An export marks what it read and not what it wrote (`server.ts` 1249-1268). A listing
  with an inventory row behind it that `listings=` names is left out of the file (1252)
  and marked exported all the same; if it was scheduled it is never published. The
  page links blank listings only (`render/workspace2.ts:210`), the route takes any.
* The export of everything takes sold rows along, and a TCGplayer export marks
  listings as exported that it skips because they are graded (`server.ts` 1235-1270).

Accounts and workspaces:

* Two first sign-ups at once both claim the legacy seller (`README.md:369-370`).
* A reset that stops between the password and the sign-out leaves old sessions.
* Making a priced list of a shared one leaves its share link working; two clicks on
  share overwrite one another's token.

Connection and archive:

* Reconnecting with another eBay account keeps `last_sold_harvest`, so that
  account's older sales are never read (hence `OneAccountEach`).
* A refresh in flight, or a second sign-in, while the seller moves to another account
  can mix the two; a failing identity call leaves a row without a name, which no
  deletion notice matches, and an order under a buyer's former name is not cleared.
* A receipt is logged though clearing buyers failed (`ebay-deletion.ts:208-213`,
  against 196-197).

Settings, keyset, identification:

* Two channel pages saved at once lose one another's keys (`server.ts:1170`;
  line 1097 says the rest are kept as they were).
* A token request under way while keys are saved leaves the old keyset's token in the
  cache; a save that fails half way leaves half a keyset; a load that fails falls
  back to the environment silently (`ebay-config.ts:47`).
* A detail's text is cut out of the first word that holds it (`identify.ts:164`,
  comment at 158): "en" out of "greninja". The floor of .9 for a spoken set can
  auto-match a card whose number contradicts the line, and a preferred set can tie
  with the exact card. `parseCerts` does not say so when a range fills its 200.

Catalog, prices, search:

* A load of the photo index that overlaps the end of a build is stale until the next
  (10 minutes at most); two builds may write the hash of an older image; a failing
  statement lets a build's workers go on after it was rejected.
* Adopting a seeded card by number alone (`catalog-import.ts:250`) can take the wrong
  printing; a group that half failed does not count its cards and builds no hashes; a
  forced refresh stopped on a new product leaves a card with no variant; two
  importers duplicate cards.
* A sync stopped between its DELETE and INSERT leaves a printing without a price
  until the next; two syncs, or one beside an import, duplicate rows; synthetic
  prices stay until a sync gets to the end of the card.
* The price a search filters by is the greatest of all days (`search.ts`), not the
  latest (`pg.ts:187`, `README.md:120`); the price chip's cross removes nothing
  (`pages.ts:684`); counts shown with close matches may not hold after a click.

## Proofs

Every theorem is about any sets of sellers, items, rows, photos or sessions and any
budgets that meet the named assumptions of its module; a further hypothesis is a
definition of its own, named in the statement. Such a hypothesis is there because the
property fails without it (see above), and a run meets it. Each module first proves
types, in a form that is inductive: beside `TypeOK`, what a request has in hand for
its next statement.

A proof module EXTENDS two or three components that share nothing: each part has the
specification of its own component, and its theorems hold whatever the others do. What
is assumed of the constants is the ASSUME of the component, which TLC evaluates on
its run (`StockHolds`, `TitleHolds`, `DeskHolds`, `LiveHolds`, `SyncHolds`,
`SearchHolds`, `CatalogHolds`, `PhotoHolds` are the later ones).

`BatchCommitProofs`:

* `Typing`: `TypeOK`. A numbering and a blank listing write a counter they have
  computed, so `TypeInv` adds `LocalOK`, the room they checked for.
* `LinksLead`: `DupLinksLeadBack`, however requests overlap. Links are copied into
  request records, by detection before it writes them and by a commit that reads
  them, so `LinksInv` states the fact of those copies too.
* `StockIsWhole`: `NothingLostOrDoubled` and `SlabsStaySeparate`. It rests on
  `LinksInv`: a dropped item's link leads to a kept, earlier item, so the rows of one
  commit partition what it selected (`RowsPartition`). `StockInv` adds that rows
  carry the number of a commit that has happened, so old rows keep their commit's account.
* `SerialDraws`, `SerialAllocator`: under `OneAtATime`, `DrawnOnce` holds and the
  model implements `SkuAllocator`. `CounterInv`: SKUs drawn are below the counter, or
  below the number a numbering under way has reached, and a commit's copy of the
  counter is current.

`ArchiveProofs`:

* `ArchiveTypes`: `TypeOK`.
* `PaidOnly`: `OnlyPaid`. A request carries the orders eBay answered with and the row
  it is about to insert; the invariant says that those, too, have been paid.
* `NoSaleMissed`: `NoneOutOfReach`, under `Punctual` and `OneAccountEach`. The
  watermark is written after the orders are folded in, from a clock read before the
  call, and other harvests and imports go on meanwhile. `ReachInv` therefore says
  what each harvest under way has asked for, still has in hand, and may overlook when
  it writes the mark: only orders placed within the overlap. The proof is by cases
  over who writes a mark and who removes or pays an order. Without `Punctual` an order
  paid late falls behind the mark; without `OneAccountEach` it does after a move.
* `SaleArchivedOnce`: `SameSaleOnce`, under `OneOwner`. Harvests need no such thing:
  one upsert writes an order's line, or a feed's line with an id. A feed's line without
  one has only the import's own look before it inserts, so `OnceInv` says that only the
  owner's request holds such lines, and that the one it is about to insert is not there.

Of the catalog import and the photo index (`LibrarySpec`):

* `ImportKeepsItsInvariant`, `RecordedIsWhole`: `RecordedWhole`. A group is recorded when
  its last product was filed, so `ImportInv` says what is whole on the way: no product
  with two cards and no card with two defaults (`Single`); the card found for a product
  is the only one, and a printed card has the printings of the listing or still has them
  to come (`AtProduct`); the products left behind are filed (`BehindIt`). Rows are only
  added and filled in, never undone (`Richer`), so that what an earlier import recorded
  stays whole through later ones, failed or forced.
* `MissingIsGone`: `OnlyGone`, where the host keeps its mood during a build. `BuildInv`: an
  image a worker found absent is gone, or the host turns the server away now; and a
  build that has found the host to serve is not turned away (`Trusted`).

`OrdersProofs`. The model's sums are folds over finite sets. What they are is proved
without induction over an operator: `Total` is a function on subsets, and a smallest
set on which a claim fails gives a contradiction (`TotalTake`, `TotalIs`).

* `OrdersTypes`: counts stay counts, orders keep their shape, requests refer to what is there.
* `OrdersImportedOnce`: `ImportedOnce`, under `OneFetch`. `FetchInv`: what a fetch
  has still to import is not here yet, though others place, ship and delete meanwhile.
* `OrdersStockMatchesShipped`: `StockMatchesShipped`, under `OneClerk`. `ClerkInv`: an
  order being picked or shipped is there and not shipped, and the lines a ship has
  read are the order's lines. Then the units that `ShipTx` takes off are those the
  order adds to the shipped ones.
* `OrdersImplementFulfilment`: under both, `Orders` implements `Fulfilment`, each step
  a step of the order book or a stutter. `CountInv` bounds the ids: the orders there
  are, with those a fetch has still to import, are no more than was asked for.
* `OrdersEbayStockTrue`: `EbayStockTrue`, under both and `OneRowEach`. The balance
  between eBay's shelf, its waiting buyers and the row is out while a quantity is on
  its way. It is stated for two kinds of rows. One no buyer orders has the row's
  quantity on the shelf, or a request that shipped it is on its way to push it, while
  nothing has stopped (`TypedBalance`, `Pending`). For one buyers order, shelf and what is owed add up to
  the row at every moment, unless an order typed in has shipped from it
  (`BuyerBalance`): a buyer takes off the shelf what is then owed (`RefsInv`,
  `UnitsInv`), and a ship takes off the row what is no longer owed. `PastInv` says
  what a ship still has to push, and `EndedInv` that an ended listing has nothing left.

`ConnectionProofs`, under `OneAtATime`:

* `ConnectionTypes`: unconditional; a state of a sign-in that is redeemed has been
  consented to, and a row's user id and name are of one member (`StateOK`, `RowOK`).
* `ConnectionOneMember`: `OneMember`. Tokens, names and policies are fetched by
  requests and written later, so `HandInv` says it of everything a seller *has*: in the
  row, in the hand of any request, and in a sign-in still to come back.
* `ConnectionForgotten`: `Forgotten`. `GoneInv`, by the statements of the notice's
  handler: a delivered notice's account is closed and no request has its tokens in
  hand (`ClosedInv`), once swept no row is of it (`SweptInv`), once cleared no order
  bears the name (`ClearedInv`), and only then is it logged and answered (`NoticeInv`).

Of the keyset and the live searches (`LiveSpec`), without hypothesis:

* `KeptIsOfTheKeyset`: `NothingStale`. A search reads the keyset, waits twice and then
  writes what it got. `LiveInv` says of every search under way that it began with a
  keyset no newer than the last one read, and, if with that one, that its token is of it
  (`CallGood`): an answer that is kept under a newer keyset is known to be late.
* `CacheStaysBounded`: no more answers than the limit, one for each text.

`AccountsProofs`:

* `AccountsTypes`, `AccountsLinkOnce`: unconditional; a link is used at most once
  however many requests open it, because it is used up by the statement that finds it.
* `AccountsResetLinks`: `ResetLinks`, under `OneAsk`. `SentInv`: a request that is
  about to send a link has left no other that works.
* `AccountsIsolated`: `Isolated`, under `OneSignUp`. `MailInv`: the row a sign-up is
  about to claim is still nobody's, and a request that goes on for somebody goes on in
  the row with their e-mail; e-mails never change (`MailKept`).
* `AccountsOldPasswordOut`: `OldPasswordOut`, under `OneSignUp` and `Unbroken`.

Of the workspaces (`DeskSpec`), without hypothesis:

* `DeskTypesHold`: types; an address is locked before it fails as often as the limit.
* `FeedIsHonest`: `OwnerMarked`. The gate reads the cookies and the log row is written
  later, with sessions ending and plans changing in between. `DeskInv`: the sessions a
  browser has are of whoever sits there (`OwnSessions`), and a request runs as the one
  who sent it, or as any seller for the owner (`RunsAs`).
* `ListsAreTheirSellers`: `NothingTaken`, an action property, from the same invariant.

`PublishProofs`, in every world:

* `PublishTypes`.
* `PublishOneOffer`: `OneOffer`, where worlds of one request at a time meet
  `OffersKept`. `OfferInv`: an offer at eBay is in the row or in the hand of the
  request that made it.
* `PublishStatusTrue`: `StatusMatchesEbay`, where they meet `RowsKept`. `StatusInv`:
  a listing is as shown, or a request is about to write it; and the listings a run has
  still to do are not live.

Of the stock and its desks (`StockSpec`), without hypothesis:

* `StockTypesHold`, `ListedRowsHaveDrafts` (`ListedHasDraft`), `ExportMarksTheFile`
  (`ExportTrue`, an action property). `StockInv` adds to the types what a desk holds
  between its statements (`Held`): the row about to be marked has its listing, and a
  listing that was read for a file and is not in it is one the file leaves out, a slab
  of a TCGplayer file or a listing with a row behind it. Listings keep their row and
  kind (`Kept`) meanwhile. So a mark is
  of a listing the export had read, in the file or one of those.

Of the titles (`TitlesSpec`), without hypothesis:

* `NameIsKept`: `NameKept`, for any lengths, structures and limit. `TitleInv`: the anchored
  parts of the title being made are those of the title it began as, whatever was
  abbreviated or dropped meanwhile; when the cut comes, all of it fits, or the anchored
  parts stand first (`AllFits`, `ComesFirst`). `Said`, `Anchored` and `Joined` are
  recursive functions over a sequence; what they are is proved by choosing the function
  (`Recurses`) and an
  induction over a set of numbers (`Induct`), as for the groups of `Upload`. From it:
  abbreviating or dropping another part keeps the anchored ones (`AnchoredAgrees`,
  `AnchoredWithout`), what comes first is said first (`SaidFirst`), and the cut leaves
  whole as many of the first parts as fit (`WholeHolds`).

`UploadProofs`, for groups of any size up to a chunk and, but for `UploadWholeWhenFull`,
without further hypothesis:

* `UploadInvariant`: types, which batch each request is about (`RequestInv`), the photos
  and the room in it (`PhotosInv`), what fills it (`TallyInv`), and `SettledInv`.
* `UploadAllPhotosIn`: `AllPhotosIn`, groups before the first short one and that one
  without condition, later ones unless the batch is full. The page goes past a group when a chunk was
  answered, so its photos are in (`SentInv`); a chunk repeated, late or half done only
  adds some twice. What could break it is the cap: the server cuts a chunk to the room
  left. `RoomInv`: until a short group is in, the totals are whole chunks, and so is the
  room under a cap of whole chunks, so no group is cut. After that one may be, and then
  the batch is full: `TallyInv` labels every item by the request that has still to count
  it, or as counted or given up, so the total of an open batch never exceeds its items,
  and a chunk cut to the room fills it. `ChunkOK` says what a chunk under way has in hand
  and has put in.
* `UploadWholeWhenFull`: where every group but the last is full, as where the browser
  shrinks the photos (`FullGroups`), the page lands with every photo in the batch.
* `UploadSettledTrue`: `SettledTrue`, from `SettledInv`: while no request was given up
  on, only the one the page waits for is under way.

The groups one after another are the picked photos; that is an induction over their
number, by a set of numbers instead of an operator (`Induct`).

* `SavedIsUsedAlways` (`SettingsSpec`): `SavedIsUsed`. `SetupInv`: where no two channel
  pages have crossed, the one that is being saved has read what is still there
  (`ReadStill`); and the description in use is the one chosen, counted among those that
  were kept.

`PricingProofs`:

* `PricingTypes`: unconditional.
* `PricingOverrideIsTyped`, `PricingPriceOfPrinting`: under `OneRequest`. In `PriceInv`,
  an automatic price follows by the item's rule from a worth of its printing at its
  grade, or from a price it was filed at (`OwnedInv`), and a flagged one is the one
  typed last (`TypedInv`); requests that replace and save write the item they read
  (`CurrentInv`), and the price a replacement has worked out is of the printing it is
  about to write (`WorkedInv`). What counts as a worth only grows (`WorthInv`, `FiledInv`).

Of the public site (`SiteSpec`), a visitor searching at any moment of a sync:

* `SyncKeepsItsInvariant`: `SyncInv`, the types, with the statements between which the
  sync stands, and `Once` of the prices.
* `PricesAreOncePerDay`: `OncePerDay`. A printing's prices are replaced by three
  statements, and two sub-types may be one printing: the rows of today of the printing in
  hand are gone, then half there (`Between`). A sync that stops leaves a market price
  with its history at every one of them.
* `SyncedSetsArePriced`: `SetPriced`. The cards of the set the sync has left behind are
  priced (`Behind`), the one it is at but for the sub-types to come and the printing
  being replaced (`AtCard`, `Written`).
* `FacetsCountTheirCards`: `FacetsHonest`, at any state of the prices: following a facet
  changes one parameter, so the cards found are those counted with that one left out,
  and there is at least one, so that close matches are not looked for (`FollowShows`).

Proving changed the models where they said too little or too much: a sync step now
needs a line whose SKU has a row, and skips the others (`SyncSkip` in `Orders`); groups
in `Upload` are made of picked photos; what comes after a ship takes all lines at once.

Only model-checked:

* Liveness (`DueHandled`, `PaidIsArchived`, `ImportEnds`, `EventuallyForgotten`) and
  ENABLED, which the prover does not reach.
* `LinesInOrders` and `CardsArrive`, which are about what comes out of a CSV or multipart
  text that was written and read again. The models filter and fold sequences of tokens
  by the library's operators; the provers do not see into `SelectSeq` and the folds, and
  the induction is over the text.
* `ExactFound`, which is not a theorem: a card whose name is a letter away, in the typed
  language and within the window of the best score, may be preferred to the exact one.
  TLC checks it on cards that are not that alike.
* `Dropzone`, `Identify`, `Sheets` and `Multipart` otherwise, which have no proofs.

## Not modelled

* The page code, which is the larger part of the repository: some 5400 lines of
  functions from a row to HTML (`render/`), with no state. The upload script, the
  facet links and the chips are the exceptions and are modelled.
* The public sales lookup (`sales.ts`) and link-outs: one read of the archive per
  page. When more than 200 sales match and they are sorted by price, its "last sold"
  figures are those of the rows kept.
* Seed and maintenance scripts, schema bootstraps: run once on an idle database.
* The owner's statistics and search queries, which only read.
* Inside modelled parts: the columns of a CSV that no reader uses, item specifics,
  description text, the ship-from location, the signature of a deletion notice,
  suggestions while typing, card pages, sorting, slugs, the prices the import writes,
  lists of cert numbers, the HTTP recognizers, how cards are found on a photo (`findCards`).
* Row locks and the connection pool's limit.

## Plan

1. `CardsArrive` and `LinesInOrders` for one file and one group at a time, with the
   readers written as recursive functions, as was done for `Titles`.
2. The close matches of `Identify`: what `ExactFound` would have to assume of a catalog.
3. The ship-from location and the sales lookup; `Stock` and `Orders` over one table.
