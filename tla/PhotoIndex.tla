------------------------------ MODULE PhotoIndex ------------------------------
(***************************************************************************)
(* The photo-ID index beside the catalog import: builds that fetch and     *)
(* hash the cards' images (app/hashindex.ts), the copy of the index the    *)
(* matcher keeps in memory and the identification of a photo with it       *)
(* (app/vision.ts).                                                        *)
(*                                                                         *)
(* A build's workers take the cards in any order and are served between    *)
(* one another, the import and the photo.  The import awaits the build it  *)
(* starts; the owner's button and the boot start theirs in the background. *)
(* The image host is external: an image it has not answers 403 or 404, and *)
(* so does every image while the host turns the server away.  The text     *)
(* lookup of a hint ranks the cards it may offer in any order.             *)
(***************************************************************************)
EXTENDS Catalog

CONSTANTS
    Gone,         \* images the host does not have
    Photos,       \* what photos look like: the distance to the card image of each URL
    Excluded,     \* groups whose set the seller's matching options exclude
    TextScores,   \* percent the text lookup may be sure of its best card
    Steady        \* TRUE: the host's mood does not change during a build

PhotoHolds ==
    /\ Gone \subseteq Images
    /\ Photos \subseteq [Images -> Nat]
    /\ Excluded \subseteq Groups
    /\ TextScores \subseteq 0..99
    /\ Steady \in BOOLEAN
ASSUME PhotoIndexAssumption == PhotoHolds

VARIABLES
    hash,      \* card_image_hashes: hash[c] is the URL card c was hashed at
    missing,   \* card_image_missing: URL, and whether it was checked lately
    build,     \* the builds running in this process
    cached,    \* the matcher's copy of the index
    photo,     \* the photo being identified
    blocked,   \* the host turns this server away (external)
    onWord     \* cards recorded missing with nothing hashed to check the host by (observed)

indexVars == <<hash, missing, build, cached, photo, blocked, onWord>>
libraryVars == <<mirror, recorded, sets, cards, printings, job, whole, spent,
                 hash, missing, build, cached, photo, blocked, onWord>>

Builders == {"import", "owner"}      \* the build an import awaits, and one of the owner or the boot
NoMissing == [image |-> NoImage]
NoCache == {<<NoId, NoImage>>}
Stages == {"out", "queued", "fetched", "stored", "absent", "done"}

BuildRec == [pc : {"idle", "boot", "work", "orphan"}, url : [Ids -> Images \cup {NoImage}],
             was : SUBSET Ids, stage : [Ids -> Stages], check : {"none", "ok", "bad", "noref"},
             done : BOOLEAN]
NoBuild == [pc |-> "idle", url |-> [c \in Ids |-> NoImage], was |-> {},
            stage |-> [c \in Ids |-> "out"], check |-> "none", done |-> FALSE]

PhotoRec == [pc : {"idle", "load", "memo", "hint", "answered"}, looks : Photos,
             index : SUBSET (Ids \X Images), status : {"none", "failed", "matched", "needs_review"},
             card : Ids \cup {NoId}]
NoPhoto == [pc |-> "idle", looks |-> CHOOSE f \in Photos : TRUE, index |-> {},
            status |-> "none", card |-> NoId]

IndexInit ==
    /\ hash = [c \in Ids |-> NoImage]
    /\ missing = [c \in Ids |-> NoMissing]
    /\ build = [b \in Builders |-> NoBuild]
    /\ cached = NoCache
    /\ photo = NoPhoto
    /\ blocked \in BOOLEAN
    /\ onWord = {}

-----------------------------------------------------------------------------
(* What there is to do.                                                    *)

\* Cards with an image; a card's current URL.
Pictured == {c \in Ids : Exists(c) /\ cards[c].image # NoImage}
Url(c) == cards[c].image
Missed(c) == missing[c] # NoMissing

\* hashIndexCoverage: what a default build would fetch, as the query counts it.
Pending == {c \in Pictured : hash[c] # Url(c)
                             /\ ~(Missed(c) /\ missing[c].image = Url(c) /\ missing[c].recent)}

\* buildHashIndex: new or changed images, but for those known missing unless retried.
Todo(retry) ==
    {c \in Pictured : hash[c] # Url(c) /\ (retry \/ ~(missing[c].image = Url(c) /\ missing[c].recent))}

Working(todo) ==
    [NoBuild EXCEPT !.pc = "work", !.url = [c \in Ids |-> IF c \in todo THEN Url(c) ELSE NoImage],
                    !.was = {c \in todo : Missed(c)},
                    !.stage = [c \in Ids |-> IF c \in todo THEN "queued" ELSE "out"]]

-----------------------------------------------------------------------------
(* A build is started.                                                     *)

\* The import has new cards.
ImportBuild ==
    /\ job.pc = "hash" /\ build["import"].pc = "idle"
    /\ build' = [build EXCEPT !["import"] = Working(Todo(FALSE))]
    /\ UNCHANGED <<catalogVars, hash, missing, cached, photo, blocked, onWord>>

\* The owner's buttons: not while an import runs.
OwnerBuild(retry) ==
    /\ Spend
    /\ ~Running
    /\ build["owner"].pc = "idle"
    /\ build' = [build EXCEPT !["owner"] = Working(Todo(retry))]
    /\ UNCHANGED <<mirror, recorded, sets, cards, printings, job, whole, hash, missing, cached, photo, blocked, onWord>>

\* startHashIndexOnBoot, past its look at the coverage.
BootBuild ==
    /\ build["owner"].pc = "boot"
    /\ build' = [build EXCEPT !["owner"] = Working(Todo(FALSE))]
    /\ UNCHANGED <<catalogVars, hash, missing, cached, photo, blocked, onWord>>

-----------------------------------------------------------------------------
(* A worker's card, statement by statement.                                *)

At(b, c, stage) == build[b].pc \in {"work", "orphan"} /\ build[b].stage[c] = stage

\* fetchImage: the body, or two answers that there is no such image.
FetchImage(b, c) ==
    /\ At(b, c, "queued")
    /\ build' = [build EXCEPT ![b].stage[c] =
           IF blocked \/ build[b].url[c] \in Gone THEN "absent" ELSE "fetched"]
    /\ UNCHANGED <<catalogVars, hash, missing, cached, photo, blocked, onWord>>

WriteHash(b, c) ==
    /\ At(b, c, "fetched")
    /\ hash' = [hash EXCEPT ![c] = build[b].url[c]]
    /\ build' = [build EXCEPT ![b].stage[c] = IF c \in build[b].was THEN "stored" ELSE "done",
                              ![b].done = @ \/ c \notin build[b].was]
    /\ UNCHANGED <<catalogVars, missing, cached, photo, blocked, onWord>>

DeleteMissing(b, c) ==
    /\ At(b, c, "stored")
    /\ missing' = [missing EXCEPT ![c] = NoMissing]
    /\ build' = [build EXCEPT ![b].stage[c] = "done", ![b].done = TRUE]
    /\ UNCHANGED <<catalogVars, hash, cached, photo, blocked, onWord>>

\* A reset, a timeout, an image that does not decode, a failed statement: counted.  One that
\* fails after the fetch and before the write leaves what one that fails at once leaves.
CardFails(b, c) ==
    /\ \E stage \in {"queued", "stored"} : At(b, c, stage)
    /\ build' = [build EXCEPT ![b].stage[c] = "done"]
    /\ UNCHANGED <<catalogVars, hash, missing, cached, photo, blocked, onWord>>

\* Mutant of HostServes: any image hashed before vouches for the host, fetched or not.
HostServesUnchecked(ref) == TRUE

\* Whether the host serves the image ref it served before.
HostServes(ref) == ~blocked /\ ref \notin Gone

\* hostServesImages: once a pass, before the first image is recorded as missing.
HostCheck(b) ==
    /\ build[b].check = "none" /\ \E c \in Ids : At(b, c, "absent")
    /\ LET hashed == {hash[c] : c \in Ids} \ {NoImage}
       IN  \E check \in IF hashed = {} THEN {"noref"}
                        ELSE {IF HostServes(ref) THEN "ok" ELSE "bad" : ref \in hashed} \cup {"bad"} :
              build' = [build EXCEPT ![b].check = check]
    /\ UNCHANGED <<catalogVars, hash, missing, cached, photo, blocked, onWord>>

RecordMissing(b, c) ==
    /\ At(b, c, "absent") /\ build[b].check # "none"
    /\ build' = [build EXCEPT ![b].stage[c] = "done"]
    /\ IF build[b].check = "bad"
       THEN UNCHANGED <<missing, onWord>>
       ELSE /\ missing' = [missing EXCEPT ![c] = [image |-> build[b].url[c], recent |-> TRUE]]
            /\ onWord' = IF build[b].check = "noref" THEN onWord \cup {c} ELSE onWord \ {c}
    /\ UNCHANGED <<catalogVars, hash, cached, photo, blocked>>

AllDone(b) == \A c \in Ids : build[b].stage[c] \in {"out", "done"}

\* The import that awaits a build goes on when it returns or throws.
Awaited(b) == job' = IF b = "import" /\ job.pc = "hash" THEN NoJob ELSE job

\* A statement that fails while a missing image is recorded ends the build, not its workers.
BuildThrows(b, c) ==
    /\ build[b].pc = "work" /\ At(b, c, "absent")
    /\ build' = [build EXCEPT ![b].pc = "orphan", ![b].stage[c] = "done"]
    /\ Awaited(b)
    /\ UNCHANGED <<mirror, recorded, sets, cards, printings, whole, spent,
                   hash, missing, cached, photo, blocked, onWord>>

\* The copy in memory is dropped when something was hashed and the build did not throw.
BuildDone(b) ==
    /\ build[b].pc \in {"work", "orphan"} /\ AllDone(b)
    /\ build' = [build EXCEPT ![b] = NoBuild]
    /\ cached' = IF build[b].pc = "work" /\ build[b].done THEN NoCache ELSE cached
    /\ IF build[b].pc = "work" THEN Awaited(b) ELSE job' = job
    /\ UNCHANGED <<mirror, recorded, sets, cards, printings, whole, spent,
                   hash, missing, photo, blocked, onWord>>

-----------------------------------------------------------------------------
(* A photo is identified.                                                  *)

PhotoStart(looks) ==
    /\ Spend
    /\ photo.pc = "idle"
    /\ photo' = IF cached = NoCache THEN [NoPhoto EXCEPT !.pc = "load", !.looks = looks]
                ELSE [NoPhoto EXCEPT !.pc = "hint", !.looks = looks, !.index = cached]
    /\ UNCHANGED <<mirror, recorded, sets, cards, printings, job, whole, hash, missing, build, cached, blocked, onWord>>

\* loadHashIndex: the query, and then the copy, which an empty index does not become.
LoadIndex ==
    /\ photo.pc = "load"
    /\ photo' = [photo EXCEPT !.pc = "memo", !.index = {<<c, hash[c]>> : c \in {d \in Ids : hash[d] # NoImage}}]
    /\ UNCHANGED <<catalogVars, hash, missing, build, cached, blocked, onWord>>

KeepIndex ==
    /\ photo.pc = "memo"
    /\ cached' = IF photo.index = {} THEN cached ELSE photo.index
    /\ photo' = IF photo.index = {} THEN NoPhoto ELSE [photo EXCEPT !.pc = "hint"]
    /\ UNCHANGED <<catalogVars, hash, missing, build, blocked, onWord>>

Distance(p, entry) == p.looks[entry[2]]
Nearest(p) == {e \in p.index : \A f \in p.index : Distance(p, e) <= Distance(p, f)}
NearTie(p, e) == \E f \in p.index \ {e} : Distance(p, f) - Distance(p, e) < 2

\* HashProvider.identify: percent, 0 when the photo is like no card.
Sure(p, e) ==
    LET d == Distance(p, e)
        near == CASE d <= 6 -> 97 [] d \in 7..10 -> 85 [] d \in 11..14 -> 75 [] d \in 15..18 -> 55 [] OTHER -> 0
    IN  IF NearTie(p, e) THEN Min({near, 70}) ELSE near

\* The cards identify may offer: a printing to sell, in no excluded set.
Offerable == {c \in Ids : Exists(c) /\ cards[c].group \notin Excluded /\ Have(printings[c]) # {}}

\* The photo's card goes first when the lookup offers it; else the answer is left in doubt.
Pin(pinned, best, others, sure) ==
    CASE best = pinned -> [card |-> best, sure |-> sure]
      [] best # pinned /\ pinned \in others -> [card |-> pinned, sure |-> sure]
      [] best # pinned /\ pinned \notin others -> [card |-> best, sure |-> Min({sure, 70})]

\* visionIdentify, past the recognizer: the hint is looked up and the photo caps the result.
Answer ==
    /\ photo.pc = "hint"
    /\ \E e \in Nearest(photo) :
          \/ /\ Sure(photo, e) = 0 \/ Offerable = {}
             /\ photo' = [photo EXCEPT !.pc = "answered", !.status = "failed"]
          \/ /\ Sure(photo, e) > 0
             /\ \E best \in Offerable, text \in TextScores : \E others \in SUBSET (Offerable \ {best}) :
                    LET r == Pin(e[1], best, others, Min({text, Sure(photo, e)}))
                    IN  photo' = [photo EXCEPT !.pc = "answered", !.card = r.card,
                                     !.status = IF r.sure >= 90 THEN "matched" ELSE "needs_review"]
    /\ UNCHANGED <<catalogVars, hash, missing, build, cached, blocked, onWord>>

\* The card is on its review page, or in the batch.
PhotoEnd ==
    /\ photo.pc = "answered"
    /\ photo' = NoPhoto
    /\ UNCHANGED <<catalogVars, hash, missing, build, cached, blocked, onWord>>

-----------------------------------------------------------------------------
(* The world around.                                                       *)

\* Ten minutes passed.
Expire ==
    /\ cached # NoCache
    /\ cached' = NoCache
    /\ UNCHANGED <<catalogVars, hash, missing, build, photo, blocked, onWord>>

\* Thirty days passed since an image was found missing.
Age(c) ==
    /\ Spend
    /\ Missed(c) /\ missing[c].recent
    /\ missing' = [missing EXCEPT ![c].recent = FALSE]
    /\ UNCHANGED <<mirror, recorded, sets, cards, printings, job, whole, hash, build, cached, photo, blocked, onWord>>

\* The host turns the server away, or serves it again.
HostTurns ==
    /\ Spend
    /\ Steady => \A b \in Builders : build[b].pc \notin {"work", "orphan"}
    /\ blocked' = ~blocked
    /\ UNCHANGED <<mirror, recorded, sets, cards, printings, job, whole, hash, missing, build, cached, photo, onWord>>

\* A restart: the import, the builds, the photo and the copy of the index are lost, the rows
\* stay, and the index is filled in the background when it is behind.
Restart ==
    /\ Spend
    /\ job' = NoJob
    /\ build' = [b \in Builders |-> IF b = "owner" /\ Pending # {} THEN [NoBuild EXCEPT !.pc = "boot"] ELSE NoBuild]
    /\ cached' = NoCache
    /\ photo' = NoPhoto
    /\ UNCHANGED <<mirror, recorded, sets, cards, printings, whole, hash, missing, blocked, onWord>>

CardSteps(b, c) ==
    \/ FetchImage(b, c) \/ WriteHash(b, c) \/ DeleteMissing(b, c) \/ CardFails(b, c)
    \/ RecordMissing(b, c) \/ BuildThrows(b, c)

BuildSteps(b) == HostCheck(b) \/ BuildDone(b) \/ \E c \in Ids : CardSteps(b, c)

PhotoSteps == LoadIndex \/ KeepIndex \/ Answer \/ PhotoEnd

LibraryNext ==
    \/ (CatalogOwner \/ ImportSteps) /\ UNCHANGED indexVars
    \/ ImportBuild \/ BootBuild
    \/ \E retry \in BOOLEAN : OwnerBuild(retry)
    \/ \E b \in Builders : BuildSteps(b)
    \/ \E looks \in Photos : PhotoStart(looks)
    \/ PhotoSteps
    \/ Expire \/ HostTurns \/ Restart
    \/ \E c \in Ids : Age(c)

LibraryInit == CatalogInit /\ IndexInit

\* Every fetch has a time limit and a bounded number of tries, so a step is always next.
ImportGoesOn == (ImportSteps /\ UNCHANGED indexVars) \/ ImportBuild \/ BuildSteps("import")

LibrarySpec == LibraryInit /\ [][LibraryNext]_libraryVars
FairLibrarySpec == LibrarySpec /\ WF_libraryVars(ImportGoesOn)

-----------------------------------------------------------------------------
(* Properties.                                                             *)

\* "A host that turns this server away answers 403 too": while the host keeps its mood through
\* a build, an image it does have is never recorded as missing, unless nothing was hashed yet
\* by which the host could be checked.
OnlyGone == \A c \in Ids : (Missed(c) /\ missing[c].image \notin Gone) => c \in onWord

\* An import ends, with what it awaits: the "running" that turns every later one away is
\* cleared however its groups, its fetches and its build went.
ImportEnds == Running ~> ~Running

=============================================================================
