------------------------------- MODULE Dropzone -------------------------------
(***************************************************************************)
(* The upload page before and while a batch is sent (render/app.ts): the   *)
(* photos picked, the layout, the cards found on them, and the job a run   *)
(* of the upload works off; and how a request's photos become cards on the *)
(* server (upload.ts, server.ts).                                          *)
(*                                                                         *)
(* Pressing the button starts a run.  Whatever changes the pick drops the  *)
(* job, also under a run that is under way.  A request is one step here,   *)
(* served or failed: its statements, and answers that are lost, are in     *)
(* Upload.  How cards are found on a photo is the browser's matter.        *)
(***************************************************************************)
EXTENDS Multipart, FiniteSetsExt

CONSTANTS
    Drops,        \* what is picked at once: lists of photos
    SizeOf,       \* SizeOf[f]: bytes
    CardsIn,      \* CardsIn[f]: the cards the page would find on f (one, if it cannot decode it)
    Bytes(_, _),  \* the content of f, or of the i-th card cut out of it
    Taken,        \* the photos the server takes for images as they are
    Drawable,     \* the photos the browser can decode, and so shrink and cut
    Chunk,        \* UPLOAD_CHUNK_FILES
    Cap,          \* the plan's cards per batch
    MaxBytes,     \* MAX_UPLOAD_BYTES
    Edits,        \* bound: changes of the pick
    Rounds,       \* bound: presses of the button
    Faults        \* bound: failed requests

NoJob == [batch |-> -1, next |-> 0, ready |-> <<>>]
Layouts == {"single", "pairs", "multi"}

VARIABLES
    browser,  \* does it run the page's browser, and does it shrink photos?
    picked,   \* the photos chosen, in order
    layout,   \* what is on each photo
    swapped,  \* are the backs first?
    det,      \* the photos searched for cards
    todo,     \* the photos a search under way has still to go through
    button,   \* may the upload button be pressed?
    job,      \* batch, next group, groups made ready
    run,      \* the runs of the upload, in the order they were started
    sent,     \* the batches on the server: the cards of each, and whether it is closed
    landed,   \* the cards a page that went on was to send, and the batch it shows
    alone,    \* was the page left alone under every run so far? (observed)
    used      \* edits and faults so far

dropzone == <<browser, picked, layout, swapped, det, todo, button, job, run, sent, landed, alone, used>>

Nowhere == [batch |-> 0, units |-> <<>>]
DropzoneInit ==
    /\ browser \in {"no script", "script", "shrinks"}
    /\ picked = <<>> /\ layout = "single" /\ swapped = FALSE
    /\ det = {} /\ todo = <<>> /\ button = FALSE
    /\ job = NoJob /\ run = <<>> /\ sent = <<>> /\ landed = Nowhere
    /\ alone = TRUE /\ used = [edits |-> 0, faults |-> 0]

-----------------------------------------------------------------------------
(* Units: a photo, a card on a photo, or a front with its back.            *)

Scripted == browser # "no script"
Shrinks == browser = "shrinks"
Multi(lay) == lay = "multi" /\ Shrinks

Whole(f) == [file |-> f, rect |-> 0, back |-> None]
Cut(f, seen) == f \in seen /\ CardsIn[f] > 1
CardsOf(f, lay, seen) == IF Multi(lay) /\ Cut(f, seen) THEN CardsIn[f] ELSE 1

PairsOf(photos, turned) ==
    [i \in 1..(Len(photos) \div 2) |->
        LET a == photos[2 * i - 1]
            b == photos[2 * i]
        IN  IF turned THEN [Whole(b) EXCEPT !.back = a] ELSE [Whole(a) EXCEPT !.back = b]]

UnitsOf ==
    IF layout = "pairs" THEN PairsOf(picked, swapped)
    ELSE FlattenSeq([i \in DOMAIN picked |->
             IF Multi(layout) /\ Cut(picked[i], det)
             THEN [k \in 1..CardsIn[picked[i]] |-> [Whole(picked[i]) EXCEPT !.rect = k]]
             ELSE <<Whole(picked[i])>>])

\* Groups of at most a chunk, and of at most nine tenths of the bytes a request may have;
\* only the fronts are weighed, and nothing is where photos are shrunk.
Weight(u) == IF Shrinks THEN 0 ELSE SizeOf[u.file]
GroupsOf(units) ==
    LET weigh(g) == FoldLeft(LAMBDA n, u : n + Weight(u), 0, g)
        add(gs, u) ==
            IF gs = <<>> \/ Len(Last(gs)) >= Chunk \/ 10 * (weigh(Last(gs)) + Weight(u)) > 9 * MaxBytes
            THEN Append(gs, <<u>>)
            ELSE [gs EXCEPT ![Len(gs)] = Append(@, u)]
    IN  FoldLeft(add, <<>>, units)

-----------------------------------------------------------------------------
(* The server: what a request's files make of cards.                       *)

\* What is shrunk, or cut out, arrives as a JPEG.
Arrives(f) == f \in Taken \/ (Shrinks /\ f \in Drawable)
File(field, f, rect) ==
    [field |-> field, filename |-> f, type |-> IF Arrives(f) THEN "image/jpeg" ELSE "other", data |-> Bytes(f, rect)]
FormData(units) ==
    <<[field |-> "layout", filename |-> None, type |-> None, data |-> <<<<layout>>>>]>>
    \o FlattenSeq([i \in DOMAIN units |->
           <<File("images", units[i].file, units[i].rect)>>
           \o (IF units[i].back = None THEN <<>> ELSE <<File("backs", units[i].back, 0)>>)])

IsImage(p) == p.type = "image/jpeg"
FrontOnly(p) == [front |-> p.data, back |-> <<None>>]

\* Backs go to fronts by their order; without any, a form that says "pairs" is in shooting
\* order, front and back.
PairPhotos(parts) ==
    LET images(field) == SelectSeq(FilesIn(parts), LAMBDA p : p.field = field /\ IsImage(p))
        fronts == images("images")
        backs == images("backs")
        with(f, others, i) == IF i \in DOMAIN others THEN [FrontOnly(f) EXCEPT !.back = others[i].data] ELSE FrontOnly(f)
    IN  IF backs # <<>> THEN [i \in DOMAIN fronts |-> with(fronts[i], backs, i)]
        ELSE IF FieldIn(parts, "layout") = <<<<"pairs">>>> /\ Len(fronts) >= 2
        THEN [i \in 1..((Len(fronts) + 1) \div 2) |-> with(fronts[2 * i - 1], fronts, 2 * i)]
        ELSE [i \in DOMAIN fronts |-> FrontOnly(fronts[i])]

Received(units) == PairPhotos(ParseMultipart(WriteMultipart(FormData(units))))

\* readBodyBuffer turns a body over the limit away.
Heavy(units) ==
    LET size(f) == IF Shrinks /\ f \in Drawable THEN 0 ELSE SizeOf[f]
    IN  MapThenSumSet(LAMBDA i : size(units[i].file) + (IF units[i].back = None THEN 0 ELSE size(units[i].back)),
                      DOMAIN units) > MaxBytes

-----------------------------------------------------------------------------
(* The page's pick.                                                        *)

\* check
Fits(photos, lay, seen) ==
    /\ lay = "pairs" => Len(photos) % 2 = 0
    /\ (IF lay = "pairs" THEN Len(photos) \div 2
        ELSE MapThenSumSet(LAMBDA i : CardsOf(photos[i], lay, seen), DOMAIN photos)) <= Cap
    /\ \A i \in DOMAIN photos : SizeOf[photos[i]] <= MaxBytes

Running == {r \in DOMAIN run : run[r].pc \in {"start", "group", "send", "finish"}}
Open == landed = Nowhere

\* Mutant of Edited: a change of the pick goes on with the job there is.
EditedKeepingJob ==
    /\ Open /\ used.edits < Edits
    /\ used' = [used EXCEPT !.edits = @ + 1]
    /\ alone' = (alone /\ Running = {})
    /\ UNCHANGED job

\* Whatever changes the pick drops the job.
Edited ==
    /\ Open /\ used.edits < Edits
    /\ used' = [used EXCEPT !.edits = @ + 1]
    /\ alone' = (alone /\ Running = {})
    /\ job' = NoJob

\* render: the button is set by the pick alone, whatever is under way.
Render(photos, lay, seen, left) ==
    button' = (photos # <<>> /\ Fits(photos, lay, seen) /\ ~(Multi(lay) /\ left # <<>>))

\* analyze: photos not searched yet are searched, in the layout that asks for it.
Analyze(photos, lay, seen, left) ==
    IF Multi(lay) /\ left = <<>> THEN SelectSeq(photos, LAMBDA f : f \notin seen) ELSE left

Picked(photos, lay) ==
    /\ Edited
    /\ picked' = photos /\ layout' = lay
    /\ todo' = Analyze(photos, lay, det, todo)
    /\ Render(photos, lay, det, todo')
    /\ UNCHANGED <<browser, det, run, sent, landed>>

\* A photo that is picked already is not added again; the job is dropped all the same.
AddFiles(list) ==
    Picked(picked \o SelectSeq(list, LAMBDA f : f \notin ToSet(picked)), layout) /\ UNCHANGED swapped
ChooseLayout(lay) == lay # layout /\ Picked(picked, lay) /\ UNCHANGED swapped
Swap ==
    /\ layout = "pairs" /\ Len(picked) > 1 /\ Scripted
    /\ swapped' = ~swapped
    /\ Picked(picked, layout)
Clear ==
    /\ picked # <<>> /\ Scripted
    /\ Edited
    /\ picked' = <<>>
    /\ Render(<<>>, layout, det, todo)
    /\ UNCHANGED <<browser, layout, swapped, det, todo, run, sent, landed>>

\* Photos are searched one at a time; after the last, those picked meanwhile are.
Detect ==
    /\ todo # <<>> /\ Open
    /\ det' = det \cup {Head(todo)}
    /\ todo' = Analyze(picked, layout, det', Tail(todo))
    /\ Render(picked, layout, det', todo')
    /\ UNCHANGED <<browser, picked, layout, swapped, job, run, sent, landed, alone, used>>

-----------------------------------------------------------------------------
(* run().                                                                  *)

Press ==
    /\ Scripted /\ button /\ Open /\ Len(run) < Rounds
    /\ picked # <<>> /\ Fits(picked, layout, det)
    /\ job' = IF job = NoJob THEN [batch |-> 0, next |-> 1, ready |-> <<>>] ELSE job
    /\ run' = Append(run, [pc |-> IF job'.batch = 0 THEN "start" ELSE "group",
                           units |-> UnitsOf, groups |-> GroupsOf(UnitsOf),
                           batch |-> job'.batch, at |-> 1, items |-> <<>>])
    /\ button' = FALSE
    /\ alone' = (alone /\ Running = {})
    /\ UNCHANGED <<browser, picked, layout, swapped, det, todo, sent, landed, used>>

Goto(r, pc) == run' = [run EXCEPT ![r].pc = pc]
Fail(r) == Goto(r, "over") /\ button' = TRUE

\* A request that fails, or a step that finds no job, ends the run; the job, if any, stays.
Broken(r) ==
    /\ run[r].pc \in {"start", "send", "finish"} /\ used.faults < Faults
    /\ used' = [used EXCEPT !.faults = @ + 1]
    /\ Fail(r)
    /\ UNCHANGED <<job, sent, landed>>
Jobless(r) ==
    /\ run[r].pc \in {"group", "finish"} /\ job = NoJob
    /\ Fail(r)
    /\ UNCHANGED <<job, sent, landed, used>>

\* The job may be gone, or another, by the time the batch is open.
Start(r) ==
    /\ run[r].pc = "start"
    /\ sent' = Append(sent, [cards |-> <<>>, closed |-> FALSE])
    /\ IF job = NoJob THEN Fail(r) /\ UNCHANGED job
       ELSE /\ job' = [job EXCEPT !.batch = Len(sent')]
            /\ run' = [run EXCEPT ![r].pc = "group", ![r].batch = Len(sent')]
            /\ UNCHANGED button
    /\ UNCHANGED <<landed, used>>

\* Groups the job is past are left out; the one that is sent and the next are made ready once.
Ready(gs, at) ==
    [g \in DOMAIN job.ready \cup ({at, at + 1} \cap DOMAIN gs) |-> IF g \in DOMAIN job.ready THEN job.ready[g] ELSE gs[g]]
Group(r) ==
    /\ run[r].pc = "group" /\ job # NoJob
    /\ LET gs == run[r].groups
           at == run[r].at
       IN  CASE at > Len(gs) -> Goto(r, "finish") /\ UNCHANGED job
             [] at <= Len(gs) /\ at < job.next -> run' = [run EXCEPT ![r].at = at + 1] /\ UNCHANGED job
             [] OTHER -> /\ job' = [job EXCEPT !.ready = Ready(gs, at)]
                         /\ run' = [run EXCEPT ![r].pc = "send", ![r].items = job'.ready[at]]
    /\ UNCHANGED <<button, sent, landed, used>>

\* A chunk for a closed or full batch, or over the limit, is refused.
Send(r) ==
    /\ run[r].pc = "send"
    /\ LET b == run[r].batch
           room == Cap - Len(sent[b].cards)
           refused == sent[b].closed \/ room <= 0 \/ Heavy(run[r].items)
           cards == Received(run[r].items)
       IN  /\ sent' = IF refused THEN sent
                      ELSE [sent EXCEPT ![b].cards = @ \o SubSeq(cards, 1, Min({room, Chunk, Len(cards)}))]
           /\ IF refused \/ job = NoJob THEN Fail(r) /\ UNCHANGED job
              ELSE /\ job' = [job EXCEPT !.next = run[r].at + 1,
                                        !.ready = [g \in DOMAIN @ \ {run[r].at} |-> @[g]]]
                   /\ run' = [run EXCEPT ![r].pc = "group", ![r].at = @ + 1]
                   /\ UNCHANGED button
    /\ UNCHANGED <<landed, used>>

\* The batch that is finished is the job's.
Finish(r) ==
    /\ run[r].pc = "finish" /\ job # NoJob
    /\ LET b == job.batch
       IN  IF b = 0 \/ sent[b].closed \/ sent[b].cards = <<>>
           THEN Fail(r) /\ UNCHANGED <<sent, landed>>
           ELSE /\ sent' = [sent EXCEPT ![b].closed = TRUE]
                /\ landed' = [batch |-> b, units |-> run[r].units]
                /\ Goto(r, "landed") /\ UNCHANGED button
    /\ UNCHANGED <<job, used>>

RunNext(r) ==
    /\ Open
    /\ Start(r) \/ Group(r) \/ Send(r) \/ Finish(r) \/ Broken(r) \/ Jobless(r)
    /\ UNCHANGED <<browser, picked, layout, swapped, det, todo, alone>>

\* Without script the form is sent as it is, once.
PlainForm ==
    /\ ~Scripted /\ Open /\ picked # <<>>
    /\ LET whole == [i \in DOMAIN picked |-> Whole(picked[i])]
           cards == Received(whole)
       IN  /\ ~Heavy(whole) /\ cards # <<>>
           /\ sent' = Append(sent, [cards |-> SubSeq(cards, 1, Min({Cap, Len(cards)})), closed |-> TRUE])
           /\ landed' = [batch |-> Len(sent'),
                         units |-> IF layout # "pairs" THEN whole
                                   ELSE PairsOf(picked, FALSE)
                                        \o (IF Len(picked) % 2 = 0 THEN <<>> ELSE <<Last(whole)>>)]
    /\ UNCHANGED <<browser, picked, layout, swapped, det, todo, button, job, run, alone, used>>

DropzoneNext ==
    \/ \E list \in Drops : AddFiles(list)
    \/ \E lay \in Layouts : ChooseLayout(lay)
    \/ Detect \/ Swap \/ Clear \/ Press \/ PlainForm
    \/ \E r \in DOMAIN run : RunNext(r)

-----------------------------------------------------------------------------
(* Properties.                                                             *)

CardOf(u) == [front |-> Bytes(u.file, u.rect), back |-> IF u.back = None THEN <<None>> ELSE Bytes(u.back, 0)]
Good(u) == Arrives(u.file) /\ (u.back # None => Arrives(u.back))

\* "Nothing is lost; press Retry to continue": the batch the page goes on to has each card
\* that was to be sent, once, in order, byte for byte and with its own back, whatever failed,
\* and whatever was picked, cleared or swapped between two runs.  True of photos that arrive
\* as images, and of a page that is left alone while it uploads.
CardsArrive ==
    (landed.batch # 0 /\ alone /\ \A i \in DOMAIN landed.units : Good(landed.units[i])) =>
        sent[landed.batch].cards =
            [i \in 1..Min({Cap, Len(landed.units)}) |-> CardOf(landed.units[i])]

=============================================================================
