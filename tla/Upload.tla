------------------------------- MODULE Upload -------------------------------
(***************************************************************************)
(* One photo batch on its way in: the dropzone script that opens a batch,  *)
(* sends the photos in chunks and finishes it, posting again what was not  *)
(* answered (render/app.ts), and the requests that serve it (server.ts,    *)
(* app/store.ts).  A lost connection does not stop the request behind it,  *)
(* so a retry may run beside the one it repeats.                           *)
(*                                                                         *)
(* Every query() is one autocommitted statement and one step.  What is     *)
(* read off a photo is data; how duplicates are linked is BatchCommit's    *)
(* subject, and here an item only remembers whether they were looked for.  *)
(***************************************************************************)
EXTENDS Integers, Sequences, FiniteSetsExt, SequencesExt

CONSTANTS
    Groups,     \* the photos picked, in the groups the script sends (groupsOf)
    Chunk,      \* UPLOAD_CHUNK_FILES
    Cap,        \* the plan's photos per batch
    Handlers,   \* requests that may be under way at the same time
    NoHandler,
    Mishaps,    \* bound: lost connections and failed requests in a behaviour
    Presses     \* bound: how often the seller presses Retry

NoBatch == 0

Photos == FlattenSeq(Groups)

Picked == UNION {Range(Groups[g]) : g \in DOMAIN Groups}

\* A group is cut at a chunk or, where the browser cannot shrink photos, earlier, by its
\* bytes: any group may be short.  The caps are whole chunks (upload.ts).
ASSUME UploadAssumption ==
    /\ Groups \in Seq(Seq(Picked))
    /\ Chunk \in Nat \ {0}
    /\ Cap \in Nat \ {0} /\ Cap % Chunk = 0
    /\ Len(Photos) <= Cap
    /\ \A g \in 1..Len(Groups) : Len(Groups[g]) \in 1..Chunk
    /\ NoHandler \notin Handlers
    /\ Mishaps \in Nat
    /\ Presses \in Nat

VARIABLES
    batches,    \* scan_batches: status and total; a batch's id is its index
    items,      \* scan_items: batch, photo, and whether duplicates were looked for
    client,     \* the upload page
    work,       \* the request each handler is serving and what it has read
    mishaps,    \* lost connections and failed requests so far
    presses,    \* presses of Retry so far
    overtaken   \* did the page ever give up on a request still being served? (observed)

vars == <<batches, items, client, work, mishaps, presses, overtaken>>
counts == <<mishaps, presses, overtaken>>

Idle == [pc |-> "idle", op |-> "start", b |-> NoBatch, todo |-> <<>>, n |-> 0, answer |-> "ok"]

\* post(url, fields, tries): start is tried once more, chunk and finish twice;
\* the form of a page without script is not.
TriesFor(op) == CASE op = "start" -> 1 [] op = "form" -> 0 [] OTHER -> 2

Init ==
    /\ batches = <<>>
    /\ items = <<>>
    /\ \E op \in {"start", "form"} :
          client = [pc |-> "ready", op |-> op, h |-> NoHandler, b |-> NoBatch,
                    next |-> 1, tries |-> TriesFor(op)]
    /\ work = [h \in Handlers |-> Idle]
    /\ mishaps = 0
    /\ presses = 0
    /\ overtaken = FALSE

-----------------------------------------------------------------------------
(* Helpers.                                                                *)

Members(b) == {i \in DOMAIN items : items[i].batch = b}

Goto(h, pc) == work' = [work EXCEPT ![h] = [work[h] EXCEPT !.pc = pc]]

Answer(h, code) ==
    work' = [work EXCEPT ![h] = [work[h] EXCEPT !.pc = "answer", !.answer = code, !.todo = <<>>, !.n = 0]]

\* openUploadBatch: only a batch that is still processing may be added to.
Open(b) == batches[b].status = "processing"

\* Mutant of Take: the chunk is one photo short.
TakeShort(photos, room) == SubSeq(photos, 1, Min({Len(photos), room, Chunk - 1}))

Take(photos, room) == SubSeq(photos, 1, Min({Len(photos), room, Chunk}))

-----------------------------------------------------------------------------
(* The page: run() and post().                                             *)

\* The request that comes next is handed to the server.
Send(h) ==
    /\ client.pc = "ready"
    /\ work[h].pc = "idle"
    /\ client' = [client EXCEPT !.pc = "waiting", !.h = h]
    /\ work' = [work EXCEPT ![h] = [Idle EXCEPT
           !.pc = IF client.op \in {"start", "form"} THEN "open" ELSE client.op,
           !.op = client.op,
           !.b = client.b,
           !.todo = CASE client.op = "chunk" -> Groups[client.next]
                      [] client.op = "form"  -> Photos
                      [] OTHER               -> <<>>]]
    /\ UNCHANGED <<batches, items, counts>>

OpAfter(next) == IF next <= Len(Groups) THEN "chunk" ELSE "finish"

\* An answer moves the page on: to the next group, to finish, to the batch's page.
Advance(r) ==
    LET next == IF r.op = "chunk" THEN client.next + 1 ELSE client.next
    IN  CASE r.op \in {"finish", "form"} ->
                [client EXCEPT !.pc = "landed", !.h = NoHandler, !.b = r.b]
          [] OTHER ->
                [client EXCEPT !.pc = "ready", !.h = NoHandler, !.b = r.b, !.next = next,
                               !.op = OpAfter(next), !.tries = TriesFor(OpAfter(next))]

\* A refusal is shown; it is not tried again.
Answered(h) ==
    /\ client.pc = "waiting" /\ client.h = h
    /\ work[h].pc = "answer"
    /\ client' = IF work[h].answer = "ok" THEN Advance(work[h])
                 ELSE [client EXCEPT !.pc = "failed", !.h = NoHandler]
    /\ work' = [work EXCEPT ![h] = Idle]
    /\ UNCHANGED <<batches, items, counts>>

\* No answer, or a status of 500: the same request again while there are tries left.
TryAgain ==
    client' = IF client.tries > 0
              THEN [client EXCEPT !.pc = "ready", !.h = NoHandler, !.tries = @ - 1]
              ELSE [client EXCEPT !.pc = "failed", !.h = NoHandler]

\* The connection is lost; what serves the request does not notice.
Lose(h) ==
    /\ mishaps < Mishaps
    /\ client.pc = "waiting" /\ client.h = h
    /\ TryAgain
    /\ mishaps' = mishaps + 1
    /\ overtaken' = (overtaken \/ work[h].pc # "answer")
    /\ UNCHANGED <<batches, items, work, presses>>

\* An answer nobody waits for.
Unheard(h) ==
    /\ work[h].pc = "answer"
    /\ client.h # h
    /\ work' = [work EXCEPT ![h] = Idle]
    /\ UNCHANGED <<batches, items, client, counts>>

\* A failed query, a photo that cannot be stored, a restart: what is written stays.
Die(h) ==
    /\ mishaps < Mishaps
    /\ work[h].pc # "idle"
    /\ work' = [work EXCEPT ![h] = Idle]
    /\ IF client.h = h THEN TryAgain ELSE UNCHANGED client
    /\ mishaps' = mishaps + 1
    /\ UNCHANGED <<batches, items, presses, overtaken>>

\* "Press Retry to continue": from the request that failed; a form is posted anew.
Press ==
    /\ client.pc = "failed"
    /\ presses < Presses
    /\ presses' = presses + 1
    /\ client' = [client EXCEPT !.pc = "ready", !.tries = TriesFor(client.op)]
    /\ UNCHANGED <<batches, items, work, mishaps, overtaken>>

-----------------------------------------------------------------------------
(* The server: startScanUpload, a chunk, finishScanUpload, and all three   *)
(* in one request (handleScanUpload).                                      *)

CreateBatch(h) ==
    /\ work[h].pc = "open"
    /\ batches' = Append(batches, [status |-> "processing", total |-> 0])
    /\ LET r == [work[h] EXCEPT !.b = Len(batches) + 1]
           photos == SubSeq(Photos, 1, Min({Len(Photos), Cap}))
       IN  work' = [work EXCEPT ![h] =
              IF r.op = "form" THEN [r EXCEPT !.pc = "ingest", !.todo = photos, !.n = Len(photos)]
              ELSE [r EXCEPT !.pc = "answer"]]
    /\ UNCHANGED <<items, client, counts>>

\* The batch is read once, before any photo is looked at.
ChunkStart(h) ==
    /\ work[h].pc = "chunk"
    /\ LET b == work[h].b
           room == Cap - batches[b].total
           photos == Take(work[h].todo, room)
       IN  \/ ~Open(b) /\ Answer(h, "closed")
           \/ Open(b) /\ room <= 0 /\ Answer(h, "full")
           \/ /\ Open(b) /\ room > 0
              /\ work' = [work EXCEPT ![h] = [work[h] EXCEPT
                             !.pc = "ingest", !.todo = photos, !.n = Len(photos)]]
    /\ UNCHANGED <<batches, items, client, counts>>

IngestPhoto(h) ==
    /\ work[h].pc = "ingest"
    /\ work[h].todo # <<>>
    /\ items' = Append(items, [batch |-> work[h].b, photo |-> Head(work[h].todo), looked |-> FALSE])
    /\ work' = [work EXCEPT ![h] = [work[h] EXCEPT !.todo = Tail(@)]]
    /\ UNCHANGED <<batches, client, counts>>

\* bumpBatchProgress
IngestDone(h) ==
    /\ work[h].pc = "ingest"
    /\ work[h].todo = <<>>
    /\ batches' = [batches EXCEPT ![work[h].b].total = @ + work[h].n]
    /\ IF work[h].op = "form" THEN Goto(h, "detect") ELSE Answer(h, "ok")
    /\ UNCHANGED <<items, client, counts>>

FinishStart(h) ==
    /\ work[h].pc = "finish"
    /\ LET b == work[h].b
       IN  \/ ~Open(b) /\ Answer(h, "closed")
           \/ Open(b) /\ batches[b].total = 0 /\ Answer(h, "empty")
           \/ Open(b) /\ batches[b].total # 0 /\ Goto(h, "detect")
    /\ UNCHANGED <<batches, items, client, counts>>

Detect(h) ==
    /\ work[h].pc = "detect"
    /\ items' = [i \in DOMAIN items |->
                    IF i \in Members(work[h].b) THEN [items[i] EXCEPT !.looked = TRUE] ELSE items[i]]
    /\ Goto(h, "count")
    /\ UNCHANGED <<batches, client, counts>>

\* finalizeBatch: count the items, then write the count and the status.
FinalizeCount(h) ==
    /\ work[h].pc = "count"
    /\ work' = [work EXCEPT ![h] = [work[h] EXCEPT
                   !.pc = "settle", !.n = Cardinality(Members(work[h].b))]]
    /\ UNCHANGED <<batches, items, client, counts>>

\* Mutant of FinalizeSettle: the total is left as the chunks counted it.
FinalizeStatus(h) ==
    /\ work[h].pc = "settle"
    /\ batches' = [batches EXCEPT ![work[h].b].status = "done"]
    /\ Answer(h, "ok")
    /\ UNCHANGED <<items, client, counts>>

\* Titles are written next; a request that stops there has not answered.
FinalizeSettle(h) ==
    /\ work[h].pc = "settle"
    /\ batches' = [batches EXCEPT ![work[h].b] = [status |-> "done", total |-> work[h].n]]
    /\ Answer(h, "ok")
    /\ UNCHANGED <<items, client, counts>>

-----------------------------------------------------------------------------

Page(h) == Send(h) \/ Answered(h) \/ Unheard(h) \/ Lose(h)

Serve(h) ==
    \/ CreateBatch(h)
    \/ ChunkStart(h) \/ IngestPhoto(h) \/ IngestDone(h)
    \/ FinishStart(h) \/ Detect(h) \/ FinalizeCount(h) \/ FinalizeSettle(h)

Next ==
    \/ \E h \in Handlers : Page(h) \/ Serve(h) \/ Die(h)
    \/ Press

Spec == Init /\ [][Next]_vars

-----------------------------------------------------------------------------
(* Properties.                                                             *)

In(b, p) == \E i \in DOMAIN items : items[i].batch = b /\ items[i].photo = p

\* A batch is as full as the plan allows; a group that is not full was sent before group g.
Filled(b) == Cardinality(Members(b)) >= Cap
Short(g) == Len(Groups[g]) < Chunk
AfterShort(g) == \E k \in 1..(g - 1) : Short(k)

\* "Nothing is lost; press Retry to continue" (the upload page): once the page goes on to
\* the batch, every photo is in it, whatever was lost, tried again or died, and though
\* repeated photos use up the room of the plan's cap.  The code keeps this up to the first
\* group that its bytes cut short, the whole of it where groups are full but for the last;
\* after that the server may cut a group to the room that is left and answer that all is
\* well, but only once the batch holds as many cards as the plan allows.
AllPhotosIn ==
    client.pc = "landed" =>
        \A g \in DOMAIN Groups : \A p \in Range(Groups[g]) :
            In(client.b, p) \/ (AfterShort(g) /\ Filled(client.b))

\* "Before finalizeBatch() settles the totals from the item rows": a batch that is
\* done counts each of its items and has looked for duplicates among all of them,
\* though chunks were repeated or stopped half way.  True while no request was
\* given up on before it ended: one that goes on may add to a closed batch.
SettledTrue ==
    ~overtaken =>
        \A b \in DOMAIN batches : batches[b].status = "done" =>
            /\ batches[b].total = Cardinality(Members(b))
            /\ \A i \in Members(b) : items[i].looked

=============================================================================
