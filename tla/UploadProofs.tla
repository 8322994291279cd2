---------------------------- MODULE UploadProofs ----------------------------
(***************************************************************************)
(* Theorems about Upload for any photos, chunk and cap, any number of      *)
(* requests under way and any number of mishaps.                           *)
(*                                                                         *)
(* The photos of all groups are the groups one after another: a recursive  *)
(* function, which the induction of the first section is for.              *)
(*                                                                         *)
(* And about the settings a scan starts from: what was last given to a     *)
(* field is what is used, however the pages are saved in between.          *)
(***************************************************************************)
EXTENDS Upload, Settings, FiniteSetTheorems, SequenceTheorems, WellFoundedInduction, NaturalsInduction, TLAPS

-----------------------------------------------------------------------------
(* Induction over a set of numbers.                                        *)

LEMMA Induct ==
    ASSUME NEW good, 0 \in good, \A n \in Nat : n \in good => n + 1 \in good
    PROVE  \A n \in Nat : n \in good
<1> DEFINE R == {ss \in Nat \X Nat : ss[1] < ss[2]}
           bad == {n \in Nat : n \notin good}
<1>1. IsWellFoundedOn(R, Nat)
  BY NatLessThanWellFounded DEF OpToRel
<1>2. CASE bad = {}
  BY <1>2
<1>3. CASE bad # {}
  <2>1. PICK n \in bad : \A m \in bad : ~ (<<m, n>> \in R)
    BY <1>1, <1>3, WFMin
  <2>2. n \in Nat /\ n # 0 /\ n \notin good
    OBVIOUS
  <2>3. n - 1 \in Nat /\ (n - 1) + 1 = n /\ <<n - 1, n>> \in R
    BY <2>2
  <2>4. n - 1 \in good
    BY <2>1, <2>3
  <2>5. QED
    BY <2>2, <2>3, <2>4
<1>4. QED
  BY <1>2, <1>3

\* What the groups' photos in a row are: theirs, and nobody else's.
LEMMA Flattened ==
    ASSUME NEW S, NEW seqs \in Seq(Seq(S))
    PROVE  /\ FlattenSeq(seqs) \in Seq(S)
           /\ Range(FlattenSeq(seqs)) = UNION {Range(seqs[g]) : g \in DOMAIN seqs}
<1> DEFINE n == Len(seqs)
           Step(f, i) == IF i = 1 THEN seqs[i] ELSE f[i - 1] \o seqs[i]
           flatten == CHOOSE f : f = [i \in 1..n |-> Step(f, i)]
           Parts(i) == UNION {Range(seqs[g]) : g \in 1..i}
<1>1. n \in Nat /\ DOMAIN seqs = 1..n /\ \A i \in 1..n : seqs[i] \in Seq(S)
  BY LenProperties, ElementOfSeq
<1>2. FlattenSeq(seqs) = IF n = 0 THEN seqs ELSE flatten[n]
  BY DEF FlattenSeq
<1>3. CASE n = 0
  <2>1. seqs = <<>>
    BY <1>3, EmptySeq
  <2>2. <<>> \in Seq(S) /\ Range(<<>>) = {} /\ DOMAIN seqs = {}
    BY <1>1, <1>3, <2>1 DEF Range
  <2>3. QED
    BY <1>2, <1>3, <2>1, <2>2
<1>4. CASE n # 0
  <2> DEFINE Upto(f, m) == \A i \in 1..n : i <= m => f[i] = Step(f, i)
             some == {m \in Nat : \E f : Upto(f, m)}
  <2>1. 0 \in some
    <3>1. Upto(<<>>, 0)
      OBVIOUS
    <3>2. QED
      BY <3>1
  <2>2. ASSUME NEW m \in Nat, m \in some PROVE m + 1 \in some
    <3>1. PICK f : Upto(f, m)
      BY <2>2
    <3> DEFINE h == [i \in 1..n |-> Step(f, i)]
    <3>2. ASSUME NEW i \in 1..n, i <= m + 1 PROVE h[i] = Step(h, i)
      <4>1. CASE i = 1
        BY <4>1
      <4>2. CASE i # 1
        <5>1. i - 1 \in 1..n /\ i - 1 <= m
          BY <1>1, <3>2, <4>2
        <5>2. h[i - 1] = f[i - 1]
          BY <3>1, <5>1
        <5>3. QED
          BY <4>2, <5>2
      <4>3. QED
        BY <4>1, <4>2
    <3>3. Upto(h, m + 1)
      BY <3>2
    <3> HIDE DEF Upto
    <3>4. QED
      BY <2>2, <3>3
  <2>3. PICK f : Upto(f, n)
    <3> HIDE DEF Upto
    <3>1. \A m \in Nat : m \in some
      <4> HIDE DEF some
      <4>1. QED
        BY <2>1, <2>2, Induct
    <3>2. QED
      BY <1>1, <3>1
  <2> DEFINE F == [i \in 1..n |-> f[i]]
  <2>4. F = [i \in 1..n |-> Step(F, i)]
    <3>1. ASSUME NEW i \in 1..n PROVE f[i] = Step(F, i)
      <4>1. f[i] = Step(f, i)
        BY <1>1, <2>3
      <4>2. i # 1 => i - 1 \in 1..n
        BY <1>1
      <4>3. QED
        BY <4>1, <4>2
    <3>2. QED
      BY <3>1
  <2>5. flatten = [i \in 1..n |-> Step(flatten, i)]
    BY <2>4
  <2>6. PICK g : g = flatten
    OBVIOUS
  <2>7. \A i \in 1..n : g[i] = Step(g, i)
    BY <2>5, <2>6
  <2> HIDE DEF flatten
  <2> DEFINE fine == {m \in Nat : m \in 1..n => g[m] \in Seq(S) /\ Range(g[m]) = Parts(m)}
  <2>8. 0 \in fine
    OBVIOUS
  <2>9. ASSUME NEW m \in Nat, m \in fine PROVE m + 1 \in fine
    <3> SUFFICES ASSUME m + 1 \in 1..n PROVE g[m + 1] \in Seq(S) /\ Range(g[m + 1]) = Parts(m + 1)
      BY <2>9
    <3>1. seqs[m + 1] \in Seq(S) /\ g[m + 1] = Step(g, m + 1)
      BY <1>1, <2>7
    <3>2. CASE m = 0
      <4>1. Parts(m + 1) = Range(seqs[m + 1])
        BY <3>2
      <4>2. QED
        BY <3>1, <3>2, <4>1
    <3>3. CASE m # 0
      <4>1. m \in 1..n /\ (m + 1) - 1 = m /\ m + 1 # 1
        BY <1>1, <3>3
      <4>2. g[m] \in Seq(S) /\ Range(g[m]) = Parts(m)
        BY <2>9, <4>1
      <4>3. g[m + 1] = g[m] \o seqs[m + 1]
        BY <3>1, <4>1
      <4>4. Range(g[m] \o seqs[m + 1]) = Range(g[m]) \cup Range(seqs[m + 1])
        BY <3>1, <4>2, RangeConcatenation
      <4>5. Parts(m + 1) = Parts(m) \cup Range(seqs[m + 1])
        <5>1. 1..(m + 1) = 1..m \cup {m + 1}
          BY <2>9
        <5>2. QED
          BY <5>1
      <4>6. QED
        BY <3>1, <4>2, <4>3, <4>4, <4>5, ConcatProperties
    <3>4. QED
      BY <3>2, <3>3
  <2>10. n \in fine
    <3> HIDE DEF fine
    <3>1. QED
      BY <1>1, <2>8, <2>9, Induct
  <2>11. n \in 1..n
    BY <1>1, <1>4
  <2>12. QED
    BY <1>1, <1>2, <1>4, <2>6, <2>10, <2>11
<1>5. QED
  BY <1>3, <1>4

-----------------------------------------------------------------------------
(* The inductive invariant.                                                *)

Batch == [status : {"processing", "done"}, total : Nat]
Item == [batch : Nat, photo : Picked, looked : BOOLEAN]
Ops == {"start", "chunk", "finish", "form"}
Pcs == {"idle", "open", "chunk", "ingest", "finish", "detect", "count", "settle", "answer"}
Codes == {"ok", "closed", "full", "empty"}
Clients == [pc : {"ready", "waiting", "failed", "landed"}, op : Ops, h : Handlers \cup {NoHandler},
            b : Nat, next : 1..Len(Groups) + 1, tries : Nat]
Works == [pc : Pcs, op : Ops, b : Nat, todo : Seq(Picked), n : Nat, answer : Codes]

TypeInv ==
    /\ batches \in Seq(Batch)
    /\ items \in Seq(Item)
    /\ client \in Clients
    /\ work \in [Handlers -> Works]
    /\ mishaps \in Nat
    /\ presses \in Nat
    /\ overtaken \in BOOLEAN

Busy(h) == work[h].pc # "idle"
Chunked == client.op \in {"chunk", "finish"}

\* Where the page is, and which batch a request is about: chunks and finishes are about
\* the page's, and the two ways to upload do not mix.
PageInv ==
    /\ client.pc = "waiting" <=> client.h # NoHandler
    /\ client.pc = "landed" => client.op \in {"finish", "form"}
    /\ client.op = "chunk" => client.next <= Len(Groups)
    /\ client.op = "finish" => client.next = Len(Groups) + 1
    /\ client.op = "start" => client.next = 1
    /\ Chunked => client.b \in DOMAIN batches

AboutOK(h) ==
    /\ client.h = h => Busy(h) /\ work[h].op = client.op
    /\ work[h].pc = "open" => work[h].op \in {"start", "form"}
    /\ work[h].pc = "chunk" => work[h].op = "chunk"
    /\ work[h].pc = "ingest" => work[h].op \in {"chunk", "form"}
    /\ work[h].pc = "finish" => work[h].op = "finish"
    /\ work[h].pc \in {"detect", "count", "settle"} => work[h].op \in {"finish", "form"}
    /\ Busy(h) /\ work[h].pc # "open" => work[h].b \in DOMAIN batches
    /\ Busy(h) /\ work[h].op \in {"chunk", "finish"} => Chunked /\ work[h].b = client.b
    /\ Busy(h) => (work[h].op = "form" <=> client.op = "form")

RequestInv == PageInv /\ \A h \in Handlers : AboutOK(h)

\* Whole chunks.
Whole(n) == \E q \in Nat : n = q * Chunk

\* Batch b has group g; a request has it in its batch or in its hand.  Where a shorter group
\* came before, a batch that is filled up, or will be by what is in hand, may be without.
Filling(h) == Cardinality(Members(work[h].b)) + Len(work[h].todo) >= Cap
Have(b, g) == (\A p \in Range(Groups[g]) : In(b, p)) \/ (AfterShort(g) /\ Filled(b))
Cover(h, g) ==
    \/ \A p \in Range(Groups[g]) : In(work[h].b, p) \/ p \in Range(work[h].todo)
    \/ AfterShort(g) /\ Filling(h)

\* A group shorter than a chunk, among the first m, is in.
ShortIn(b, m) == \E k \in DOMAIN Groups : Short(k) /\ k <= m /\ Have(b, k)
ShortInHand(h, m) == \E k \in DOMAIN Groups : Short(k) /\ k <= m /\ Cover(h, k)

\* Room runs out in the middle of a chunk only once a shorter group is in: until then a
\* batch has whole chunks of the cap left.
RoomInv ==
    /\ client.op = "start" => \A b \in DOMAIN batches : batches[b].total = 0
    /\ Chunked /\ Open(client.b) /\ ~ Whole(batches[client.b].total) => ShortIn(client.b, client.next)

\* The groups the page has gone past.
SentInv == Chunked => \A g \in DOMAIN Groups : g < client.next => Have(client.b, g)

\* A chunk under way is a group the page has reached; the one the page waits for is the
\* group it is at.
ChunkOK(h) ==
    work[h].op = "chunk" =>
        /\ work[h].pc = "chunk" =>
              \E k \in DOMAIN Groups : /\ work[h].todo = Groups[k] /\ k <= client.next
                                       /\ client.h = h => k = client.next
        /\ work[h].pc = "ingest" =>
              /\ client.h = h => Cover(h, client.next)
              /\ ~ Whole(work[h].n) => ShortInHand(h, client.next)
        /\ work[h].pc = "answer" /\ work[h].answer = "ok" /\ client.h = h => Have(client.b, client.next)

\* A form brings all the photos.
FormOK(h) ==
    work[h].op = "form" => \A g \in DOMAIN Groups :
        /\ work[h].pc = "ingest" => Cover(h, g)
        /\ work[h].pc \in {"detect", "count", "settle", "answer"} => Have(work[h].b, g)

LandedInv == client.pc = "landed" => \A g \in DOMAIN Groups : Have(client.b, g)

PhotosInv ==
    /\ RoomInv
    /\ SentInv
    /\ \A h \in Handlers : ChunkOK(h) /\ FormOK(h)
    /\ LandedInv

\* Who counts an item: the request that is filing it, or nobody any more.  An open batch's
\* total is of items that no request has still to count.
For(k, S, by) == {i \in S : by[i] = k}

Tallied(by) ==
    /\ by \in [DOMAIN items -> Handlers \cup {NoHandler}]
    /\ \A b \in DOMAIN batches : Open(b) =>
          batches[b].total <= Cardinality(For(NoHandler, Members(b), by))
    /\ \A h \in Handlers : work[h].pc = "ingest" =>
          work[h].n <= Len(work[h].todo) + Cardinality(For(h, Members(work[h].b), by))

TallyInv == \E by : Tallied(by)

\* While no request was given up on, the one the page waits for is the only one under way,
\* and its batch is open.
SettledHand(h) ==
    /\ work[h].pc \notin {"idle", "answer"} => client.h = h
    /\ work[h].pc \in {"ingest", "detect", "count", "settle"} => Open(work[h].b)
    /\ work[h].pc \in {"count", "settle"} => \A i \in Members(work[h].b) : items[i].looked
    /\ work[h].pc = "settle" => work[h].n = Cardinality(Members(work[h].b))

SettledInv == SettledTrue /\ (~ overtaken => \A h \in Handlers : SettledHand(h))

-----------------------------------------------------------------------------
(* Types.                                                                  *)

LEMMA GroupsAre ==
    /\ Groups \in Seq(Seq(Picked)) /\ DOMAIN Groups = 1..Len(Groups) /\ Len(Groups) \in Nat
    /\ \A g \in DOMAIN Groups : Groups[g] \in Seq(Picked) /\ Len(Groups[g]) \in Nat
    /\ Photos \in Seq(Picked) /\ Range(Photos) = Picked /\ Len(Photos) \in Nat
    /\ Chunk \in Nat /\ Chunk > 0 /\ Cap \in Nat /\ Cap > 0 /\ Len(Photos) <= Cap
<1>1. Groups \in Seq(Seq(Picked)) /\ Len(Groups) \in Nat /\ DOMAIN Groups = 1..Len(Groups)
  BY UploadAssumption, LenProperties
<1>2. \A g \in DOMAIN Groups : Groups[g] \in Seq(Picked) /\ Len(Groups[g]) \in Nat
  BY <1>1, ElementOfSeq, LenProperties
<1>3. Photos \in Seq(Picked) /\ Range(Photos) = Picked
  BY <1>1, Flattened DEF Photos, Picked
<1>4. QED
  BY <1>1, <1>2, <1>3, LenProperties, UploadAssumption

\* A least number of a few.
LEMMA MinOfThree ==
    ASSUME NEW a \in Nat, NEW b \in Nat, NEW c \in Nat
    PROVE  /\ Min({a, b, c}) \in {a, b, c}
           /\ Min({a, b, c}) <= a /\ Min({a, b, c}) <= b /\ Min({a, b, c}) <= c
<1>1. \E x \in {a, b, c} : \A y \in {a, b, c} : x =< y
  <2>1. CASE a <= b /\ a <= c
    BY <2>1
  <2>2. CASE b <= a /\ b <= c
    BY <2>2
  <2>3. CASE c <= a /\ c <= b
    BY <2>3
  <2>4. QED
    BY <2>1, <2>2, <2>3
<1>2. QED
  BY <1>1 DEF Min

LEMMA MinOfTwo ==
    ASSUME NEW a \in Nat, NEW b \in Nat, a <= b
    PROVE  Min({a, b}) = a
<1>1. \E x \in {a, b} : \A y \in {a, b} : x =< y
  OBVIOUS
<1>2. QED
  BY <1>1 DEF Min

\* What a chunk takes of a group.
LEMMA Taken ==
    ASSUME NEW photos \in Seq(Picked), NEW room \in Nat, Len(photos) <= Chunk
    PROVE  /\ Take(photos, room) \in Seq(Picked) /\ Len(Take(photos, room)) \in Nat
           /\ room >= Chunk => Take(photos, room) = photos
           /\ Take(photos, room) = photos \/ Len(Take(photos, room)) = room
<1> DEFINE m == Min({Len(photos), room, Chunk})
<1>1. Len(photos) \in Nat /\ Chunk \in Nat
  BY GroupsAre, LenProperties
<1>2. m \in Nat /\ m <= Len(photos) /\ m <= room /\ m <= Chunk /\ (m = Len(photos) \/ m = room \/ m = Chunk)
  BY <1>1, MinOfThree
<1> HIDE DEF m
<1>3. SubSeq(photos, 1, m) \in Seq(Picked) /\ Len(SubSeq(photos, 1, m)) = m
  BY <1>1, <1>2, SubSeqProperties, LenProperties
<1>4. room >= Chunk => m = Len(photos)
  BY <1>1, <1>2
<1>5. SubSeq(photos, 1, Len(photos)) = photos
  BY <1>1, SubSeqFull
<1>6. m = Len(photos) \/ m = room
  BY <1>1, <1>2
<1>7. QED
  BY <1>2, <1>3, <1>4, <1>5, <1>6 DEF Take, m

\* One request's record takes another of the type.
LEMMA WorkSet ==
    ASSUME NEW w \in [Handlers -> Works], NEW h \in Handlers, NEW r \in Works
    PROVE  /\ [w EXCEPT ![h] = r] \in [Handlers -> Works]
           /\ [w EXCEPT ![h] = r][h] = r
           /\ \A k \in Handlers : k # h => [w EXCEPT ![h] = r][k] = w[k]
OBVIOUS

LEMMA IdleType == Idle \in Works /\ Idle.pc = "idle"
<1>1. <<>> \in Seq(Picked)
  OBVIOUS
<1>2. QED
  BY <1>1 DEF Idle, Works, NoBatch, Pcs, Ops, Codes

\* Goto and Answer change one record.
LEMMA GotoIs ==
    ASSUME work \in [Handlers -> Works], NEW h \in Handlers, NEW pc \in Pcs, Goto(h, pc)
    PROVE  /\ work' \in [Handlers -> Works]
           /\ \A k \in Handlers : k # h => work'[k] = work[k]
           /\ work'[h] = [work[h] EXCEPT !.pc = pc]
           /\ work'[h].pc = pc /\ work'[h].op = work[h].op /\ work'[h].b = work[h].b
           /\ work'[h].n = work[h].n /\ work'[h].todo = work[h].todo
<1> DEFINE r == [work[h] EXCEPT !.pc = pc]
<1>1. work[h] \in Works
  OBVIOUS
<1>2. r \in Works /\ r.pc = pc /\ r.op = work[h].op /\ r.b = work[h].b /\ r.n = work[h].n /\ r.todo = work[h].todo
  BY <1>1 DEF Works
<1>3. work' = [work EXCEPT ![h] = r]
  BY DEF Goto
<1> HIDE DEF r
<1>4. work' \in [Handlers -> Works] /\ work'[h] = r /\ \A k \in Handlers : k # h => work'[k] = work[k]
  BY <1>2, <1>3, WorkSet
<1>5. QED
  BY <1>2, <1>4 DEF r

LEMMA AnswerIs ==
    ASSUME work \in [Handlers -> Works], NEW h \in Handlers, NEW code \in Codes, Answer(h, code)
    PROVE  /\ work' \in [Handlers -> Works]
           /\ \A k \in Handlers : k # h => work'[k] = work[k]
           /\ work'[h].pc = "answer" /\ work'[h].op = work[h].op /\ work'[h].b = work[h].b
           /\ work'[h].answer = code
<1> DEFINE r == [work[h] EXCEPT !.pc = "answer", !.answer = code, !.todo = <<>>, !.n = 0]
<1>0. <<>> \in Seq(Picked) /\ work[h] \in Works
  OBVIOUS
<1>2. r \in Works /\ r.pc = "answer" /\ r.op = work[h].op /\ r.b = work[h].b /\ r.answer = code
  BY <1>0 DEF Works, Pcs
<1>3. work' = [work EXCEPT ![h] = r]
  BY DEF Answer
<1> HIDE DEF r
<1>4. work' \in [Handlers -> Works] /\ work'[h] = r /\ \A k \in Handlers : k # h => work'[k] = work[k]
  BY <1>2, <1>3, WorkSet
<1>5. QED
  BY <1>2, <1>4

\* A request ends, or its answer has been taken.
LEMMA Freed ==
    ASSUME work \in [Handlers -> Works], NEW h \in Handlers, work' = [work EXCEPT ![h] = Idle]
    PROVE  /\ work' \in [Handlers -> Works]
           /\ \A k \in Handlers : k # h => work'[k] = work[k]
           /\ work'[h].pc = "idle" /\ work'[h].op = "start"
<1>1. work' \in [Handlers -> Works] /\ work'[h] = Idle /\ \A k \in Handlers : k # h => work'[k] = work[k]
  BY IdleType, WorkSet
<1>2. Idle.op = "start"
  BY DEF Idle
<1>3. QED
  BY <1>1, <1>2, IdleType

\* What the request just sent is.
LEMMA SendIs ==
    ASSUME TypeInv, PageInv, NEW h \in Handlers, Send(h)
    PROVE  /\ client' \in Clients /\ client'.pc = "waiting" /\ client'.h = h
           /\ client'.op = client.op /\ client'.b = client.b /\ client'.next = client.next
           /\ work' \in [Handlers -> Works]
           /\ \A k \in Handlers : k # h => work'[k] = work[k]
           /\ work'[h].pc = IF client.op \in {"start", "form"} THEN "open" ELSE client.op
           /\ work'[h].op = client.op /\ work'[h].b = client.b
           /\ client.op = "chunk" => work'[h].todo = Groups[client.next]
<1> DEFINE pc == IF client.op \in {"start", "form"} THEN "open" ELSE client.op
           todo == CASE client.op = "chunk" -> Groups[client.next]
                     [] client.op = "form"  -> Photos
                     [] OTHER               -> <<>>
           r == [Idle EXCEPT !.pc = pc, !.op = client.op, !.b = client.b, !.todo = todo]
<1>0. client \in Clients /\ client.op \in Ops /\ client.b \in Nat
  BY DEF TypeInv, Clients
<1>1. todo \in Seq(Picked) /\ (client.op = "chunk" => todo = Groups[client.next])
  <2>1. CASE client.op = "chunk"
    <3>1. client.next \in DOMAIN Groups
      BY <1>0, <2>1, GroupsAre DEF PageInv, Clients
    <3>2. QED
      BY <2>1, <3>1, GroupsAre
  <2>2. CASE client.op = "form"
    BY <2>2, GroupsAre
  <2>3. CASE client.op \notin {"chunk", "form"}
    BY <2>3
  <2>4. QED
    BY <2>1, <2>2, <2>3
<1>2. pc \in Pcs
  BY <1>0 DEF Pcs, Ops
<1> HIDE DEF pc, todo
<1>3. r \in Works /\ r.pc = pc /\ r.op = client.op /\ r.b = client.b /\ r.todo = todo
  BY <1>0, <1>1, <1>2, IdleType DEF Works, Idle
<1>4. work' = [work EXCEPT ![h] = r]
  BY DEF Send, pc, todo
<1> HIDE DEF r
<1>5. work' \in [Handlers -> Works] /\ work'[h] = r /\ \A k \in Handlers : k # h => work'[k] = work[k]
  BY <1>3, <1>4, WorkSet DEF TypeInv
<1>6. client' = [client EXCEPT !.pc = "waiting", !.h = h]
  BY DEF Send
<1>7. /\ client' \in Clients /\ client'.pc = "waiting" /\ client'.h = h
      /\ client'.op = client.op /\ client'.b = client.b /\ client'.next = client.next
  BY <1>0, <1>6 DEF Clients
<1>8. QED
  BY <1>1, <1>3, <1>5, <1>7 DEF pc

\* The page gives up on an answer: it tries again or shows that it failed.
LEMMA TryIs ==
    ASSUME client \in Clients, TryAgain
    PROVE  /\ client' \in Clients /\ client'.pc \in {"ready", "failed"} /\ client'.h = NoHandler
           /\ client'.op = client.op /\ client'.b = client.b /\ client'.next = client.next
<1>1. client.tries > 0 => client.tries - 1 \in Nat
  BY DEF Clients
<1>2. QED
  BY <1>1 DEF TryAgain, Clients

\* An answer moves the page on.
LEMMA AdvanceIs ==
    ASSUME TypeInv, PageInv, NEW h \in Handlers, AboutOK(h), client.h = h, client.pc = "waiting"
    PROVE  LET c == Advance(work[h])
           IN  /\ c \in Clients /\ c.h = NoHandler /\ c.b = work[h].b
               /\ client.op \in {"finish", "form"} =>
                     c.pc = "landed" /\ c.op = client.op /\ c.next = client.next
               /\ client.op \in {"start", "chunk"} =>
                     /\ c.pc = "ready"
                     /\ c.next = IF client.op = "chunk" THEN client.next + 1 ELSE client.next
                     /\ c.op = IF c.next <= Len(Groups) THEN "chunk" ELSE "finish"
<1> DEFINE c == Advance(work[h])
           next == IF client.op = "chunk" THEN client.next + 1 ELSE client.next
<1>0. work[h].op = client.op /\ client.op \in Ops /\ work[h].b \in Nat /\ client.next \in 1..Len(Groups) + 1
  BY DEF TypeInv, AboutOK, Clients, Works
<1>1. next \in 1..Len(Groups) + 1
  BY <1>0, GroupsAre DEF PageInv
<1>2. OpAfter(next) \in Ops /\ TriesFor(OpAfter(next)) \in Nat /\ OpAfter(next) = IF next <= Len(Groups) THEN "chunk" ELSE "finish"
  BY DEF OpAfter, TriesFor, Ops
<1>3. CASE client.op \in {"finish", "form"}
  <2>1. c = [client EXCEPT !.pc = "landed", !.h = NoHandler, !.b = work[h].b]
    BY <1>0, <1>3 DEF Advance
  <2>2. QED
    BY <1>0, <1>3, <2>1 DEF TypeInv, Clients
<1>4. CASE client.op \notin {"finish", "form"}
  <2> DEFINE op == OpAfter(next)
             tries == TriesFor(OpAfter(next))
  <2>1. c = [client EXCEPT !.pc = "ready", !.h = NoHandler, !.b = work[h].b, !.next = next,
                           !.op = op, !.tries = tries]
    BY <1>0, <1>4 DEF Advance
  <2>2. op \in Ops /\ tries \in Nat
    BY <1>2
  <2> HIDE DEF op, tries, next
  <2>3. c \in Clients /\ c.h = NoHandler /\ c.b = work[h].b /\ c.pc = "ready" /\ c.next = next /\ c.op = op
    BY <1>0, <1>1, <2>1, <2>2 DEF TypeInv, Clients
  <2>4. QED
    BY <1>0, <1>2, <1>4, <2>3 DEF next, op
<1>5. QED
  BY <1>3, <1>4

LEMMA Appended ==
    ASSUME NEW S, NEW s \in Seq(S), NEW e \in S
    PROVE  /\ Append(s, e) \in Seq(S) /\ Len(s) + 1 \in Nat
           /\ DOMAIN Append(s, e) = DOMAIN s \cup {Len(s) + 1} /\ Len(s) + 1 \notin DOMAIN s
           /\ Append(s, e)[Len(s) + 1] = e
           /\ \A i \in DOMAIN s : Append(s, e)[i] = s[i]
<1>1. Len(s) \in Nat /\ DOMAIN s = 1..Len(s)
  BY LenProperties
<1>2. Append(s, e) \in Seq(S) /\ Len(Append(s, e)) = Len(s) + 1
  BY AppendProperties
<1>3. DOMAIN Append(s, e) = 1..(Len(s) + 1)
  BY <1>2, LenProperties
<1>4. QED
  BY <1>1, <1>2, <1>3, AppendProperties

\* A sequence whose entries are replaced is one of the same length.
LEMMA Replaced ==
    ASSUME NEW S, NEW s \in Seq(S), NEW t, DOMAIN t = DOMAIN s, t = [i \in DOMAIN s |-> t[i]],
           \A i \in DOMAIN s : t[i] \in S
    PROVE  t \in Seq(S)
<1>1. DOMAIN s = 1..Len(s) /\ Len(s) \in Nat
  BY LenProperties
<1>2. QED
  BY <1>1, IsASeq

LEMMA CreateIs ==
    ASSUME TypeInv, NEW h \in Handlers, AboutOK(h), CreateBatch(h)
    PROVE  LET b == Len(batches) + 1
           IN  /\ batches' \in Seq(Batch) /\ b \in Nat
               /\ DOMAIN batches' = DOMAIN batches \cup {b} /\ b \notin DOMAIN batches
               /\ batches'[b].status = "processing" /\ batches'[b].total = 0
               /\ \A c \in DOMAIN batches : batches'[c] = batches[c]
               /\ work' \in [Handlers -> Works]
               /\ \A k \in Handlers : k # h => work'[k] = work[k]
               /\ work'[h].op = work[h].op /\ work'[h].b = b
               /\ work[h].op = "form"  => /\ work'[h].pc = "ingest" /\ work'[h].todo = Photos
                                          /\ work'[h].n = Len(Photos)
               /\ work[h].op = "start" => work'[h].pc = "answer"
<1> DEFINE b == Len(batches) + 1
           new == [status |-> "processing", total |-> 0]
           photos == SubSeq(Photos, 1, Min({Len(Photos), Cap}))
           r == [work[h] EXCEPT !.b = b]
           s == IF r.op = "form" THEN [r EXCEPT !.pc = "ingest", !.todo = photos, !.n = Len(photos)]
                ELSE [r EXCEPT !.pc = "answer"]
<1>0. work[h] \in Works /\ batches \in Seq(Batch) /\ work[h].op \in {"start", "form"} /\ work \in [Handlers -> Works]
  BY DEF TypeInv, CreateBatch, AboutOK
<1>1. new \in Batch /\ new.status = "processing" /\ new.total = 0
  BY DEF Batch
<1>2. batches' = Append(batches, new)
  BY DEF CreateBatch
<1> HIDE DEF new
<1>3. /\ batches' \in Seq(Batch) /\ b \in Nat
      /\ DOMAIN batches' = DOMAIN batches \cup {b} /\ b \notin DOMAIN batches
      /\ batches'[b] = new
      /\ \A c \in DOMAIN batches : batches'[c] = batches[c]
  BY <1>0, <1>1, <1>2, Appended
<1>4. photos = Photos
  BY GroupsAre, MinOfTwo, SubSeqFull
<1>5. r \in Works /\ r.op = work[h].op /\ r.b = b
  BY <1>0, <1>3 DEF Works
<1>6. work' = [work EXCEPT ![h] = s]
  BY DEF CreateBatch
<1> HIDE DEF r, photos, b
<1>7. /\ s \in Works /\ s.op = work[h].op /\ s.b = b
      /\ work[h].op = "form" => s.pc = "ingest" /\ s.todo = Photos /\ s.n = Len(Photos)
      /\ work[h].op = "start" => s.pc = "answer"
  <2>1. CASE work[h].op = "form"
    <3>1. s = [r EXCEPT !.pc = "ingest", !.todo = Photos, !.n = Len(Photos)]
      BY <1>4, <1>5, <2>1
    <3>2. QED
      BY <1>5, <2>1, <3>1, GroupsAre DEF Works, Pcs
  <2>2. CASE work[h].op = "start"
    <3>1. s = [r EXCEPT !.pc = "answer"]
      BY <1>5, <2>2
    <3>2. QED
      BY <1>5, <2>2, <3>1 DEF Works, Pcs
  <2>3. QED
    BY <1>0, <2>1, <2>2
<1> HIDE DEF s
<1>8. work' \in [Handlers -> Works] /\ work'[h] = s /\ \A k \in Handlers : k # h => work'[k] = work[k]
  BY <1>0, <1>6, <1>7, WorkSet
<1>9. QED
  BY <1>1, <1>3, <1>7, <1>8 DEF b

\* A chunk is turned away, or its photos are in hand.
LEMMA ChunkStartIs ==
    ASSUME TypeInv, RequestInv, NEW h \in Handlers, ChunkOK(h), ChunkStart(h)
    PROVE  LET b == work[h].b
               room == Cap - batches[b].total
           IN  /\ work[h].op = "chunk" /\ b = client.b /\ b \in DOMAIN batches /\ batches[b].total \in Nat
               /\ work' \in [Handlers -> Works]
               /\ \A k \in Handlers : k # h => work'[k] = work[k]
               /\ work'[h].op = "chunk" /\ work'[h].b = b
               /\ \/ work'[h].pc = "answer" /\ work'[h].answer \in {"closed", "full"}
                  \/ /\ work'[h].pc = "ingest" /\ Open(b) /\ room \in Nat /\ room > 0
                     /\ work'[h].todo = Take(work[h].todo, room)
                     /\ work'[h].n = Len(Take(work[h].todo, room))
<1> DEFINE b == work[h].b
           room == Cap - batches[b].total
<1>0. work[h] \in Works /\ work \in [Handlers -> Works]
  BY DEF TypeInv
<1>1. work[h].op = "chunk" /\ b = client.b /\ b \in DOMAIN batches
  BY DEF RequestInv, AboutOK, ChunkStart, Busy
<1>2. batches[b] \in Batch
  BY <1>1, ElementOfSeq, LenProperties DEF TypeInv
<1>3. batches[b].total \in Nat /\ room \in Int
  BY <1>2, GroupsAre DEF Batch
<1>4. ASSUME NEW code \in Codes, Answer(h, code)
      PROVE  /\ work' \in [Handlers -> Works] /\ \A k \in Handlers : k # h => work'[k] = work[k]
             /\ work'[h].op = "chunk" /\ work'[h].b = b /\ work'[h].pc = "answer" /\ work'[h].answer = code
  BY <1>0, <1>1, <1>4, AnswerIs
<1>5. CASE Answer(h, "closed")
  BY <1>1, <1>3, <1>4, <1>5 DEF Codes
<1>6. CASE Answer(h, "full")
  BY <1>1, <1>3, <1>4, <1>6 DEF Codes
<1>7. ASSUME Open(b), room > 0,
             work' = [work EXCEPT ![h] = [work[h] EXCEPT
                         !.pc = "ingest", !.todo = Take(work[h].todo, room), !.n = Len(Take(work[h].todo, room))]]
      PROVE  /\ work' \in [Handlers -> Works] /\ \A k \in Handlers : k # h => work'[k] = work[k]
             /\ work'[h].op = "chunk" /\ work'[h].b = b /\ work'[h].pc = "ingest"
             /\ work'[h].todo = Take(work[h].todo, room) /\ work'[h].n = Len(Take(work[h].todo, room))
  <2>1. PICK g \in DOMAIN Groups : work[h].todo = Groups[g]
    BY <1>1 DEF ChunkOK, ChunkStart
  <2>2. Len(work[h].todo) <= Chunk
    BY <2>1, GroupsAre, UploadAssumption
  <2>3. PICK t : t = Take(work[h].todo, room)
    OBVIOUS
  <2>4. t \in Seq(Picked) /\ Len(t) \in Nat
    <3>1. work[h].todo \in Seq(Picked)
      BY <1>0 DEF Works
    <3>2. room \in Nat
      BY <1>3, <1>7
    <3> HIDE DEF room
    <3>3. QED
      BY <2>2, <2>3, <3>1, <3>2, Taken
  <2>5. PICK r : r = [work[h] EXCEPT !.pc = "ingest", !.todo = t, !.n = Len(t)]
    OBVIOUS
  <2>6. r \in Works /\ r.op = "chunk" /\ r.b = b /\ r.pc = "ingest" /\ r.todo = t /\ r.n = Len(t)
    BY <1>0, <1>1, <2>4, <2>5 DEF Works, Pcs
  <2>7. work' = [work EXCEPT ![h] = r]
    BY <1>7, <2>3, <2>5
  <2>8. work' \in [Handlers -> Works] /\ work'[h] = r /\ \A k \in Handlers : k # h => work'[k] = work[k]
    BY <1>0, <2>6, <2>7, WorkSet
  <2>9. QED
    BY <2>3, <2>6, <2>8
<1>8. QED
  BY <1>1, <1>3, <1>5, <1>6, <1>7 DEF ChunkStart

LEMMA IngestIs ==
    ASSUME TypeInv, NEW h \in Handlers, IngestPhoto(h)
    PROVE  LET i == Len(items) + 1
           IN  /\ items' \in Seq(Item)
               /\ DOMAIN items' = DOMAIN items \cup {i} /\ i \notin DOMAIN items
               /\ \A j \in DOMAIN items : items'[j] = items[j]
               /\ items'[i].batch = work[h].b /\ items'[i].photo = Head(work[h].todo)
               /\ work' \in [Handlers -> Works]
               /\ \A k \in Handlers : k # h => work'[k] = work[k]
               /\ work'[h].pc = "ingest" /\ work'[h].op = work[h].op /\ work'[h].b = work[h].b
               /\ work'[h].n = work[h].n
               /\ Range(work[h].todo) = {Head(work[h].todo)} \cup Range(work'[h].todo)
               /\ Len(work'[h].todo) \in Nat /\ Len(work[h].todo) = Len(work'[h].todo) + 1
<1> DEFINE s == work[h].todo
           new == [batch |-> work[h].b, photo |-> Head(s), looked |-> FALSE]
           r == [work[h] EXCEPT !.todo = Tail(@)]
<1>0. work[h] \in Works /\ work \in [Handlers -> Works] /\ items \in Seq(Item) /\ s \in Seq(Picked) /\ s # <<>>
  BY DEF TypeInv, Works, IngestPhoto
<1>1. Head(s) \in Picked /\ Tail(s) \in Seq(Picked)
  BY <1>0, HeadTailProperties
<1>2. new \in Item /\ new.batch = work[h].b /\ new.photo = Head(s)
  BY <1>0, <1>1 DEF Item, Works
<1>3. items' = Append(items, new)
  BY DEF IngestPhoto
<1> HIDE DEF new
<1>4. /\ items' \in Seq(Item)
      /\ DOMAIN items' = DOMAIN items \cup {Len(items) + 1} /\ Len(items) + 1 \notin DOMAIN items
      /\ items'[Len(items) + 1] = new /\ \A j \in DOMAIN items : items'[j] = items[j]
  BY <1>0, <1>2, <1>3, Appended
<1>5. r \in Works /\ r.op = work[h].op /\ r.b = work[h].b /\ r.n = work[h].n /\ r.pc = work[h].pc /\ r.todo = Tail(s)
  BY <1>0, <1>1 DEF Works
<1>6. work' = [work EXCEPT ![h] = r] /\ work[h].pc = "ingest"
  BY DEF IngestPhoto
<1> HIDE DEF r
<1>7. work' \in [Handlers -> Works] /\ work'[h] = r /\ \A k \in Handlers : k # h => work'[k] = work[k]
  BY <1>0, <1>5, <1>6, WorkSet
<1>8. Range(s) = {Head(s)} \cup Range(Tail(s))
  <2>1. /\ Len(s) \in Nat /\ Len(s) # 0 /\ DOMAIN s = 1..Len(s)
        /\ Len(Tail(s)) = Len(s) - 1 /\ DOMAIN Tail(s) = 1..(Len(s) - 1)
        /\ \A i \in 1..(Len(s) - 1) : Tail(s)[i] = s[i + 1]
    BY <1>0, <1>1, HeadTailProperties, LenProperties, EmptySeq
  <2>2. Head(s) = s[1]
    BY <1>0
  <2> HIDE DEF s
  <2>3. ASSUME NEW i \in 1..Len(s), i # 1 PROVE s[i] = Tail(s)[i - 1] /\ i - 1 \in 1..(Len(s) - 1)
    BY <2>1, <2>3
  <2>4. ASSUME NEW x \in Range(s) PROVE x \in {Head(s)} \cup Range(Tail(s))
    <3>1. PICK i \in 1..Len(s) : x = s[i]
      BY <2>1 DEF Range
    <3>2. CASE i = 1
      BY <2>2, <3>1, <3>2
    <3>3. CASE i # 1
      <4>1. x = Tail(s)[i - 1] /\ i - 1 \in DOMAIN Tail(s)
        BY <2>1, <2>3, <3>1, <3>3
      <4>2. QED
        BY <4>1 DEF Range
    <3>4. QED
      BY <3>2, <3>3
  <2>5. 1 \in DOMAIN s /\ \A i \in 1..(Len(s) - 1) : i + 1 \in DOMAIN s
    BY <2>1
  <2>6. {Head(s)} \cup Range(Tail(s)) \subseteq Range(s)
    BY <2>1, <2>2, <2>5 DEF Range
  <2>7. QED
    BY <2>4, <2>6
<1>9. Len(Tail(s)) \in Nat /\ Len(s) = Len(Tail(s)) + 1
  BY <1>0, <1>1, HeadTailProperties, LenProperties, EmptySeq
<1>10. QED
  BY <1>2, <1>4, <1>5, <1>6, <1>7, <1>8, <1>9

\* A batch's count or status is written; its number of items is a natural number.
LEMMA BatchSet ==
    ASSUME batches \in Seq(Batch), NEW b \in DOMAIN batches, NEW v \in Batch, batches' = [batches EXCEPT ![b] = v]
    PROVE  /\ batches' \in Seq(Batch) /\ DOMAIN batches' = DOMAIN batches /\ batches'[b] = v
           /\ \A c \in DOMAIN batches : c # b => batches'[c] = batches[c]
<1>1. /\ DOMAIN batches' = DOMAIN batches /\ batches'[b] = v
      /\ \A c \in DOMAIN batches : c # b => batches'[c] = batches[c]
      /\ batches' = [c \in DOMAIN batches |-> batches'[c]]
  BY ElementOfSeq, LenProperties
<1>2. \A c \in DOMAIN batches : batches[c] \in Batch
  BY ElementOfSeq, LenProperties
<1>3. \A c \in DOMAIN batches : batches'[c] \in Batch
  BY <1>1, <1>2
<1>4. QED
  BY <1>1, <1>3, Replaced

LEMMA MembersCount ==
    ASSUME items \in Seq(Item), NEW b
    PROVE  Cardinality(Members(b)) \in Nat
<1>1. DOMAIN items = 1..Len(items) /\ Len(items) \in Nat
  BY LenProperties
<1>2. Members(b) \subseteq 1..Len(items)
  BY <1>1 DEF Members
<1>0. IsFiniteSet(1..Len(items))
  BY <1>1, FS_Interval
<1>3. IsFiniteSet(Members(b))
  BY <1>0, <1>2, FS_Subset
<1>4. QED
  BY <1>3, FS_CardinalityType

LEMMA MembersFinite ==
    ASSUME items \in Seq(Item)
    PROVE  \A b : IsFiniteSet(Members(b))
<1>1. DOMAIN items = 1..Len(items) /\ Len(items) \in Nat
  BY LenProperties
<1>2. \A b : Members(b) \subseteq 1..Len(items)
  BY <1>1 DEF Members
<1>3. IsFiniteSet(1..Len(items))
  BY <1>1, FS_Interval
<1>4. ASSUME NEW b PROVE IsFiniteSet(Members(b))
  BY <1>2, <1>3, FS_Subset
<1>5. QED
  BY <1>4

LEMMA IngestDoneIs ==
    ASSUME TypeInv, RequestInv, NEW h \in Handlers, IngestDone(h)
    PROVE  LET b == work[h].b
           IN  /\ work[h].op \in {"chunk", "form"} /\ b \in DOMAIN batches
               /\ batches' \in Seq(Batch) /\ DOMAIN batches' = DOMAIN batches
               /\ \A c \in DOMAIN batches : c # b => batches'[c] = batches[c]
               /\ batches[b].total \in Nat /\ work[h].n \in Nat
               /\ batches'[b].total = batches[b].total + work[h].n
               /\ batches'[b].status = batches[b].status
               /\ work' \in [Handlers -> Works]
               /\ \A k \in Handlers : k # h => work'[k] = work[k]
               /\ work'[h].op = work[h].op /\ work'[h].b = b
               /\ work[h].op = "form"  => work'[h].pc = "detect"
               /\ work[h].op = "chunk" => work'[h].pc = "answer" /\ work'[h].answer = "ok"
<1> DEFINE b == work[h].b
           v == [batches[b] EXCEPT !.total = @ + work[h].n]
<1>1. work[h] \in Works /\ work \in [Handlers -> Works] /\ work[h].n \in Nat
  BY DEF TypeInv, Works
<1>2. work[h].op \in {"chunk", "form"} /\ b \in DOMAIN batches
  BY DEF RequestInv, AboutOK, IngestDone, Busy
<1>3. batches[b] \in Batch
  BY <1>2, ElementOfSeq, LenProperties DEF TypeInv
<1>4. /\ v \in Batch /\ batches[b].total \in Nat
      /\ v.total = batches[b].total + work[h].n /\ v.status = batches[b].status
  BY <1>1, <1>3 DEF Batch
<1>5. batches' = [batches EXCEPT ![b] = v]
  BY DEF IngestDone
<1> HIDE DEF v
<1>6. /\ batches' \in Seq(Batch) /\ DOMAIN batches' = DOMAIN batches /\ batches'[b] = v
      /\ \A c \in DOMAIN batches : c # b => batches'[c] = batches[c]
  BY <1>2, <1>4, <1>5, BatchSet DEF TypeInv
<1>7. CASE work[h].op = "form"
  <2>1. Goto(h, "detect")
    BY <1>7 DEF IngestDone
  <2>2. QED
    BY <1>1, <1>2, <1>4, <1>6, <1>7, <2>1, GotoIs DEF Pcs
<1>8. CASE work[h].op = "chunk"
  <2>1. Answer(h, "ok")
    BY <1>8 DEF IngestDone
  <2>2. QED
    BY <1>1, <1>2, <1>4, <1>6, <1>8, <2>1, AnswerIs DEF Codes
<1>9. QED
  BY <1>2, <1>7, <1>8

LEMMA FinishStartIs ==
    ASSUME TypeInv, NEW h \in Handlers, FinishStart(h)
    PROVE  /\ work' \in [Handlers -> Works]
           /\ \A k \in Handlers : k # h => work'[k] = work[k]
           /\ work'[h].op = work[h].op /\ work'[h].b = work[h].b
           /\ \/ work'[h].pc = "answer" /\ work'[h].answer \in {"closed", "empty"}
              \/ work'[h].pc = "detect" /\ Open(work[h].b)
<1>1. work \in [Handlers -> Works]
  BY DEF TypeInv
<1>2. CASE Answer(h, "closed")
  BY <1>1, <1>2, AnswerIs DEF Codes
<1>3. CASE Answer(h, "empty")
  BY <1>1, <1>3, AnswerIs DEF Codes
<1>4. CASE Open(work[h].b) /\ Goto(h, "detect")
  BY <1>1, <1>4, GotoIs DEF Pcs
<1>5. QED
  BY <1>2, <1>3, <1>4 DEF FinishStart

LEMMA DetectIs ==
    ASSUME TypeInv, NEW h \in Handlers, Detect(h)
    PROVE  /\ items' \in Seq(Item) /\ DOMAIN items' = DOMAIN items
           /\ \A i \in DOMAIN items : /\ items'[i].batch = items[i].batch /\ items'[i].photo = items[i].photo
                                      /\ items[i].looked => items'[i].looked
                                      /\ items[i].batch = work[h].b => items'[i].looked
           /\ work' \in [Handlers -> Works]
           /\ \A k \in Handlers : k # h => work'[k] = work[k]
           /\ work'[h].pc = "count" /\ work'[h].op = work[h].op /\ work'[h].b = work[h].b
<1>1. work \in [Handlers -> Works] /\ items \in Seq(Item)
  BY DEF TypeInv
<1>2. \A i \in DOMAIN items : items[i] \in Item
  BY <1>1, ElementOfSeq, LenProperties
<1>3. items' = [i \in DOMAIN items |->
                   IF i \in Members(work[h].b) THEN [items[i] EXCEPT !.looked = TRUE] ELSE items[i]]
  BY DEF Detect
<1>4. DOMAIN items' = DOMAIN items /\ items' = [i \in DOMAIN items |-> items'[i]]
  BY <1>3
<1>5. ASSUME NEW i \in DOMAIN items
      PROVE  /\ items'[i] \in Item
             /\ items'[i].batch = items[i].batch /\ items'[i].photo = items[i].photo
             /\ items[i].looked => items'[i].looked
             /\ items[i].batch = work[h].b => items'[i].looked
  BY <1>2, <1>3 DEF Members, Item
<1>6. items' \in Seq(Item)
  BY <1>1, <1>4, <1>5, Replaced
<1>7. Goto(h, "count")
  BY DEF Detect
<1>8. QED
  BY <1>1, <1>4, <1>5, <1>6, <1>7, GotoIs DEF Pcs

LEMMA CountIs ==
    ASSUME TypeInv, NEW h \in Handlers, FinalizeCount(h)
    PROVE  /\ work' \in [Handlers -> Works]
           /\ \A k \in Handlers : k # h => work'[k] = work[k]
           /\ work'[h].pc = "settle" /\ work'[h].op = work[h].op /\ work'[h].b = work[h].b
           /\ work'[h].n = Cardinality(Members(work[h].b))
<1> DEFINE n == Cardinality(Members(work[h].b))
           r == [work[h] EXCEPT !.pc = "settle", !.n = n]
<1>1. work \in [Handlers -> Works] /\ work[h] \in Works /\ n \in Nat
  BY MembersCount DEF TypeInv
<1> HIDE DEF n
<1>2. r \in Works /\ r.pc = "settle" /\ r.op = work[h].op /\ r.b = work[h].b /\ r.n = n
  BY <1>1 DEF Works, Pcs
<1>3. work' = [work EXCEPT ![h] = r]
  BY DEF FinalizeCount, n
<1> HIDE DEF r
<1>4. work' \in [Handlers -> Works] /\ work'[h] = r /\ \A k \in Handlers : k # h => work'[k] = work[k]
  BY <1>1, <1>2, <1>3, WorkSet
<1>5. QED
  BY <1>2, <1>4 DEF n

LEMMA SettleIs ==
    ASSUME TypeInv, RequestInv, NEW h \in Handlers, FinalizeSettle(h)
    PROVE  LET b == work[h].b
           IN  /\ work[h].op \in {"finish", "form"} /\ b \in DOMAIN batches
               /\ batches' \in Seq(Batch) /\ DOMAIN batches' = DOMAIN batches
               /\ \A c \in DOMAIN batches : c # b => batches'[c] = batches[c]
               /\ batches'[b].status = "done" /\ batches'[b].total = work[h].n
               /\ work' \in [Handlers -> Works]
               /\ \A k \in Handlers : k # h => work'[k] = work[k]
               /\ work'[h].op = work[h].op /\ work'[h].b = b /\ work'[h].pc = "answer"
<1> DEFINE b == work[h].b
           v == [status |-> "done", total |-> work[h].n]
<1>1. work[h] \in Works /\ work \in [Handlers -> Works] /\ work[h].n \in Nat
  BY DEF TypeInv, Works
<1>2. work[h].op \in {"finish", "form"} /\ b \in DOMAIN batches
  BY DEF RequestInv, AboutOK, FinalizeSettle, Busy
<1>3. v \in Batch /\ v.status = "done" /\ v.total = work[h].n
  BY <1>1 DEF Batch
<1>4. batches' = [batches EXCEPT ![b] = v]
  BY DEF FinalizeSettle
<1> HIDE DEF v
<1>5. /\ batches' \in Seq(Batch) /\ DOMAIN batches' = DOMAIN batches /\ batches'[b] = v
      /\ \A c \in DOMAIN batches : c # b => batches'[c] = batches[c]
  BY <1>2, <1>3, <1>4, BatchSet DEF TypeInv
<1>6. Answer(h, "ok")
  BY DEF FinalizeSettle
<1>7. QED
  BY <1>1, <1>2, <1>3, <1>5, <1>6, AnswerIs DEF Codes

\* What Send, Answered, Unheard, Lose and Die do to the page and the requests.
LEMMA AnsweredIs ==
    ASSUME TypeInv, RequestInv, NEW h \in Handlers, Answered(h)
    PROVE  /\ client.h = h /\ work[h].pc = "answer" /\ work[h].op = client.op /\ UNCHANGED <<batches, items>>
           /\ work' \in [Handlers -> Works] /\ work'[h].pc = "idle" /\ work'[h].op = "start"
           /\ \A k \in Handlers : k # h => work'[k] = work[k]
           /\ client' \in Clients /\ client'.h = NoHandler /\ client'.pc # "waiting"
           /\ \/ client'.pc = "failed" /\ client'.op = client.op /\ client'.b = client.b /\ client'.next = client.next
              \/ /\ work[h].answer = "ok" /\ client'.b = work[h].b
                 /\ client'.op = client.op /\ client'.next = client.next
                 /\ client.op \in {"finish", "form"} /\ client'.pc = "landed"
              \/ /\ work[h].answer = "ok" /\ client'.b = work[h].b
                 /\ client.op \in {"start", "chunk"} /\ client'.pc = "ready"
                 /\ client'.next = IF client.op = "chunk" THEN client.next + 1 ELSE client.next
                 /\ client'.op = IF client'.next <= Len(Groups) THEN "chunk" ELSE "finish"
<1>1. /\ client.h = h /\ client.pc = "waiting" /\ work[h].pc = "answer" /\ work[h].op = client.op
      /\ client \in Clients /\ PageInv /\ AboutOK(h) /\ UNCHANGED <<batches, items>>
  BY DEF Answered, RequestInv, AboutOK, TypeInv
<1>2. /\ work' \in [Handlers -> Works] /\ work'[h].pc = "idle" /\ work'[h].op = "start"
      /\ \A k \in Handlers : k # h => work'[k] = work[k]
  BY Freed DEF Answered, TypeInv
<1>3. CASE work[h].answer = "ok"
  <2>1. client' = Advance(work[h])
    BY <1>3 DEF Answered
  <2>2. PICK c : c = Advance(work[h])
    OBVIOUS
  <2>3. /\ c \in Clients /\ c.h = NoHandler /\ c.b = work[h].b
        /\ client.op \in {"finish", "form"} =>
              c.pc = "landed" /\ c.op = client.op /\ c.next = client.next
        /\ client.op \in {"start", "chunk"} =>
              /\ c.pc = "ready"
              /\ c.next = IF client.op = "chunk" THEN client.next + 1 ELSE client.next
              /\ c.op = IF c.next <= Len(Groups) THEN "chunk" ELSE "finish"
    BY <1>1, <2>2, AdvanceIs
  <2>4. client.op \in {"finish", "form", "start", "chunk"}
    BY <1>1 DEF Clients, Ops
  <2>5. client' = c
    BY <2>1, <2>2
  <2>6. QED
    BY <1>1, <1>2, <1>3, <2>3, <2>4, <2>5
<1>4. CASE work[h].answer # "ok"
  <2>1. client' = [client EXCEPT !.pc = "failed", !.h = NoHandler]
    BY <1>4 DEF Answered
  <2>2. QED
    BY <1>1, <1>2, <2>1 DEF Clients
<1>5. QED
  BY <1>3, <1>4

LEMMA DieIs ==
    ASSUME TypeInv, NEW h \in Handlers, Die(h)
    PROVE  /\ UNCHANGED <<batches, items, overtaken>>
           /\ work' \in [Handlers -> Works] /\ work'[h].pc = "idle" /\ work'[h].op = "start"
           /\ \A k \in Handlers : k # h => work'[k] = work[k]
           /\ client' \in Clients
           /\ client'.op = client.op /\ client'.b = client.b /\ client'.next = client.next
           /\ \/ client.h # h /\ client' = client
              \/ client.h = h /\ client'.h = NoHandler /\ client'.pc \in {"ready", "failed"}
<1>1. client \in Clients
  BY DEF TypeInv
<1>2. UNCHANGED <<batches, items, overtaken>> /\ (IF client.h = h THEN TryAgain ELSE UNCHANGED client)
  BY DEF Die
<1>3. /\ work' \in [Handlers -> Works] /\ work'[h].pc = "idle" /\ work'[h].op = "start"
      /\ \A k \in Handlers : k # h => work'[k] = work[k]
  BY Freed DEF Die, TypeInv
<1>4. QED
  BY <1>1, <1>2, <1>3, TryIs

LEMMA TypeStep ==
    ASSUME TypeInv, RequestInv, \A h \in Handlers : ChunkOK(h), [Next]_vars
    PROVE  TypeInv'
<1>0. mishaps + 1 \in Nat /\ presses + 1 \in Nat /\ client \in Clients /\ work \in [Handlers -> Works]
  BY DEF TypeInv
<1>1. ASSUME NEW h \in Handlers, Send(h) PROVE TypeInv'
  BY <1>1, SendIs DEF RequestInv, TypeInv, Send, counts
<1>2. ASSUME NEW h \in Handlers, Answered(h) PROVE TypeInv'
  BY <1>2, AnsweredIs DEF TypeInv, Answered, counts
<1>3. ASSUME NEW h \in Handlers, Unheard(h) PROVE TypeInv'
  BY <1>3, Freed DEF TypeInv, Unheard, counts
<1>4. ASSUME NEW h \in Handlers, Lose(h) PROVE TypeInv'
  BY <1>0, <1>4, TryIs DEF TypeInv, Lose
<1>5. ASSUME NEW h \in Handlers, Die(h) PROVE TypeInv'
  BY <1>0, <1>5, DieIs DEF TypeInv, Die
<1>6. CASE Press
  <2>1. TriesFor(client.op) \in Nat
    BY DEF TriesFor
  <2>2. client' \in Clients
    BY <1>0, <1>6, <2>1 DEF Press, Clients
  <2>3. QED
    BY <1>0, <1>6, <2>2 DEF TypeInv, Press
<1>7. ASSUME NEW h \in Handlers, CreateBatch(h) PROVE TypeInv'
  BY <1>7, CreateIs DEF TypeInv, RequestInv, CreateBatch, counts
<1>8. ASSUME NEW h \in Handlers, ChunkStart(h) PROVE TypeInv'
  BY <1>8, ChunkStartIs DEF TypeInv, ChunkStart, counts
<1>9. ASSUME NEW h \in Handlers, IngestPhoto(h) PROVE TypeInv'
  BY <1>9, IngestIs DEF TypeInv, IngestPhoto, counts
<1>10. ASSUME NEW h \in Handlers, IngestDone(h) PROVE TypeInv'
  BY <1>10, IngestDoneIs DEF TypeInv, IngestDone, counts
<1>11. ASSUME NEW h \in Handlers, FinishStart(h) PROVE TypeInv'
  BY <1>11, FinishStartIs DEF TypeInv, FinishStart, counts
<1>12. ASSUME NEW h \in Handlers, Detect(h) PROVE TypeInv'
  BY <1>12, DetectIs DEF TypeInv, Detect, counts
<1>13. ASSUME NEW h \in Handlers, FinalizeCount(h) PROVE TypeInv'
  BY <1>13, CountIs DEF TypeInv, FinalizeCount, counts
<1>14. ASSUME NEW h \in Handlers, FinalizeSettle(h) PROVE TypeInv'
  BY <1>14, SettleIs DEF TypeInv, FinalizeSettle, counts
<1>15. CASE UNCHANGED vars
  BY <1>15 DEF TypeInv, vars
<1>16. QED
  BY <1>1, <1>2, <1>3, <1>4, <1>5, <1>6, <1>7, <1>8, <1>9, <1>10, <1>11, <1>12, <1>13, <1>14, <1>15
     DEF Next, Page, Serve

-----------------------------------------------------------------------------
(* Where the page is, and which batch a request is about.                  *)

\* A request not touched, of a page that has not changed.
LEMMA AboutKept ==
    ASSUME NEW k \in Handlers, AboutOK(k), work'[k] = work[k], DOMAIN batches \subseteq DOMAIN batches',
           client' = client
    PROVE  AboutOK(k)'
BY DEF AboutOK, Busy, Chunked

\* A step of the server that leaves its request under way.
LEMMA ServeRequest ==
    ASSUME TypeInv, RequestInv, \A h \in Handlers : ChunkOK(h), NEW h \in Handlers, Serve(h)
    PROVE  RequestInv'
<1>0. PageInv /\ AboutOK(h) /\ work \in [Handlers -> Works] /\ h # NoHandler
  BY UploadAssumption DEF RequestInv, TypeInv
<1>1. CASE CreateBatch(h)
  <2>1. /\ client' = client /\ DOMAIN batches \subseteq DOMAIN batches' /\ work[h].pc = "open"
        /\ \A k \in Handlers : k # h => work'[k] = work[k]
        /\ work'[h].op = work[h].op /\ work'[h].b \in DOMAIN batches'
        /\ work[h].op = "form"  => work'[h].pc = "ingest"
        /\ work[h].op = "start" => work'[h].pc = "answer"
    BY <1>0, <1>1, CreateIs DEF CreateBatch
  <2>2. work[h].op \in {"start", "form"}
    BY <1>0, <2>1 DEF AboutOK
  <2>3. AboutOK(h)'
    BY <1>0, <2>1, <2>2 DEF AboutOK, Busy, Chunked
  <2>4. \A k \in Handlers : AboutOK(k)'
    BY <2>1, <2>3, AboutKept DEF RequestInv
  <2>5. PageInv'
    BY <1>0, <2>1 DEF PageInv, Chunked
  <2>6. QED
    BY <2>4, <2>5 DEF RequestInv
<1>2. ASSUME client' = client, DOMAIN batches' = DOMAIN batches,
             \A k \in Handlers : k # h => work'[k] = work[k],
             work'[h].op = work[h].op, work'[h].b = work[h].b, work[h].pc \notin {"idle", "open"},
             \/ work'[h].pc = "answer"
             \/ work'[h].pc = "ingest" /\ work[h].op \in {"chunk", "form"}
             \/ work'[h].pc \in {"detect", "count", "settle"} /\ work[h].op \in {"finish", "form"}
      PROVE  RequestInv'
  <2>1. AboutOK(h)'
    BY <1>0, <1>2 DEF AboutOK, Busy, Chunked
  <2>2. \A k \in Handlers : AboutOK(k)'
    BY <1>2, <2>1, AboutKept DEF RequestInv
  <2>3. PageInv'
    BY <1>0, <1>2 DEF PageInv, Chunked
  <2>4. QED
    BY <2>2, <2>3 DEF RequestInv
<1>3. CASE ChunkStart(h)
  BY <1>2, <1>3, ChunkStartIs DEF ChunkStart
<1>4. CASE IngestPhoto(h)
  <2>1. work[h].op \in {"chunk", "form"}
    BY <1>0, <1>4 DEF AboutOK, IngestPhoto
  <2>2. QED
    BY <1>2, <1>4, <2>1, IngestIs DEF IngestPhoto
<1>5. CASE IngestDone(h)
  <2>1. CASE work[h].op = "chunk"
    BY <1>2, <1>5, <2>1, IngestDoneIs DEF IngestDone
  <2>2. CASE work[h].op = "form"
    BY <1>2, <1>5, <2>2, IngestDoneIs DEF IngestDone
  <2>3. QED
    BY <1>5, <2>1, <2>2, IngestDoneIs
<1>6. CASE FinishStart(h)
  <2>1. work[h].op = "finish"
    BY <1>0, <1>6 DEF AboutOK, FinishStart
  <2>2. QED
    BY <1>2, <1>6, <2>1, FinishStartIs DEF FinishStart
<1>7. CASE Detect(h)
  <2>1. work[h].op \in {"finish", "form"}
    BY <1>0, <1>7 DEF AboutOK, Detect
  <2>2. QED
    BY <1>2, <1>7, <2>1, DetectIs DEF Detect
<1>8. CASE FinalizeCount(h)
  <2>1. work[h].op \in {"finish", "form"}
    BY <1>0, <1>8 DEF AboutOK, FinalizeCount
  <2>2. QED
    BY <1>2, <1>8, <2>1, CountIs DEF FinalizeCount
<1>9. CASE FinalizeSettle(h)
  BY <1>2, <1>9, SettleIs DEF FinalizeSettle
<1>10. QED
  BY <1>1, <1>3, <1>4, <1>5, <1>6, <1>7, <1>8, <1>9 DEF Serve

LEMMA RequestStep ==
    ASSUME TypeInv, RequestInv, \A h \in Handlers : ChunkOK(h), [Next]_vars
    PROVE  RequestInv'
<1>0. PageInv /\ NoHandler \notin Handlers /\ client \in Clients
  BY UploadAssumption DEF RequestInv, TypeInv
<1>1. ASSUME NEW h \in Handlers, Send(h) PROVE RequestInv'
  <2>1. /\ client'.pc = "waiting" /\ client'.h = h
        /\ client'.op = client.op /\ client'.b = client.b /\ client'.next = client.next
        /\ \A k \in Handlers : k # h => work'[k] = work[k]
        /\ work'[h].pc = IF client.op \in {"start", "form"} THEN "open" ELSE client.op
        /\ work'[h].op = client.op /\ work'[h].b = client.b /\ batches' = batches
        /\ client.h = NoHandler
    BY <1>0, <1>1, SendIs DEF Send, PageInv, Clients, TypeInv
  <2>2. client.op \in {"start", "form", "chunk", "finish"}
    BY <1>0 DEF Clients, Ops
  <2>3. AboutOK(h)'
    BY <1>0, <2>1, <2>2 DEF AboutOK, Busy, Chunked, PageInv
  <2>4. ASSUME NEW k \in Handlers, k # h PROVE AboutOK(k)'
    BY <2>1, <2>4 DEF AboutOK, Busy, Chunked, RequestInv
  <2>5. PageInv'
    BY <1>0, <2>1 DEF PageInv, Chunked
  <2>6. QED
    BY <2>3, <2>4, <2>5 DEF RequestInv
<1>2. ASSUME NEW h \in Handlers, Answered(h) PROVE RequestInv'
  <2>1. /\ client.h = h /\ work[h].pc = "answer" /\ work[h].op = client.op /\ batches' = batches
        /\ work'[h].pc = "idle" /\ client'.h = NoHandler /\ client'.pc # "waiting"
        /\ \A k \in Handlers : k # h => work'[k] = work[k]
    BY <1>2, AnsweredIs
  <2>2. AboutOK(h) /\ work[h].b \in DOMAIN batches
    BY <2>1 DEF RequestInv, AboutOK, Busy
  <2>3. CASE client'.op = client.op /\ client'.b = client.b /\ client'.next = client.next /\ client'.pc = "failed"
    <3>1. \A k \in Handlers : AboutOK(k)'
      BY <1>0, <2>1, <2>3 DEF AboutOK, Busy, Chunked, RequestInv
    <3>2. QED
      BY <1>0, <2>1, <2>3, <3>1 DEF PageInv, Chunked, RequestInv
  <2>4. CASE /\ client'.b = work[h].b /\ client'.op = client.op /\ client'.next = client.next
             /\ client.op \in {"finish", "form"} /\ client'.pc = "landed"
    <3>1. client.op = "finish" => client'.b = client.b
      BY <2>1, <2>2, <2>4 DEF AboutOK, Busy
    <3>2. \A k \in Handlers : AboutOK(k)'
      BY <1>0, <2>1, <2>4, <3>1 DEF AboutOK, Busy, Chunked, RequestInv
    <3>3. QED
      BY <1>0, <2>1, <2>2, <2>4, <3>2 DEF PageInv, Chunked, RequestInv
  <2>5. CASE /\ client'.b = work[h].b /\ client.op \in {"start", "chunk"} /\ client'.pc = "ready"
             /\ client'.next = IF client.op = "chunk" THEN client.next + 1 ELSE client.next
             /\ client'.op = IF client'.next <= Len(Groups) THEN "chunk" ELSE "finish"
    <3>1. client.op = "chunk" => client'.b = client.b
      BY <2>1, <2>2, <2>5 DEF AboutOK, Busy
    <3>2. client'.op \in {"chunk", "finish"}
      BY <2>5
    <3>3. ASSUME NEW k \in Handlers PROVE AboutOK(k)'
      <4>1. CASE k = h
        BY <1>0, <2>1, <4>1 DEF AboutOK, Busy
      <4>2. CASE k # h
        BY <1>0, <2>1, <2>5, <3>1, <3>2, <4>2 DEF AboutOK, Busy, Chunked, RequestInv
      <4>3. QED
        BY <4>1, <4>2
    <3>4. client'.op = "finish" => client'.next = Len(Groups) + 1
      BY <1>0, <2>5, GroupsAre DEF PageInv, Clients
    <3>5. PageInv'
      BY <1>0, <2>1, <2>2, <2>5, <3>2, <3>4 DEF PageInv, Chunked
    <3>6. QED
      BY <3>3, <3>5 DEF RequestInv
  <2>6. QED
    BY <1>2, <2>3, <2>4, <2>5, AnsweredIs
<1>3. ASSUME NEW h \in Handlers, Unheard(h) PROVE RequestInv'
  <2>1. /\ client' = client /\ batches' = batches /\ client.h # h /\ work'[h].pc = "idle"
        /\ \A k \in Handlers : k # h => work'[k] = work[k]
    BY <1>3, Freed DEF Unheard, TypeInv
  <2>2. AboutOK(h)'
    BY <2>1 DEF AboutOK, Busy
  <2>3. \A k \in Handlers : AboutOK(k)'
    BY <2>1, <2>2, AboutKept DEF RequestInv
  <2>4. QED
    BY <1>0, <2>1, <2>3 DEF RequestInv, PageInv, Chunked
<1>4. ASSUME NEW h \in Handlers, Lose(h) PROVE RequestInv'
  <2>1. /\ client'.pc \in {"ready", "failed"} /\ client'.h = NoHandler
        /\ client'.op = client.op /\ client'.b = client.b /\ client'.next = client.next
        /\ work' = work /\ batches' = batches
    BY <1>0, <1>4, TryIs DEF Lose
  <2>2. \A k \in Handlers : AboutOK(k)'
    BY <1>0, <2>1 DEF RequestInv, AboutOK, Busy, Chunked
  <2>3. QED
    BY <1>0, <2>1, <2>2 DEF RequestInv, PageInv, Chunked
<1>5. ASSUME NEW h \in Handlers, Die(h) PROVE RequestInv'
  <2>1. /\ batches' = batches /\ work'[h].pc = "idle"
        /\ \A k \in Handlers : k # h => work'[k] = work[k]
        /\ client'.op = client.op /\ client'.b = client.b /\ client'.next = client.next
        /\ \/ client.h # h /\ client' = client
           \/ client.h = h /\ client'.h = NoHandler /\ client'.pc \in {"ready", "failed"}
    BY <1>5, DieIs
  <2>2. \A k \in Handlers : AboutOK(k)'
    BY <1>0, <2>1 DEF RequestInv, AboutOK, Busy, Chunked
  <2>3. PageInv'
    BY <1>0, <2>1 DEF PageInv, Chunked
  <2>4. QED
    BY <2>2, <2>3 DEF RequestInv
<1>6. CASE Press
  <2>1. /\ client'.pc = "ready" /\ client'.h = client.h /\ client.pc = "failed"
        /\ client'.op = client.op /\ client'.b = client.b /\ client'.next = client.next
        /\ work' = work /\ batches' = batches
    BY <1>0, <1>6 DEF Press, Clients
  <2>2. \A k \in Handlers : AboutOK(k)'
    BY <1>0, <2>1 DEF RequestInv, AboutOK, Busy, Chunked
  <2>3. QED
    BY <1>0, <2>1, <2>2 DEF RequestInv, PageInv, Chunked
<1>7. CASE UNCHANGED vars
  BY <1>7 DEF vars, RequestInv, PageInv, AboutOK, Busy, Chunked
<1>8. QED
  BY <1>1, <1>2, <1>3, <1>4, <1>5, <1>6, <1>7, ServeRequest DEF Next, Page

-----------------------------------------------------------------------------
(* The photos.                                                             *)

\* What a batch has it keeps.
LEMMA PhotosKept ==
    ASSUME TypeInv, [Next]_vars
    PROVE  /\ \A b, p : In(b, p) => In(b, p)'
           /\ \A b : /\ Members(b) \subseteq Members(b)'
                     /\ Cardinality(Members(b)) \in Nat /\ Cardinality(Members(b)') \in Nat
                     /\ Cardinality(Members(b)) <= Cardinality(Members(b)')
<1>1. \/ UNCHANGED items
      \/ \E h \in Handlers : IngestPhoto(h) \/ Detect(h)
  BY DEF Next, vars, Page, Serve, Send, Answered, Unheard, Lose, Die, Press, CreateBatch, ChunkStart, IngestDone,
         FinishStart, FinalizeCount, FinalizeSettle
<1>2. /\ DOMAIN items \subseteq DOMAIN items' /\ items' \in Seq(Item)
      /\ \A i \in DOMAIN items : items'[i].batch = items[i].batch /\ items'[i].photo = items[i].photo
  BY <1>1, IngestIs, DetectIs DEF TypeInv
<1>3. ASSUME NEW b
      PROVE  /\ Members(b) \subseteq Members(b)' /\ IsFiniteSet(Members(b)')
             /\ Cardinality(Members(b)) \in Nat
  <2>1. Members(b) \subseteq Members(b)'
    BY <1>2 DEF Members
  <2>2. IsFiniteSet(Members(b)')
    <3>1. DOMAIN items' = 1..Len(items') /\ Len(items') \in Nat
      BY <1>2, LenProperties
    <3>2. IsFiniteSet(1..Len(items')) /\ Members(b)' \subseteq 1..Len(items')
      BY <3>1, FS_Interval DEF Members
    <3>3. QED
      BY <3>2, FS_Subset
  <2>3. QED
    BY <2>1, <2>2, MembersCount DEF TypeInv
<1>4. ASSUME NEW b
      PROVE  Cardinality(Members(b)') \in Nat /\ Cardinality(Members(b)) <= Cardinality(Members(b)')
  BY <1>3, FS_Subset, FS_CardinalityType
<1>5. QED
  BY <1>2, <1>3, <1>4 DEF In

LEMMA GroupsKept ==
    ASSUME TypeInv, [Next]_vars
    PROVE  /\ \A b, g : Have(b, g) => Have(b, g)'
           /\ \A k \in Handlers : \A g : work'[k] = work[k] /\ Cover(k, g) => Cover(k, g)'
<1>1. \A b : Filled(b) => Filled(b)'
  BY PhotosKept, GroupsAre DEF Filled
<1>2. \A b, g : Have(b, g) => Have(b, g)'
  BY <1>1, PhotosKept DEF Have, AfterShort, Short
<1>3. ASSUME NEW k \in Handlers, work'[k] = work[k], Filling(k) PROVE Filling(k)'
  <2>1. PICK b, n : b = work[k].b /\ n = Len(work[k].todo)
    OBVIOUS
  <2>2. n \in Nat
    BY <2>1, LenProperties DEF TypeInv, Works
  <2>3. Cardinality(Members(b)) <= Cardinality(Members(b)')
        /\ Cardinality(Members(b)) \in Nat /\ Cardinality(Members(b)') \in Nat
    BY PhotosKept
  <2>4. Cardinality(Members(b)) + n >= Cap
    BY <1>3, <2>1 DEF Filling
  <2>5. Cardinality(Members(b)') + n >= Cap
    BY <2>2, <2>3, <2>4, GroupsAre
  <2>6. QED
    BY <1>3, <2>1, <2>5 DEF Filling
<1>4. ASSUME NEW k \in Handlers, NEW g, work'[k] = work[k], Cover(k, g) PROVE Cover(k, g)'
  <2>1. PICK b : b = work[k].b
    OBVIOUS
  <2>2. \A p : In(b, p) => In(b, p)'
    BY PhotosKept
  <2>3. QED
    BY <1>3, <1>4, <2>1, <2>2 DEF Cover, AfterShort, Short
<1>5. QED
  BY <1>2, <1>4

\* A short group stays in, and counts among more groups too.
LEMMA ShortKept ==
    ASSUME TypeInv, [Next]_vars, NEW m \in Nat, NEW n \in Nat, m <= n
    PROVE  /\ \A b : ShortIn(b, m) => ShortIn(b, n)'
           /\ \A k \in Handlers : work'[k] = work[k] /\ ShortInHand(k, m) => ShortInHand(k, n)'
<1>1. \A k \in DOMAIN Groups : k <= m => k <= n
  BY GroupsAre
<1>2. QED
  BY <1>1, GroupsKept DEF ShortIn, ShortInHand, Short

\* Whole chunks make whole chunks, and a part of a chunk never is one.
LEMMA WholeSum ==
    ASSUME NEW a \in Nat, NEW b \in Nat, Whole(a), Whole(b)
    PROVE  Whole(a + b)
<1>1. PICK q \in Nat : a = q * Chunk
  BY DEF Whole
<1>2. PICK r \in Nat : b = r * Chunk
  BY DEF Whole
<1>3. a + b = (q + r) * Chunk /\ q + r \in Nat
  BY <1>1, <1>2, GroupsAre
<1>4. QED
  BY <1>3 DEF Whole

LEMMA WholeChunk == Whole(0) /\ Whole(Chunk) /\ Whole(Cap)
<1>1. Chunk \in Nat /\ Chunk > 0 /\ Cap \in Nat /\ Cap % Chunk = 0
  BY GroupsAre, UploadAssumption
<1>2. 0 = 0 * Chunk /\ Chunk = 1 * Chunk
  BY <1>1
<1>3. Cap \div Chunk \in Nat /\ Cap = (Cap \div Chunk) * Chunk
  BY <1>1
<1>4. QED
  BY <1>2, <1>3 DEF Whole

\* A batch of whole chunks that is not full has room for a chunk.
LEMMA WholeRoom ==
    ASSUME NEW total \in Nat, Whole(total), Cap - total > 0
    PROVE  Cap - total >= Chunk
<1>1. PICK q \in Nat : total = q * Chunk
  BY DEF Whole
<1>2. PICK c \in Nat : Cap = c * Chunk
  BY WholeChunk DEF Whole
<1>3. Chunk \in Nat /\ Chunk > 0
  BY GroupsAre
<1>4. c - q \in Int /\ Cap - total = (c - q) * Chunk
  BY <1>1, <1>2, <1>3
<1>5. c - q >= 1
  <2> SUFFICES ASSUME c - q <= 0 PROVE FALSE
    BY <1>4
  <2>1. (c - q) * Chunk <= 0
    BY <1>3, <1>4
  <2>2. Cap - total <= 0 /\ Cap - total \in Int
    BY <1>4, <2>1, GroupsAre
  <2>3. QED
    BY <2>2
<1>6. (c - q) * Chunk >= 1 * Chunk
  BY <1>3, <1>4, <1>5
<1>7. QED
  BY <1>3, <1>4, <1>6

\* A request that is not touched, when the page only moves on.
LEMMA ChunkKept ==
    ASSUME TypeInv, [Next]_vars, client' \in Clients,
           NEW k \in Handlers, ChunkOK(k), work'[k] = work[k], client.next <= client'.next,
           client'.h = k => client.h = k /\ client'.next = client.next /\ client'.b = client.b
    PROVE  ChunkOK(k)'
<1>0. client \in Clients /\ client.next \in Nat /\ client'.next \in Nat /\ Len(Groups) \in Nat /\ DOMAIN Groups \subseteq Nat
  BY GroupsAre DEF TypeInv, Clients
<1>1. CASE work[k].op = "chunk"
  <2>1. CASE work[k].pc = "chunk"
    <3>1. PICK g \in DOMAIN Groups : work[k].todo = Groups[g] /\ g <= client.next /\ (client.h = k => g = client.next)
      BY <1>1, <2>1 DEF ChunkOK
    <3>2. g <= client'.next /\ (client'.h = k => g = client'.next)
      BY <1>0, <3>1
    <3>3. QED
      BY <2>1, <3>1, <3>2 DEF ChunkOK
  <2>2. CASE work[k].pc = "ingest"
    <3>1. client.h = k => Cover(k, client.next)
      BY <1>1, <2>2 DEF ChunkOK
    <3>2. PICK m1, m2 : m1 = client.next /\ m2 = client'.next
      OBVIOUS
    <3>3. ~ Whole(work[k].n) => ShortInHand(k, m1)
      BY <1>1, <2>2, <3>2 DEF ChunkOK
    <3>4. \A g : Cover(k, g) => Cover(k, g)'
      BY GroupsKept
    <3>5. PICK m : m = client.next
      OBVIOUS
    <3>6. client'.h = k => Cover(k, m)' /\ client'.next = m
      BY <3>1, <3>4, <3>5
    <3>7. client'.h = k => Cover(k, client.next)'
      BY <3>6
    <3>8. Whole(work'[k].n) <=> Whole(work[k].n)
      OBVIOUS
    <3>9. ~ Whole(work'[k].n) => ShortInHand(k, m2)'
      BY <1>0, <3>2, <3>3, <3>8, ShortKept
    <3>10. ~ Whole(work'[k].n) => ShortInHand(k, client.next)'
      BY <3>2, <3>9
    <3>11. QED
      BY <2>2, <3>7, <3>10 DEF ChunkOK
  <2>3. CASE work[k].pc = "answer"
    <3>1. work[k].answer = "ok" /\ client.h = k => Have(client.b, client.next)
      BY <1>1, <2>3 DEF ChunkOK
    <3>2. PICK b, m : b = client.b /\ m = client.next
      OBVIOUS
    <3>3. Have(b, m) => Have(b, m)'
      BY GroupsKept
    <3>4. work'[k].answer = "ok" /\ client'.h = k => Have(b, m)' /\ client'.b = b /\ client'.next = m
      BY <3>1, <3>2, <3>3
    <3>5. work'[k].answer = "ok" /\ client'.h = k => Have(client.b, client.next)'
      BY <3>4
    <3>6. QED
      BY <2>3, <3>5 DEF ChunkOK
  <2>4. CASE work[k].pc \notin {"chunk", "ingest", "answer"}
    BY <2>4 DEF ChunkOK
  <2>5. QED
    BY <2>1, <2>2, <2>3, <2>4
<1>2. CASE work[k].op # "chunk"
  BY <1>2 DEF ChunkOK
<1>3. QED
  BY <1>1, <1>2

LEMMA FormKept ==
    ASSUME TypeInv, [Next]_vars, NEW k \in Handlers, FormOK(k), work'[k] = work[k]
    PROVE  FormOK(k)'
<1>1. \A b, g : Have(b, g) => Have(b, g)'
  BY GroupsKept
<1>2. \A g : Cover(k, g) => Cover(k, g)'
  BY GroupsKept
<1>3. PICK b : b = work[k].b
  OBVIOUS
<1>4. QED
  BY <1>1, <1>2, <1>3 DEF FormOK

\* What a request has put in is all it had, when its hand is empty.
LEMMA HandEmpty ==
    ASSUME TypeInv, NEW h \in Handlers, work[h].todo = <<>>
    PROVE  \A g : Cover(h, g) => Have(work[h].b, g)
<1>1. Range(work[h].todo) = {} /\ Len(work[h].todo) = 0
  BY DEF Range
<1>2. Filling(h) => Filled(work[h].b)
  BY <1>1, MembersCount, GroupsAre DEF Filling, Filled, TypeInv
<1>3. QED
  BY <1>1, <1>2 DEF Cover, Have

\* The steps after which the page and the batches are what they were, or only a count or
\* a status of the request's own batch has changed.
LEMMA RoomServe ==
    ASSUME TypeInv, RequestInv, PhotosInv, NEW h \in Handlers, Serve(h)
    PROVE  RoomInv' /\ SentInv' /\ LandedInv'
<1>0. [Next]_vars /\ client' = client /\ PageInv /\ AboutOK(h)
  BY DEF Next, Serve, CreateBatch, ChunkStart, IngestPhoto, IngestDone, FinishStart, Detect, FinalizeCount,
         FinalizeSettle, RequestInv
<1>1. \A b, g : Have(b, g) => Have(b, g)'
  BY <1>0, GroupsKept
<1>2. SentInv' /\ LandedInv'
  <2>1. PICK b, m : b = client.b /\ m = client.next
    OBVIOUS
  <2>2. SentInv'
    BY <1>0, <1>1, <2>1 DEF PhotosInv, SentInv, Chunked
  <2>3. LandedInv'
    BY <1>0, <1>1, <2>1 DEF PhotosInv, LandedInv
  <2>4. QED
    BY <2>2, <2>3
<1>3. ASSUME Chunked PROVE client.b \in DOMAIN batches
  BY <1>0, <1>3 DEF PageInv
<1>4. PICK b, m : b = client.b /\ m = client.next
  OBVIOUS
<1>5. Chunked /\ Open(b) /\ ~ Whole(batches[b].total) => ShortIn(b, m)
  BY <1>4 DEF PhotosInv, RoomInv
<1>a. m \in Nat
  BY <1>4 DEF TypeInv, Clients
<1>b. ShortIn(b, m) => ShortIn(b, m)'
  BY <1>0, <1>a, ShortKept
<1>6. ASSUME client.op = "start" => \A c \in DOMAIN batches' : batches'[c].total = 0,
             Chunked /\ batches'[b].status = "processing" /\ ~ Whole(batches'[b].total) => ShortIn(b, m)'
      PROVE  RoomInv'
  BY <1>0, <1>4, <1>6 DEF RoomInv, Chunked, Open
<1>7. ASSUME UNCHANGED batches PROVE RoomInv'
  BY <1>5, <1>6, <1>7, <1>b DEF PhotosInv, RoomInv, Open
<1>8. ASSUME CreateBatch(h) PROVE RoomInv'
  <2>1. /\ \A c \in DOMAIN batches' : c \in DOMAIN batches \/ batches'[c].total = 0
        /\ \A c \in DOMAIN batches : batches'[c] = batches[c]
    BY <1>0, <1>8, CreateIs
  <2>2. Chunked => batches'[b] = batches[b]
    BY <1>3, <1>4, <2>1
  <2>3. QED
    BY <1>5, <1>6, <1>b, <2>1, <2>2 DEF PhotosInv, RoomInv, Open
<1>9. ASSUME IngestDone(h) PROVE RoomInv'
  <2>1. /\ work[h].op \in {"chunk", "form"} /\ work[h].pc = "ingest" /\ work[h].todo = <<>>
        /\ \A c \in DOMAIN batches : c # work[h].b => batches'[c] = batches[c]
    BY <1>9, IngestDoneIs DEF IngestDone
  <2>2. CASE work[h].op = "form"
    <3>1. client.op = "form"
      BY <1>0, <2>1, <2>2 DEF AboutOK, Busy
    <3>2. QED
      BY <1>6, <3>1 DEF Chunked
  <2>3. CASE work[h].op = "chunk"
    <3>1. Chunked /\ work[h].b = b
      BY <1>0, <1>4, <2>1, <2>3 DEF AboutOK, Busy
    <3>2. /\ batches[b].total \in Nat /\ work[h].n \in Nat
          /\ batches'[b].total = batches[b].total + work[h].n
          /\ batches'[b].status = batches[b].status
      BY <1>9, <3>1, IngestDoneIs
    <3>3. ~ Whole(work[h].n) => ShortInHand(h, m)
      BY <1>4, <2>1, <2>3 DEF PhotosInv, ChunkOK
    <3>4. \A g : Cover(h, g) => Have(b, g)
      BY <2>1, <3>1, HandEmpty
    <3>5. ShortInHand(h, m) => ShortIn(b, m)
      BY <3>4 DEF ShortInHand, ShortIn
    <3>6. ~ Whole(batches'[b].total) => ~ Whole(batches[b].total) \/ ~ Whole(work[h].n)
      BY <3>2, WholeSum
    <3>7. QED
      BY <1>5, <1>6, <1>b, <3>1, <3>2, <3>3, <3>5, <3>6 DEF Chunked, Open
  <2>4. QED
    BY <2>1, <2>2, <2>3
<1>10. ASSUME FinalizeSettle(h) PROVE RoomInv'
  <2>1. work[h].op \in {"finish", "form"} /\ work[h].pc = "settle" /\ batches'[work[h].b].status = "done"
    BY <1>10, SettleIs DEF FinalizeSettle
  <2>2. CASE work[h].op = "form"
    <3>1. client.op = "form"
      BY <1>0, <2>1, <2>2 DEF AboutOK, Busy
    <3>2. QED
      BY <1>6, <3>1 DEF Chunked
  <2>3. CASE work[h].op = "finish"
    <3>1. Chunked /\ work[h].b = b
      BY <1>0, <1>4, <2>1, <2>3 DEF AboutOK, Busy
    <3>2. QED
      BY <1>6, <2>1, <3>1 DEF Chunked
  <2>4. QED
    BY <2>1, <2>2, <2>3
<1>11. RoomInv'
  BY <1>7, <1>8, <1>9, <1>10 DEF Serve, ChunkStart, IngestPhoto, FinishStart, Detect, FinalizeCount
<1>12. QED
  BY <1>2, <1>11

\* An open batch has as many items as its total says, or more.
LEMMA TallyCounts ==
    ASSUME TypeInv, TallyInv, NEW b \in DOMAIN batches, Open(b)
    PROVE  batches[b].total <= Cardinality(Members(b)) /\ Cardinality(Members(b)) \in Nat
<1>1. PICK by : Tallied(by)
  BY DEF TallyInv
<1>2. PICK counted : counted = For(NoHandler, Members(b), by)
  OBVIOUS
<1>3. batches[b].total <= Cardinality(counted)
  BY <1>1, <1>2 DEF Tallied
<1>4. IsFiniteSet(Members(b)) /\ counted \subseteq Members(b)
  BY <1>2, MembersFinite DEF TypeInv, For
<1>5. /\ Cardinality(counted) <= Cardinality(Members(b))
      /\ Cardinality(counted) \in Nat /\ Cardinality(Members(b)) \in Nat
  BY <1>4, FS_Subset, FS_CardinalityType
<1>6. batches[b].total \in Nat
  <2>1. batches[b] \in Batch
    BY ElementOfSeq, LenProperties DEF TypeInv
  <2>2. QED
    BY <2>1 DEF Batch
<1>7. QED
  BY <1>3, <1>5, <1>6

\* A chunk's photos in hand are the group's, or what is in hand fills the batch up and a
\* short group is in already.
LEMMA ChunkStartOK ==
    ASSUME TypeInv, RequestInv, PhotosInv, TallyInv, NEW h \in Handlers, ChunkStart(h)
    PROVE  ChunkOK(h)' /\ FormOK(h)'
<1> DEFINE b == work[h].b
           room == Cap - batches[b].total
<1>1. /\ work[h].op = "chunk" /\ b = client.b /\ b \in DOMAIN batches /\ batches[b].total \in Nat
      /\ work'[h].op = "chunk" /\ work'[h].b = b /\ work[h].pc = "chunk" /\ UNCHANGED <<batches, items, client>>
      /\ \/ work'[h].pc = "answer" /\ work'[h].answer \in {"closed", "full"}
         \/ /\ work'[h].pc = "ingest" /\ Open(b) /\ room \in Nat /\ room > 0
            /\ work'[h].todo = Take(work[h].todo, room)
            /\ work'[h].n = Len(Take(work[h].todo, room))
  BY ChunkStartIs DEF ChunkStart, PhotosInv
<1>2. Chunked /\ AboutOK(h) /\ PageInv /\ client \in Clients
  BY <1>1 DEF RequestInv, AboutOK, Busy, TypeInv
<1>3. FormOK(h)'
  BY <1>1 DEF FormOK
<1>4. CASE work'[h].pc = "answer" /\ work'[h].answer \in {"closed", "full"}
  BY <1>3, <1>4 DEF ChunkOK
<1>5. CASE /\ work'[h].pc = "ingest" /\ Open(b) /\ room \in Nat /\ room > 0
           /\ work'[h].todo = Take(work[h].todo, room)
           /\ work'[h].n = Len(Take(work[h].todo, room))
  <2>1. PICK k \in DOMAIN Groups : work[h].todo = Groups[k] /\ k <= client.next /\ (client.h = h => k = client.next)
    BY <1>1 DEF PhotosInv, ChunkOK
  <2>2. /\ Groups[k] \in Seq(Picked) /\ Len(Groups[k]) \in Nat /\ Len(Groups[k]) <= Chunk
        /\ k \in Nat /\ client.next \in Nat /\ Chunk \in Nat /\ Cap \in Nat
    BY <1>2, GroupsAre, UploadAssumption DEF Clients
  <2>3. PICK c, m : c = b /\ m = client.next
    OBVIOUS
  <2>4. \A q : In(c, q) => In(c, q)'
    BY <1>1 DEF In
  <2>5. UNCHANGED <<items, client>> /\ work'[h].b = c /\ (client.h = h => k = m)
    BY <1>1, <2>1, <2>3
  <2>6. Take(Groups[k], room) = Groups[k] \/ Len(Take(Groups[k], room)) = room
    BY <1>5, <2>2, Taken
  <2>7. ASSUME Take(Groups[k], room) = Groups[k] PROVE Cover(h, k)' /\ work'[h].n = Len(Groups[k])
    BY <1>5, <2>1, <2>7 DEF Cover
  <2>8. ASSUME Len(Take(Groups[k], room)) = room PROVE Filling(h)'
    <3>1. batches[c].total <= Cardinality(Members(c)) /\ Cardinality(Members(c)) \in Nat
      BY <1>1, <1>5, <2>3, TallyCounts
    <3>2. Members(c)' = Members(c)
      BY <1>1 DEF Members
    <3>3. Len(work'[h].todo) = Cap - batches[c].total /\ batches[c].total \in Nat
      BY <1>1, <1>5, <2>1, <2>3, <2>8
    <3>4. Cardinality(Members(c)') + Len(work'[h].todo) >= Cap
      BY <2>2, <3>1, <3>2, <3>3
    <3>5. (Members(work[h].b))' = Members(c)'
      BY <2>5
    <3>6. QED
      BY <3>4, <3>5 DEF Filling
  <2>9. CASE Whole(batches[b].total)
    <3>1. room >= Chunk
      BY <1>1, <1>5, <2>9, WholeRoom
    <3>2. Take(Groups[k], room) = Groups[k]
      BY <1>5, <2>2, <3>1, Taken
    <3>3. Cover(h, k)' /\ work'[h].n = Len(Groups[k])
      BY <2>7, <3>2
    <3>4. ~ Whole(work'[h].n) => Short(k)
      BY <2>2, <3>3, WholeChunk DEF Short
    <3>5. ~ Whole(work'[h].n) => ShortInHand(h, m)'
      BY <2>1, <2>3, <3>3, <3>4 DEF ShortInHand, Short
    <3>6. client'.h = h => Cover(h, m)'
      BY <2>5, <3>3
    <3>7. /\ client'.h = h => Cover(h, client.next)'
          /\ ~ Whole(work'[h].n) => ShortInHand(h, client.next)'
      BY <2>3, <2>5, <3>5, <3>6
    <3>8. QED
      BY <1>1, <1>3, <1>5, <3>7 DEF ChunkOK
  <2>10. CASE ~ Whole(batches[b].total)
    <3>1. PICK g \in DOMAIN Groups : Short(g) /\ g <= m /\ Have(c, g)
      BY <1>1, <1>2, <1>5, <2>3, <2>10 DEF PhotosInv, RoomInv, ShortIn
    <3>2. Filled(c) => Filling(h)'
      <4>1. Members(c)' = Members(c)
        BY <1>1 DEF Members
      <4>2. Len(work'[h].todo) \in Nat /\ Cardinality(Members(c)) \in Nat
        BY <1>5, <2>1, <2>2, Taken, MembersCount DEF TypeInv
      <4>3. Filled(c) => Cardinality(Members(c)') + Len(work'[h].todo) >= Cap
        BY <2>2, <4>1, <4>2 DEF Filled
      <4>4. (Members(work[h].b))' = Members(c)'
        BY <2>5
      <4>5. QED
        BY <4>3, <4>4 DEF Filling
    <3>3. Cover(h, g)'
      BY <2>4, <2>5, <3>1, <3>2 DEF Have, Cover, AfterShort, Short
    <3>4. ShortInHand(h, m)'
      BY <3>1, <3>3 DEF ShortInHand, Short
    <3>5. ASSUME client'.h = h PROVE Cover(h, m)'
      <4>1. k = m
        BY <2>5, <3>5
      <4>2. CASE Take(Groups[k], room) = Groups[k]
        BY <2>7, <4>1, <4>2
      <4>3. CASE Len(Take(Groups[k], room)) = room
        <5>1. CASE g = m
          BY <3>3, <5>1
        <5>2. CASE g # m
          <6>1. g \in 1..(m - 1)
            BY <2>2, <2>3, <3>1, <5>2, GroupsAre
          <6>2. AfterShort(m)
            BY <3>1, <6>1 DEF AfterShort
          <6>3. QED
            BY <2>8, <4>3, <6>2 DEF Cover, AfterShort, Short
        <5>3. QED
          BY <5>1, <5>2
      <4>4. QED
        BY <2>6, <4>2, <4>3
    <3>6. /\ client'.h = h => Cover(h, client.next)'
          /\ ~ Whole(work'[h].n) => ShortInHand(h, client.next)'
      BY <2>3, <2>5, <3>4, <3>5
    <3>7. QED
      BY <1>1, <1>3, <1>5, <3>6 DEF ChunkOK
  <2>11. QED
    BY <2>9, <2>10
<1>6. QED
  BY <1>1, <1>4, <1>5

\* A photo leaves the hand for the batch.
LEMMA IngestOK ==
    ASSUME TypeInv, PhotosInv, NEW h \in Handlers, IngestPhoto(h)
    PROVE  ChunkOK(h)' /\ FormOK(h)'
<1>0. PICK b, p : b = work[h].b /\ p = Head(work[h].todo)
  OBVIOUS
<1>1. /\ work[h].pc = "ingest" /\ work'[h].pc = "ingest" /\ work'[h].op = work[h].op /\ work'[h].b = b
      /\ work'[h].n = work[h].n /\ Range(work[h].todo) = {p} \cup Range(work'[h].todo) /\ client' = client
  BY <1>0, IngestIs DEF IngestPhoto
<1>2. \A q : In(b, q) => In(b, q)'
  BY PhotosKept DEF Next, Serve
<1>3. In(b, p)'
  <2>1. PICK i \in DOMAIN items' : items'[i].batch = b /\ items'[i].photo = p
    BY <1>0, IngestIs
  <2>2. QED
    BY <2>1 DEF In
<1>a. Filling(h) => Filling(h)'
  <2>1. PICK i : i = Len(items) + 1
    OBVIOUS
  <2>2. /\ DOMAIN items' = DOMAIN items \cup {i} /\ i \notin DOMAIN items /\ items'[i].batch = b
        /\ \A j \in DOMAIN items : items'[j] = items[j]
        /\ Len(work'[h].todo) \in Nat /\ Len(work[h].todo) = Len(work'[h].todo) + 1
    BY <1>0, <2>1, IngestIs
  <2>3. Members(b)' = Members(b) \cup {i} /\ i \notin Members(b)
    BY <2>2 DEF Members
  <2>4. IsFiniteSet(Members(b)) /\ Cardinality(Members(b)) \in Nat
    BY MembersFinite, MembersCount DEF TypeInv
  <2>5. Cardinality(Members(b)') = Cardinality(Members(b)) + 1
    BY <2>3, <2>4, FS_AddElement
  <2>6. Cardinality(Members(b)') + Len(work'[h].todo) = Cardinality(Members(b)) + Len(work[h].todo)
    BY <2>2, <2>4, <2>5
  <2>7. QED
    BY <1>0, <1>1, <2>6 DEF Filling
<1>4. ASSUME NEW g, Cover(h, g) PROVE Cover(h, g)'
  <2>1. CASE \A q \in Range(Groups[g]) : In(work[h].b, q) \/ q \in Range(work[h].todo)
    <3>1. ASSUME NEW q \in Range(Groups[g]) PROVE In(b, q)' \/ q \in Range(work'[h].todo)
      BY <1>0, <1>1, <1>2, <1>3, <2>1
    <3>2. QED
      BY <1>1, <3>1 DEF Cover
  <2>2. CASE AfterShort(g) /\ Filling(h)
    BY <1>a, <2>2 DEF Cover, AfterShort, Short
  <2>3. QED
    BY <1>4, <2>1, <2>2 DEF Cover
<1>5. ChunkOK(h)'
  <2>1. CASE work[h].op = "chunk"
    <3>1. /\ client.h = h => Cover(h, client.next)
          /\ ~ Whole(work[h].n) => ShortInHand(h, client.next)
      BY <1>1, <2>1 DEF PhotosInv, ChunkOK
    <3>2. PICK m : m = client.next
      OBVIOUS
    <3>3. /\ client'.h = h => Cover(h, m)'
          /\ ~ Whole(work'[h].n) => ShortInHand(h, m)'
      BY <1>1, <1>4, <3>1, <3>2 DEF ShortInHand, Short
    <3>4. client'.next = m
      BY <1>1, <3>2
    <3>5. QED
      BY <1>1, <3>2, <3>3, <3>4 DEF ChunkOK
  <2>2. CASE work[h].op # "chunk"
    BY <1>1, <2>2 DEF ChunkOK
  <2>3. QED
    BY <2>1, <2>2
<1>6. FormOK(h)'
  BY <1>1, <1>4 DEF PhotosInv, FormOK
<1>7. QED
  BY <1>5, <1>6

LEMMA HandServe ==
    ASSUME TypeInv, RequestInv, PhotosInv, TallyInv, NEW h \in Handlers, Serve(h), TypeInv'
    PROVE  \A k \in Handlers : ChunkOK(k)' /\ FormOK(k)'
<1>0. [Next]_vars /\ client' = client /\ AboutOK(h)
  BY DEF Next, Serve, CreateBatch, ChunkStart, IngestPhoto, IngestDone, FinishStart, Detect, FinalizeCount,
         FinalizeSettle, RequestInv
<1>1. \A k \in Handlers : k # h => work'[k] = work[k]
  BY <1>0, CreateIs, ChunkStartIs, IngestIs, IngestDoneIs, FinishStartIs, DetectIs, CountIs, SettleIs
     DEF Serve, PhotosInv
<1>2. client.next <= client'.next /\ client' \in Clients
  BY <1>0, GroupsAre DEF TypeInv, Clients
<1>3. ASSUME NEW k \in Handlers, k # h PROVE ChunkOK(k)' /\ FormOK(k)'
  BY <1>0, <1>1, <1>2, <1>3, ChunkKept, FormKept DEF PhotosInv
<1>4. \A b, g : Have(b, g) => Have(b, g)'
  BY <1>0, GroupsKept
<1>5. ChunkOK(h)' /\ FormOK(h)'
  <2>1. CASE CreateBatch(h)
    <3>1. /\ work[h].op \in {"start", "form"} /\ work'[h].op = work[h].op
          /\ work[h].op = "form" => work'[h].pc = "ingest" /\ work'[h].todo = Photos
      BY <1>0, <2>1, CreateIs DEF AboutOK, CreateBatch
    <3>2. \A g \in DOMAIN Groups : Range(Groups[g]) \subseteq Range(Photos)
      BY GroupsAre DEF Picked
    <3>3. FormOK(h)'
      BY <3>1, <3>2 DEF FormOK, Cover
    <3>4. QED
      BY <3>1, <3>3 DEF ChunkOK
  <2>2. CASE ChunkStart(h)
    BY <2>2, ChunkStartOK
  <2>3. CASE IngestPhoto(h)
    BY <2>3, IngestOK
  <2>4. CASE IngestDone(h)
    <3>1. /\ work[h].op \in {"chunk", "form"} /\ work[h].pc = "ingest" /\ work[h].todo = <<>>
          /\ work'[h].op = work[h].op /\ work'[h].b = work[h].b
          /\ work[h].op = "form"  => work'[h].pc = "detect"
          /\ work[h].op = "chunk" => work'[h].pc = "answer" /\ work'[h].answer = "ok"
      BY <2>4, IngestDoneIs DEF IngestDone
    <3>3. PICK b, m : b = work[h].b /\ m = client.next
      OBVIOUS
    <3>4. \A g : Cover(h, g) => Have(b, g)'
      BY <1>4, <3>1, <3>3, HandEmpty
    <3>5. CASE work[h].op = "chunk"
      <4>1. work[h].b = client.b
        BY <1>0, <3>1, <3>5 DEF AboutOK, Busy
      <4>2. client.h = h => Cover(h, m)
        BY <3>1, <3>3, <3>5 DEF PhotosInv, ChunkOK
      <4>3. client'.h = h => Have(b, m)' /\ client'.b = b /\ client'.next = m
        BY <1>0, <3>3, <3>4, <4>1, <4>2
      <4>4. client'.h = h => Have(client.b, client.next)'
        BY <4>3
      <4>5. QED
        BY <3>1, <3>5, <4>4 DEF ChunkOK, FormOK
    <3>6. CASE work[h].op = "form"
      <4>1. \A g \in DOMAIN Groups : Have(b, g)'
        BY <3>1, <3>4, <3>6 DEF PhotosInv, FormOK
      <4>2. work'[h].b = b
        BY <3>1, <3>3
      <4>3. QED
        BY <3>1, <3>6, <4>1, <4>2 DEF ChunkOK, FormOK
    <3>7. QED
      BY <3>1, <3>5, <3>6
  <2>5. CASE FinishStart(h)
    <3>1. work[h].op = "finish" /\ work'[h].op = "finish"
      BY <1>0, <2>5, FinishStartIs DEF AboutOK, FinishStart
    <3>2. QED
      BY <3>1 DEF ChunkOK, FormOK
  <2>6. ASSUME work[h].pc \in {"detect", "count", "settle"}, work'[h].pc \in {"count", "settle", "answer"},
               work'[h].op = work[h].op, work'[h].b = work[h].b
        PROVE  ChunkOK(h)' /\ FormOK(h)'
    <3>1. work[h].op \in {"finish", "form"}
      BY <1>0, <2>6 DEF AboutOK
    <3>2. PICK b : b = work[h].b
      OBVIOUS
    <3>3. work[h].op = "form" => \A g \in DOMAIN Groups : Have(b, g)'
      BY <1>4, <2>6, <3>2 DEF PhotosInv, FormOK
    <3>4. QED
      BY <2>6, <3>1, <3>2, <3>3 DEF ChunkOK, FormOK
  <2>7. CASE Detect(h)
    BY <2>6, <2>7, DetectIs DEF Detect
  <2>8. CASE FinalizeCount(h)
    BY <2>6, <2>8, CountIs DEF FinalizeCount
  <2>9. CASE FinalizeSettle(h)
    BY <2>6, <2>9, SettleIs DEF FinalizeSettle
  <2>10. QED
    BY <2>1, <2>2, <2>3, <2>4, <2>5, <2>7, <2>8, <2>9 DEF Serve
<1>6. QED
  BY <1>3, <1>5

\* The page stays where it is: it sends, gives up or is pressed, or a request nobody
\* waits for ends.
LEMMA PageStays ==
    ASSUME TypeInv, RequestInv, PhotosInv, [Next]_vars, TypeInv', UNCHANGED <<batches, items>>,
           client'.op = client.op, client'.b = client.b, client'.next = client.next,
           client'.pc = "landed" => client.pc = "landed",
           NEW h,
           \A k \in Handlers : k # h => work'[k] = work[k] /\ (client'.h = k => client.h = k),
           h \in Handlers => ChunkOK(h)' /\ FormOK(h)'
    PROVE  PhotosInv'
<1>1. client.next <= client'.next /\ client' \in Clients
  BY GroupsAre DEF TypeInv, Clients
<1>2. ASSUME NEW k \in Handlers PROVE ChunkOK(k)' /\ FormOK(k)'
  BY <1>1, ChunkKept, FormKept DEF PhotosInv
<1>3. \A b, g : Have(b, g) => Have(b, g)'
  BY GroupsKept
<1>4. PICK b, m : b = client.b /\ m = client.next
  OBVIOUS
<1>5. client'.b = b /\ client'.next = m
  BY <1>4
<1>6. Chunked /\ Open(b) /\ ~ Whole(batches[b].total) => ShortIn(b, m)
  BY <1>4 DEF PhotosInv, RoomInv
<1>a. ShortIn(b, m) => ShortIn(b, m)'
  BY <1>4, ShortKept DEF TypeInv, Clients
<1>7. RoomInv'
  BY <1>5, <1>6, <1>a DEF PhotosInv, RoomInv, Chunked, Open
<1>8. SentInv'
  BY <1>3, <1>4, <1>5 DEF PhotosInv, SentInv, Chunked
<1>9. LandedInv'
  BY <1>3, <1>4, <1>5 DEF PhotosInv, LandedInv
<1>10. QED
  BY <1>2, <1>7, <1>8, <1>9 DEF PhotosInv

\* The page moves on, with an answer.
LEMMA PageMoves ==
    ASSUME TypeInv, RequestInv, PhotosInv, TypeInv', NEW h \in Handlers, Answered(h)
    PROVE  PhotosInv'
<1>1. /\ client.h = h /\ work[h].pc = "answer" /\ work[h].op = client.op /\ UNCHANGED <<batches, items>>
      /\ work'[h].pc = "idle" /\ work'[h].op = "start"
      /\ \A k \in Handlers : k # h => work'[k] = work[k]
      /\ client'.h = NoHandler /\ [Next]_vars /\ h # NoHandler
  BY AnsweredIs, UploadAssumption DEF Next, Page
<1>2. ChunkOK(h)' /\ FormOK(h)'
  BY <1>1 DEF ChunkOK, FormOK
<1>3. /\ client'.pc = "failed" /\ client'.op = client.op /\ client'.b = client.b /\ client'.next = client.next
      => PhotosInv'
  BY <1>1, <1>2, PageStays, UploadAssumption
<1>4. \A b, g : Have(b, g) => Have(b, g)'
  BY <1>1, GroupsKept
<1>5. PageInv /\ AboutOK(h) /\ Busy(h) /\ client \in Clients
  BY <1>1 DEF RequestInv, TypeInv, Busy
<1>6. PICK b, m : b = work[h].b /\ m = client.next
  OBVIOUS
<1>7. client.op = "chunk" \/ client.op = "finish" => Chunked /\ client.b = b
  BY <1>1, <1>5, <1>6 DEF AboutOK, Chunked
<1>8. ASSUME m <= client'.next PROVE \A k \in Handlers : ChunkOK(k)' /\ FormOK(k)'
  <2>1. ASSUME NEW k \in Handlers, k # h PROVE ChunkOK(k)' /\ FormOK(k)'
    <3>1. client'.h # k /\ client' \in Clients
      BY <1>1, UploadAssumption DEF TypeInv
    <3>2. QED
      BY <1>1, <1>6, <1>8, <2>1, <3>1, ChunkKept, FormKept DEF PhotosInv
  <2>2. QED
    BY <1>2, <2>1
<1>9. ASSUME client'.b = b, client'.op = client.op, client'.next = client.next,
             client.op \in {"finish", "form"}, client'.pc = "landed"
      PROVE  PhotosInv'
  <2>1. \A g \in DOMAIN Groups : Have(b, g)
    <3>1. CASE client.op = "finish"
      <4>1. \A g \in DOMAIN Groups : g < client.next
        BY <1>5, <3>1, GroupsAre DEF PageInv
      <4>2. QED
        BY <1>7, <3>1, <4>1 DEF PhotosInv, SentInv
    <3>2. CASE client.op = "form"
      BY <1>1, <1>6, <3>2 DEF PhotosInv, FormOK
    <3>3. QED
      BY <1>9, <3>1, <3>2
  <2>2. \A g \in DOMAIN Groups : Have(b, g)'
    BY <1>4, <2>1
  <2>3. LandedInv' /\ SentInv'
    BY <1>9, <2>2 DEF LandedInv, SentInv
  <2>4. Chunked /\ Open(b) /\ ~ Whole(batches[b].total) => ShortIn(b, m)
    BY <1>6, <1>7 DEF PhotosInv, RoomInv, Chunked
  <2>a. ShortIn(b, m) => ShortIn(b, m)'
    BY <1>1, <1>5, <1>6, ShortKept DEF Clients
  <2>5. RoomInv'
    <3>1. Chunked' => Chunked
      BY <1>9 DEF Chunked
    <3>2. QED
      BY <1>1, <1>6, <1>7, <1>9, <2>4, <2>a, <3>1 DEF RoomInv, Chunked, Open
  <2>6. m <= client'.next
    BY <1>5, <1>6, <1>9, GroupsAre DEF Clients
  <2>7. QED
    BY <1>8, <2>3, <2>5, <2>6 DEF PhotosInv
<1>10. ASSUME work[h].answer = "ok", client'.b = b, client.op = "chunk", client'.pc = "ready",
              client'.next = client.next + 1, client'.op \in {"chunk", "finish"}
       PROVE  PhotosInv'
  <2>0. m \in Nat /\ client'.next = m + 1 /\ Len(Groups) \in Nat /\ DOMAIN Groups \subseteq Nat
    BY <1>5, <1>6, <1>10, GroupsAre DEF Clients
  <2>1. Have(b, m)
    BY <1>1, <1>6, <1>7, <1>10 DEF PhotosInv, ChunkOK
  <2>2. \A g \in DOMAIN Groups : g < m + 1 => Have(b, g)
    <3>1. \A g \in DOMAIN Groups : g < m => Have(b, g)
      BY <1>6, <1>7, <1>10 DEF PhotosInv, SentInv
    <3>2. \A g \in DOMAIN Groups : g < m + 1 => g < m \/ g = m
      BY <2>0
    <3>3. QED
      BY <2>1, <3>1, <3>2
  <2>3. \A g \in DOMAIN Groups : g < m + 1 => Have(b, g)'
    BY <1>4, <2>2
  <2>4. SentInv' /\ LandedInv'
    BY <1>10, <2>0, <2>3 DEF SentInv, LandedInv
  <2>5. Open(b) /\ ~ Whole(batches[b].total) => ShortIn(b, m)
    BY <1>6, <1>7, <1>10 DEF PhotosInv, RoomInv
  <2>a. m + 1 \in Nat /\ m <= m + 1
    BY <2>0
  <2>6. Open(b) /\ ~ Whole(batches[b].total) => ShortIn(b, m + 1)'
    BY <1>1, <2>0, <2>5, <2>a, ShortKept
  <2>7. RoomInv'
    BY <1>1, <1>10, <2>0, <2>6 DEF RoomInv, Open
  <2>8. m <= client'.next
    BY <2>0
  <2>9. QED
    BY <1>8, <2>4, <2>7, <2>8 DEF PhotosInv
<1>11. ASSUME client'.b = b, client.op = "start", client'.pc = "ready",
              client'.next = client.next, client'.op \in {"chunk", "finish"}
       PROVE  PhotosInv'
  <2>1. client.next = 1 /\ b \in DOMAIN batches /\ batches[b].total = 0
    BY <1>1, <1>5, <1>6, <1>11 DEF PageInv, AboutOK, PhotosInv, RoomInv
  <2>2. \A g \in DOMAIN Groups : ~ (g < 1)
    BY GroupsAre
  <2>3. SentInv' /\ LandedInv'
    BY <1>11, <2>1, <2>2 DEF SentInv, LandedInv
  <2>4. RoomInv'
    BY <1>1, <1>11, <2>1, WholeChunk DEF RoomInv
  <2>5. m <= client'.next
    BY <1>6, <1>11, <2>1
  <2>6. QED
    BY <1>8, <2>3, <2>4, <2>5 DEF PhotosInv
<1>12. QED
  <2>1. CASE client'.pc = "failed" /\ client'.op = client.op /\ client'.b = client.b /\ client'.next = client.next
    BY <1>3, <2>1
  <2>2. CASE /\ work[h].answer = "ok" /\ client'.b = work[h].b
             /\ client'.op = client.op /\ client'.next = client.next
             /\ client.op \in {"finish", "form"} /\ client'.pc = "landed"
    BY <1>6, <1>9, <2>2
  <2>3. CASE /\ work[h].answer = "ok" /\ client'.b = work[h].b
             /\ client.op \in {"start", "chunk"} /\ client'.pc = "ready"
             /\ client'.next = IF client.op = "chunk" THEN client.next + 1 ELSE client.next
             /\ client'.op = IF client'.next <= Len(Groups) THEN "chunk" ELSE "finish"
    <3>1. client'.op \in {"chunk", "finish"}
      BY <2>3
    <3>2. QED
      BY <1>6, <1>10, <1>11, <2>3, <3>1
  <2>4. QED
    BY <2>1, <2>2, <2>3, AnsweredIs

LEMMA PhotosStep ==
    ASSUME TypeInv, RequestInv, PhotosInv, TallyInv, [Next]_vars, TypeInv'
    PROVE  PhotosInv'
<1>0. client \in Clients /\ NoHandler \notin Handlers
  BY UploadAssumption DEF TypeInv
<1>1. ASSUME NEW h \in Handlers, Send(h) PROVE PhotosInv'
  <2>1. /\ client'.pc = "waiting" /\ client'.h = h
        /\ client'.op = client.op /\ client'.b = client.b /\ client'.next = client.next
        /\ \A k \in Handlers : k # h => work'[k] = work[k]
        /\ work'[h].pc = IF client.op \in {"start", "form"} THEN "open" ELSE client.op
        /\ work'[h].op = client.op
        /\ client.op = "chunk" => work'[h].todo = Groups[client.next]
    BY <1>1, SendIs DEF RequestInv
  <2>2. ChunkOK(h)'
    <3>1. CASE client.op = "chunk"
      <4>1. client.next \in DOMAIN Groups /\ client.next <= client.next
        BY <1>0, <3>1, GroupsAre DEF RequestInv, PageInv, Clients
      <4>2. work'[h].pc = "chunk"
        BY <2>1, <3>1
      <4>3. QED
        BY <2>1, <3>1, <4>1, <4>2 DEF ChunkOK
    <3>2. CASE client.op # "chunk"
      BY <2>1, <3>2 DEF ChunkOK
    <3>3. QED
      BY <3>1, <3>2
  <2>3. FormOK(h)'
    BY <2>1 DEF FormOK
  <2>4. UNCHANGED <<batches, items>>
    BY <1>1 DEF Send
  <2>5. QED
    BY <2>1, <2>2, <2>3, <2>4, PageStays
<1>2. ASSUME NEW h \in Handlers, Answered(h) PROVE PhotosInv'
  BY <1>2, PageMoves
<1>3. ASSUME NEW h \in Handlers, Unheard(h) PROVE PhotosInv'
  <2>1. /\ client' = client /\ UNCHANGED <<batches, items>> /\ work'[h].op = "start"
        /\ \A k \in Handlers : k # h => work'[k] = work[k]
    BY <1>3, Freed DEF Unheard, TypeInv
  <2>2. ChunkOK(h)' /\ FormOK(h)'
    BY <2>1 DEF ChunkOK, FormOK
  <2>3. QED
    BY <2>1, <2>2, PageStays
<1>4. ASSUME NEW h \in Handlers, Lose(h) PROVE PhotosInv'
  <2>1. /\ client'.pc \in {"ready", "failed"} /\ client'.h = NoHandler
        /\ client'.op = client.op /\ client'.b = client.b /\ client'.next = client.next
        /\ work' = work /\ UNCHANGED <<batches, items>>
    BY <1>0, <1>4, TryIs DEF Lose
  <2>2. QED
    BY <1>0, <2>1, PageStays
<1>5. ASSUME NEW h \in Handlers, Die(h) PROVE PhotosInv'
  <2>1. /\ UNCHANGED <<batches, items>> /\ work'[h].op = "start"
        /\ \A k \in Handlers : k # h => work'[k] = work[k]
        /\ client'.op = client.op /\ client'.b = client.b /\ client'.next = client.next
        /\ \/ client.h # h /\ client' = client
           \/ client.h = h /\ client'.h = NoHandler /\ client'.pc \in {"ready", "failed"}
    BY <1>5, DieIs
  <2>2. ChunkOK(h)' /\ FormOK(h)'
    BY <2>1 DEF ChunkOK, FormOK
  <2>3. /\ client'.pc = "landed" => client.pc = "landed"
        /\ \A k \in Handlers : client'.h = k => client.h = k
    BY <1>0, <2>1
  <2>4. QED
    BY <2>1, <2>2, <2>3, PageStays
<1>6. CASE Press
  <2>1. /\ client'.pc = "ready" /\ client'.h = client.h
        /\ client'.op = client.op /\ client'.b = client.b /\ client'.next = client.next
        /\ work' = work /\ UNCHANGED <<batches, items>>
    BY <1>0, <1>6 DEF Press, Clients
  <2>2. QED
    BY <1>0, <2>1, PageStays
<1>7. CASE UNCHANGED vars
  <2>1. UNCHANGED <<batches, items, client, work>>
    BY <1>7 DEF vars
  <2>2. QED
    BY <1>0, <2>1, PageStays
<1>8. ASSUME NEW h \in Handlers, Serve(h) PROVE PhotosInv'
  BY <1>8, RoomServe, HandServe DEF PhotosInv
<1>9. QED
  BY <1>1, <1>2, <1>3, <1>4, <1>5, <1>6, <1>7, <1>8 DEF Next, Page

-----------------------------------------------------------------------------
(* What an open batch counts.                                              *)

\* The items of one request, of two together.
LEMMA TallySum ==
    ASSUME NEW S, IsFiniteSet(S), NEW f, NEW x, NEW y, x # y
    PROVE  /\ Cardinality(For(x, S, f) \cup For(y, S, f))
                 = Cardinality(For(x, S, f)) + Cardinality(For(y, S, f))
           /\ \A z : Cardinality(For(z, S, f)) \in Nat
<1>1. ASSUME NEW z
      PROVE  IsFiniteSet(For(z, S, f)) /\ Cardinality(For(z, S, f)) \in Nat
  <2>1. For(z, S, f) \subseteq S
    BY DEF For
  <2>2. QED
    BY <2>1, FS_Subset, FS_CardinalityType
<1>2. PICK A, B : A = For(x, S, f) /\ B = For(y, S, f)
  OBVIOUS
<1>3. A \cap B = {}
  BY <1>2 DEF For
<1>4. IsFiniteSet(A) /\ IsFiniteSet(B) /\ Cardinality(A) \in Nat /\ Cardinality(B) \in Nat
  BY <1>1, <1>2
<1>5. Cardinality(A \cap B) = 0
  BY <1>3, FS_EmptySet
<1>6. Cardinality(A \cup B) = Cardinality(A) + Cardinality(B) - Cardinality(A \cap B)
  BY <1>4, FS_Union
<1>7. Cardinality(A \cup B) = Cardinality(A) + Cardinality(B)
  BY <1>4, <1>5, <1>6
<1>8. QED
  BY <1>1, <1>2, <1>3, <1>7

\* The same items for the same requests: what was counted, and what was in a hand, still is.
LEMMA TallySame ==
    ASSUME NEW by, Tallied(by), items \in Seq(Item), DOMAIN items' = DOMAIN items,
           \A i \in DOMAIN items : items'[i].batch = items[i].batch,
           \A b \in DOMAIN batches' : Open(b)' =>
               \/ b \in DOMAIN batches /\ Open(b) /\ batches'[b].total = batches[b].total
               \/ batches'[b].total = 0,
           \A k \in Handlers : work'[k].pc = "ingest" =>
               \/ work'[k] = work[k]
               \/ work'[k].n = Len(work'[k].todo) /\ work'[k].n \in Nat
    PROVE  TallyInv'
<1>1. \A b : Members(b)' = Members(b)
  BY DEF Members
<1>2. ASSUME NEW b, NEW z PROVE Cardinality(For(z, Members(b), by)) \in Nat
  <2>1. For(z, Members(b), by) \subseteq Members(b) /\ IsFiniteSet(Members(b))
    BY MembersFinite DEF For
  <2>2. QED
    BY <2>1, FS_Subset, FS_CardinalityType
<1>3. ASSUME NEW b \in DOMAIN batches', Open(b)'
      PROVE  batches'[b].total <= Cardinality(For(NoHandler, Members(b)', by))
  <2>1. Cardinality(For(NoHandler, Members(b), by)) \in Nat /\ Members(b)' = Members(b)
    BY <1>1, <1>2
  <2>2. batches'[b].total <= Cardinality(For(NoHandler, Members(b), by))
    BY <1>3, <2>1 DEF Tallied
  <2>3. QED
    BY <2>1, <2>2
<1>4. ASSUME NEW k \in Handlers, work'[k].pc = "ingest"
      PROVE  (work[k].n <= Len(work[k].todo) + Cardinality(For(k, Members(work[k].b), by)))'
  <2>1. PICK b, n : b = work'[k].b /\ n = Cardinality(For(k, Members(b), by))
    OBVIOUS
  <2>2. n \in Nat /\ (Members(work[k].b))' = Members(b)
    <3>1. Members(b)' = Members(b) /\ n \in Nat
      BY <1>1, <1>2, <2>1
    <3>2. (Members(work[k].b))' = Members(b)'
      BY <2>1
    <3>3. QED
      BY <3>1, <3>2
  <2>3. CASE work'[k] = work[k]
    <3>1. work[k].n <= Len(work[k].todo) + n
      BY <1>4, <2>1, <2>3 DEF Tallied
    <3>2. QED
      BY <2>1, <2>2, <2>3, <3>1
  <2>4. CASE work'[k].n = Len(work'[k].todo) /\ work'[k].n \in Nat
    <3>1. work'[k].n <= Len(work'[k].todo) + n
      BY <2>2, <2>4
    <3>2. QED
      BY <2>1, <2>2, <3>1
  <2>5. QED
    BY <1>4, <2>3, <2>4
<1>5. Tallied(by)'
  BY <1>3, <1>4 DEF Tallied
<1>6. QED
  BY <1>5 DEF TallyInv

\* A photo filed is one less in hand and one more that its request has to count.
LEMMA TallyIngest ==
    ASSUME TypeInv, NEW by, Tallied(by), NEW h \in Handlers, IngestPhoto(h)
    PROVE  TallyInv'
<1> DEFINE new == Len(items) + 1
<1>1. /\ DOMAIN items' = DOMAIN items \cup {new} /\ new \notin DOMAIN items
      /\ \A j \in DOMAIN items : items'[j] = items[j]
      /\ items'[new].batch = work[h].b
      /\ \A k \in Handlers : k # h => work'[k] = work[k]
      /\ work[h].pc = "ingest" /\ work'[h].b = work[h].b /\ work'[h].n = work[h].n
      /\ Len(work'[h].todo) \in Nat /\ Len(work[h].todo) = Len(work'[h].todo) + 1
      /\ batches' = batches /\ h # NoHandler /\ items \in Seq(Item) /\ work[h].n \in Nat
  BY IngestIs, UploadAssumption DEF IngestPhoto, TypeInv, Works
<1> HIDE DEF new
<1>2. PICK now \in [DOMAIN items' -> Handlers \cup {NoHandler}] :
         now[new] = h /\ \A i \in DOMAIN items : now[i] = by[i]
  <2> DEFINE f == [i \in DOMAIN items' |-> IF i \in DOMAIN items THEN by[i] ELSE h]
  <2>1. /\ f \in [DOMAIN items' -> Handlers \cup {NoHandler}]
        /\ f[new] = h /\ \A i \in DOMAIN items : f[i] = by[i]
    BY <1>1 DEF Tallied
  <2>2. QED
    BY <2>1
<1>3. \A b : Members(b) \subseteq DOMAIN items /\ Members(b) \subseteq Members(b)'
             /\ Members(b)' \subseteq Members(b) \cup {new}
  BY <1>1 DEF Members
<1>4. \A k, b : k # h => For(k, Members(b)', now) = For(k, Members(b), by)
  BY <1>2, <1>3 DEF For
<1>5. ASSUME NEW b \in DOMAIN batches', Open(b)'
      PROVE  batches'[b].total <= Cardinality(For(NoHandler, Members(b)', now))
  <2>1. batches[b].total <= Cardinality(For(NoHandler, Members(b), by))
    BY <1>1, <1>5 DEF Tallied, Open
  <2>2. For(NoHandler, Members(b)', now) = For(NoHandler, Members(b), by)
    BY <1>1, <1>4
  <2>3. QED
    BY <1>1, <2>1, <2>2
<1>6. ASSUME NEW k \in Handlers, work'[k].pc = "ingest", k # h
      PROVE  (work[k].n <= Len(work[k].todo) + Cardinality(For(k, Members(work[k].b), now)))'
  <2>1. PICK b : b = work[k].b /\ work'[k] = work[k]
    BY <1>1, <1>6
  <2>2. work[k].n <= Len(work[k].todo) + Cardinality(For(k, Members(b), by))
    BY <1>6, <2>1 DEF Tallied
  <2>3. For(k, Members(b)', now) = For(k, Members(b), by)
    BY <1>4, <1>6
  <2>4. (Members(work[k].b))' = Members(b)'
    BY <2>1
  <2>5. QED
    BY <2>1, <2>2, <2>3, <2>4
<1>7. (work[h].n <= Len(work[h].todo) + Cardinality(For(h, Members(work[h].b), now)))'
  <2>1. PICK b, T : b = work[h].b /\ T = For(h, Members(b), by)
    OBVIOUS
  <2>2. For(h, Members(b)', now) = T \cup {new}
    <3>1. new \in Members(b)'
      BY <1>1, <2>1 DEF Members
    <3>2. QED
      BY <1>2, <1>3, <2>1, <3>1 DEF For
  <2>3. IsFiniteSet(T) /\ new \notin T
    <3>1. IsFiniteSet(Members(b)) /\ T \subseteq Members(b)
      BY <1>1, <2>1, MembersFinite DEF For
    <3>2. QED
      BY <1>1, <1>3, <3>1, FS_Subset
  <2>4. Cardinality(T \cup {new}) = Cardinality(T) + 1 /\ Cardinality(T) \in Nat
    BY <2>3, FS_AddElement, FS_CardinalityType
  <2>5. work[h].n <= Len(work[h].todo) + Cardinality(T)
    BY <1>1, <2>1 DEF Tallied
  <2>6. work[h].n <= Len(work'[h].todo) + Cardinality(T \cup {new})
    BY <1>1, <2>4, <2>5
  <2>7. (Members(work[h].b))' = Members(b)'
    BY <1>1, <2>1
  <2>8. QED
    BY <1>1, <2>2, <2>6, <2>7
<1>8. Tallied(now)'
  BY <1>2, <1>5, <1>6, <1>7 DEF Tallied
<1>9. QED
  BY <1>8 DEF TallyInv

\* A request that counts what it filed leaves nobody to count it again.
LEMMA TallyDone ==
    ASSUME TypeInv, RequestInv, NEW by, Tallied(by), NEW h \in Handlers, IngestDone(h)
    PROVE  TallyInv'
<1>1. /\ items' = items /\ items \in Seq(Item) /\ DOMAIN batches' = DOMAIN batches
      /\ work[h].b \in DOMAIN batches
      /\ \A b \in DOMAIN batches : b # work[h].b => batches'[b] = batches[b]
      /\ batches[work[h].b].total \in Nat /\ work[h].n \in Nat
      /\ batches'[work[h].b].total = batches[work[h].b].total + work[h].n
      /\ batches'[work[h].b].status = batches[work[h].b].status
      /\ \A k \in Handlers : k # h => work'[k] = work[k]
      /\ work'[h].pc # "ingest"
      /\ work[h].pc = "ingest" /\ work[h].todo = <<>> /\ h # NoHandler
  BY IngestDoneIs, UploadAssumption DEF IngestDone, TypeInv
<1>2. PICK now \in [DOMAIN items -> Handlers \cup {NoHandler}] :
         \A i \in DOMAIN items : now[i] = IF by[i] = h THEN NoHandler ELSE by[i]
  <2> DEFINE f == [i \in DOMAIN items |-> IF by[i] = h THEN NoHandler ELSE by[i]]
  <2>1. f \in [DOMAIN items -> Handlers \cup {NoHandler}]
    BY DEF Tallied
  <2>2. QED
    BY <2>1
<1>3. \A b : Members(b)' = Members(b) /\ Members(b) \subseteq DOMAIN items /\ IsFiniteSet(Members(b))
  BY <1>1, MembersFinite DEF Members
<1>4. ASSUME NEW b
      PROVE  /\ Cardinality(For(NoHandler, Members(b), now))
                   = Cardinality(For(NoHandler, Members(b), by)) + Cardinality(For(h, Members(b), by))
             /\ Cardinality(For(NoHandler, Members(b), by)) \in Nat
             /\ Cardinality(For(h, Members(b), by)) \in Nat
  <2>1. For(NoHandler, Members(b), now) = For(NoHandler, Members(b), by) \cup For(h, Members(b), by)
    BY <1>2, <1>3 DEF For
  <2>2. PICK S : S = Members(b) /\ IsFiniteSet(S)
    BY <1>3
  <2>3. NoHandler # h
    BY <1>1
  <2>4. Cardinality(For(NoHandler, S, by) \cup For(h, S, by))
            = Cardinality(For(NoHandler, S, by)) + Cardinality(For(h, S, by))
    BY <2>2, <2>3, TallySum, Zenon
  <2>5. \A z : Cardinality(For(z, S, by)) \in Nat
    BY <2>2, <2>3, TallySum, Zenon
  <2>6. QED
    BY <2>1, <2>2, <2>4, <2>5
<1>5. ASSUME NEW b \in DOMAIN batches', Open(b)'
      PROVE  batches'[b].total <= Cardinality(For(NoHandler, Members(b)', now))
  <2>1. b \in DOMAIN batches /\ batches[b].total \in Nat /\ Open(b)
    <3>1. b \in DOMAIN batches /\ batches[b] \in Batch
      BY <1>1, ElementOfSeq, LenProperties DEF TypeInv
    <3>2. QED
      BY <1>1, <1>5, <3>1 DEF Open, Batch
  <2>2. PICK a, c, m : /\ a = Cardinality(For(NoHandler, Members(b), by))
                       /\ c = Cardinality(For(h, Members(b), by))
                       /\ m = Cardinality(For(NoHandler, Members(b), now))
    OBVIOUS
  <2>3. a \in Nat /\ c \in Nat /\ m = a + c /\ batches[b].total <= a
    BY <1>4, <2>1, <2>2 DEF Tallied
  <2>4. batches'[b].total <= m
    <3>1. CASE b # work[h].b
      BY <1>1, <2>1, <2>3, <3>1
    <3>2. CASE b = work[h].b
      <4>1. work[h].n <= Len(work[h].todo) + c
        BY <1>1, <2>2, <3>2 DEF Tallied
      <4>2. work[h].n <= c
        BY <1>1, <2>3, <4>1
      <4>3. QED
        BY <1>1, <2>1, <2>3, <3>2, <4>2
    <3>3. QED
      BY <3>1, <3>2
  <2>5. QED
    BY <1>3, <2>2, <2>4
<1>6. ASSUME NEW k \in Handlers, work'[k].pc = "ingest"
      PROVE  (work[k].n <= Len(work[k].todo) + Cardinality(For(k, Members(work[k].b), now)))'
  <2>1. k # h /\ k # NoHandler /\ work'[k] = work[k]
    BY <1>1, <1>6, UploadAssumption
  <2>2. PICK b : b = work[k].b
    OBVIOUS
  <2>3. For(k, Members(b), now) = For(k, Members(b), by)
    BY <1>2, <1>3, <2>1 DEF For
  <2>4. work[k].n <= Len(work[k].todo) + Cardinality(For(k, Members(b), by))
    BY <1>6, <2>1, <2>2 DEF Tallied
  <2>5. (Members(work[k].b))' = Members(b)
    <3>1. (Members(work[k].b))' = Members(b)'
      BY <2>1, <2>2
    <3>2. QED
      BY <1>3, <3>1
  <2>6. QED
    BY <2>1, <2>2, <2>3, <2>4, <2>5
<1>7. Tallied(now)'
  BY <1>1, <1>2, <1>5, <1>6 DEF Tallied
<1>8. QED
  BY <1>7 DEF TallyInv

LEMMA TallyStep ==
    ASSUME TypeInv, RequestInv, \A h \in Handlers : ChunkOK(h), TallyInv, [Next]_vars
    PROVE  TallyInv'
<1>0. PICK by : Tallied(by)
  BY DEF TallyInv
<1>1. items \in Seq(Item) /\ \A h \in Handlers : AboutOK(h)
  BY DEF TypeInv, RequestInv
<1>2. ASSUME items' = items, batches' = batches,
             \A k \in Handlers : work'[k].pc = "ingest" =>
                 \/ work'[k] = work[k]
                 \/ work'[k].n = Len(work'[k].todo) /\ work'[k].n \in Nat
      PROVE  TallyInv'
  BY <1>0, <1>1, <1>2, TallySame DEF Open
<1>3. ASSUME NEW h \in Handlers, Send(h) PROVE TallyInv'
  <2>1. client.op # "ingest"
    BY DEF TypeInv, Clients, Ops
  <2>2. /\ work'[h].pc = IF client.op \in {"start", "form"} THEN "open" ELSE client.op
        /\ \A k \in Handlers : k # h => work'[k] = work[k]
    BY <1>3, SendIs DEF RequestInv
  <2>3. items' = items /\ batches' = batches
    BY <1>3 DEF Send
  <2>4. work'[h].pc # "ingest"
    BY <2>1, <2>2
  <2>5. QED
    BY <1>2, <2>2, <2>3, <2>4
<1>4. ASSUME NEW h \in Handlers, Answered(h) PROVE TallyInv'
  BY <1>2, <1>4, AnsweredIs
<1>5. ASSUME NEW h \in Handlers, Unheard(h) PROVE TallyInv'
  BY <1>2, <1>5, Freed DEF Unheard, TypeInv
<1>6. ASSUME NEW h \in Handlers, Lose(h) PROVE TallyInv'
  BY <1>2, <1>6 DEF Lose
<1>7. ASSUME NEW h \in Handlers, Die(h) PROVE TallyInv'
  BY <1>2, <1>7, DieIs
<1>8. CASE Press
  BY <1>2, <1>8 DEF Press
<1>9. ASSUME NEW h \in Handlers, CreateBatch(h) PROVE TallyInv'
  <2>1. /\ DOMAIN batches' = DOMAIN batches \cup {Len(batches) + 1}
        /\ batches'[Len(batches) + 1].total = 0
        /\ \A c \in DOMAIN batches : batches'[c] = batches[c]
        /\ \A k \in Handlers : k # h => work'[k] = work[k]
        /\ work'[h].pc = "ingest" => work'[h].n = Len(work'[h].todo) /\ work'[h].n \in Nat
        /\ items' = items
    BY <1>1, <1>9, CreateIs, GroupsAre DEF CreateBatch, AboutOK
  <2>2. QED
    BY <1>0, <1>1, <2>1, TallySame DEF Open
<1>10. ASSUME NEW h \in Handlers, ChunkStart(h) PROVE TallyInv'
  <2>1. /\ items' = items /\ batches' = batches
        /\ \A k \in Handlers : k # h => work'[k] = work[k]
        /\ work'[h].pc = "ingest" => work'[h].n = Len(work'[h].todo)
        /\ work'[h] \in Works
    BY <1>10, ChunkStartIs DEF ChunkStart
  <2>2. QED
    BY <1>2, <2>1 DEF Works
<1>11. ASSUME NEW h \in Handlers, FinishStart(h) PROVE TallyInv'
  BY <1>2, <1>11, FinishStartIs DEF FinishStart
<1>12. ASSUME NEW h \in Handlers, Detect(h) PROVE TallyInv'
  <2>1. /\ batches' = batches /\ DOMAIN items' = DOMAIN items
        /\ \A i \in DOMAIN items : items'[i].batch = items[i].batch
        /\ \A k \in Handlers : work'[k].pc = "ingest" => work'[k] = work[k]
    BY <1>12, DetectIs DEF Detect
  <2>2. QED
    BY <1>0, <1>1, <2>1, TallySame DEF Open
<1>13. ASSUME NEW h \in Handlers, FinalizeCount(h) PROVE TallyInv'
  BY <1>2, <1>13, CountIs DEF FinalizeCount
<1>14. ASSUME NEW h \in Handlers, FinalizeSettle(h) PROVE TallyInv'
  <2>1. /\ DOMAIN batches' = DOMAIN batches
        /\ \A c \in DOMAIN batches : c # work[h].b => batches'[c] = batches[c]
        /\ batches'[work[h].b].status = "done"
        /\ \A k \in Handlers : work'[k].pc = "ingest" => work'[k] = work[k]
        /\ items' = items
    BY <1>14, SettleIs DEF FinalizeSettle
  <2>2. QED
    BY <1>0, <1>1, <2>1, TallySame DEF Open
<1>15. CASE UNCHANGED vars
  BY <1>2, <1>15 DEF vars
<1>16. QED
  BY <1>0, <1>3, <1>4, <1>5, <1>6, <1>7, <1>8, <1>9, <1>10, <1>11, <1>12, <1>13, <1>14, <1>15,
     TallyIngest, TallyDone DEF Next, Page, Serve

-----------------------------------------------------------------------------
(* What a settled batch says of itself.                                    *)

\* Two sets of items of one batch are the same when the items' batches are.
LEMMA MembersSame ==
    ASSUME NEW c, \A i : i \in DOMAIN items /\ items[i].batch = c <=> i \in DOMAIN items' /\ items'[i].batch = c
    PROVE  Members(c)' = Members(c)
BY DEF Members

\* A request that is idle or has answered has nothing to settle.
LEMMA HandRests ==
    ASSUME NEW k \in Handlers, work[k].pc \in {"idle", "answer"}
    PROVE  SettledHand(k)
BY DEF SettledHand

\* The page and the requests move, the rows do not.
LEMMA SettledPage ==
    ASSUME SettledInv, UNCHANGED <<batches, items>>, overtaken \in BOOLEAN, overtaken' \in BOOLEAN,
           overtaken => overtaken',
           \A k \in Handlers : ~ overtaken' => SettledHand(k)'
    PROVE  SettledInv'
<1>1. SettledTrue'
  BY DEF SettledInv, SettledTrue, Members
<1>2. QED
  BY <1>1 DEF SettledInv

\* The request that the page waits for is the only one that is served.
LEMMA SettledServe ==
    ASSUME TypeInv, RequestInv, \A k \in Handlers : ChunkOK(k), SettledInv, NEW h \in Handlers, Serve(h)
    PROVE  SettledInv'
<1>0. overtaken' = overtaken /\ client' = client /\ AboutOK(h) /\ overtaken \in BOOLEAN
      /\ work[h].pc \notin {"idle", "answer"}
  BY DEF Serve, CreateBatch, ChunkStart, IngestPhoto, IngestDone, FinishStart, Detect, FinalizeCount,
         FinalizeSettle, counts, RequestInv, TypeInv
<1>1. CASE overtaken
  BY <1>0, <1>1 DEF SettledInv, SettledTrue
<1>2. CASE ~ overtaken
  <2>0. PICK b : b = work[h].b
    OBVIOUS
  <2>1. /\ client.h = h
        /\ \A k \in Handlers : k # h => work[k].pc \in {"idle", "answer"}
        /\ work[h].pc \in {"ingest", "detect", "count", "settle"} => Open(b)
        /\ work[h].pc \in {"count", "settle"} => \A i \in Members(b) : items[i].looked
        /\ work[h].pc = "settle" => work[h].n = Cardinality(Members(b))
    BY <1>0, <1>2, <2>0 DEF SettledInv, SettledHand
  <2>2. \A k \in Handlers : k # h => work'[k] = work[k]
    BY <1>0, CreateIs, ChunkStartIs, IngestIs, IngestDoneIs, FinishStartIs, DetectIs, CountIs, SettleIs DEF Serve
  <2>3. \A k \in Handlers : k # h => SettledHand(k)'
    BY <2>1, <2>2 DEF SettledHand
  <2>4. ASSUME SettledHand(h)', SettledTrue' PROVE SettledInv'
    BY <2>3, <2>4 DEF SettledInv
  <2>5. \A c \in DOMAIN batches : batches[c].status = "done" =>
            batches[c].total = Cardinality(Members(c)) /\ \A i \in Members(c) : items[i].looked
    BY <1>2 DEF SettledInv, SettledTrue
  <2>6. ASSUME UNCHANGED <<batches, items>> PROVE SettledTrue'
    BY <2>5, <2>6 DEF SettledTrue, Members
  <2>7. CASE CreateBatch(h)
    <3>1. PICK new : new = Len(batches) + 1
      OBVIOUS
    <3>2. /\ DOMAIN batches' = DOMAIN batches \cup {new} /\ batches'[new].status = "processing"
          /\ \A c \in DOMAIN batches : batches'[c] = batches[c]
          /\ work'[h].b = new /\ work'[h].pc \in {"ingest", "answer"}
      <4>1. work[h].op \in {"start", "form"}
        BY <1>0, <2>7 DEF AboutOK, CreateBatch
      <4>2. QED
        BY <1>0, <2>7, <3>1, <4>1, CreateIs
    <3>3. items' = items
      BY <2>7 DEF CreateBatch
    <3>4. SettledTrue'
      BY <2>5, <3>2, <3>3 DEF SettledTrue, Members
    <3>5. SettledHand(h)'
      BY <1>0, <2>1, <3>2 DEF SettledHand, Open
    <3>6. QED
      BY <2>4, <3>4, <3>5
  <2>8. CASE ChunkStart(h)
    <3>1. /\ UNCHANGED <<batches, items>> /\ work'[h].b = b
          /\ work'[h].pc = "answer" \/ (work'[h].pc = "ingest" /\ Open(b))
      BY <2>0, <2>8, ChunkStartIs DEF ChunkStart
    <3>2. SettledHand(h)'
      BY <1>0, <2>1, <3>1 DEF SettledHand, Open
    <3>3. QED
      BY <2>4, <2>6, <3>1, <3>2
  <2>9. CASE IngestPhoto(h)
    <3>1. PICK new : new = Len(items) + 1
      OBVIOUS
    <3>2. /\ DOMAIN items' = DOMAIN items \cup {new} /\ new \notin DOMAIN items
          /\ \A j \in DOMAIN items : items'[j] = items[j]
          /\ items'[new].batch = b
          /\ work'[h].pc = "ingest" /\ work'[h].b = b
      BY <2>0, <2>9, <3>1, IngestIs
    <3>3. batches' = batches /\ Open(b)
      BY <2>1, <2>9 DEF IngestPhoto
    <3>4. ASSUME NEW c, c # b PROVE Members(c)' = Members(c)
      BY <3>2, <3>4, MembersSame
    <3>5. ASSUME NEW c \in DOMAIN batches, batches[c].status = "done"
          PROVE  batches[c].total = Cardinality(Members(c)') /\ \A i \in Members(c)' : items'[i].looked
      <4>1. c # b
        BY <3>3, <3>5 DEF Open
      <4>2. \A i \in Members(c) : items'[i].looked
        BY <2>5, <3>2, <3>5 DEF Members
      <4>3. QED
        BY <2>5, <3>4, <3>5, <4>1, <4>2
    <3>6. SettledTrue'
      BY <3>3, <3>5 DEF SettledTrue
    <3>7. SettledHand(h)'
      BY <1>0, <2>1, <3>2, <3>3 DEF SettledHand, Open
    <3>8. QED
      BY <2>4, <3>6, <3>7
  <2>10. CASE IngestDone(h)
    <3>1. /\ b \in DOMAIN batches /\ DOMAIN batches' = DOMAIN batches
          /\ \A c \in DOMAIN batches : c # b => batches'[c] = batches[c]
          /\ batches'[b].status = batches[b].status
          /\ work'[h].b = b /\ work'[h].pc \in {"detect", "answer"}
      <4>1. work[h].op \in {"chunk", "form"}
        BY <2>10, IngestDoneIs
      <4>2. QED
        BY <2>0, <2>10, <4>1, IngestDoneIs
    <3>2. items' = items /\ Open(b)
      BY <2>1, <2>10 DEF IngestDone
    <3>3. SettledTrue'
      BY <2>5, <3>1, <3>2 DEF SettledTrue, Members, Open
    <3>4. SettledHand(h)'
      BY <1>0, <2>1, <3>1, <3>2 DEF SettledHand, Open
    <3>5. QED
      BY <2>4, <3>3, <3>4
  <2>11. CASE FinishStart(h)
    <3>1. /\ UNCHANGED <<batches, items>> /\ work'[h].b = b
          /\ work'[h].pc = "answer" \/ (work'[h].pc = "detect" /\ Open(b))
      BY <2>0, <2>11, FinishStartIs DEF FinishStart
    <3>2. SettledHand(h)'
      BY <1>0, <2>1, <3>1 DEF SettledHand, Open
    <3>3. QED
      BY <2>4, <2>6, <3>1, <3>2
  <2>12. CASE Detect(h)
    <3>1. /\ DOMAIN items' = DOMAIN items
          /\ \A i \in DOMAIN items : /\ items'[i].batch = items[i].batch
                                     /\ items[i].looked => items'[i].looked
                                     /\ items[i].batch = b => items'[i].looked
          /\ work'[h].pc = "count" /\ work'[h].b = b
      BY <2>0, <2>12, DetectIs
    <3>2. batches' = batches /\ Open(b)
      BY <2>1, <2>12 DEF Detect
    <3>3. \A c : Members(c)' = Members(c)
      BY <3>1 DEF Members
    <3>4. SettledTrue'
      <4>1. ASSUME NEW c \in DOMAIN batches, batches[c].status = "done"
            PROVE  batches[c].total = Cardinality(Members(c)') /\ \A i \in Members(c)' : items'[i].looked
        <5>1. \A i \in Members(c) : items'[i].looked
          BY <2>5, <3>1, <4>1 DEF Members
        <5>2. QED
          BY <2>5, <3>3, <4>1, <5>1
      <4>2. QED
        BY <3>2, <4>1 DEF SettledTrue
    <3>5. \A i \in Members(b)' : items'[i].looked
      BY <3>1 DEF Members
    <3>6. SettledHand(h)'
      BY <1>0, <2>1, <3>1, <3>2, <3>5 DEF SettledHand, Open
    <3>7. QED
      BY <2>4, <3>4, <3>6
  <2>13. CASE FinalizeCount(h)
    <3>1. /\ UNCHANGED <<batches, items>> /\ work'[h].pc = "settle" /\ work'[h].b = b /\ Open(b)
          /\ work'[h].n = Cardinality(Members(b)) /\ \A i \in Members(b) : items[i].looked
      BY <2>0, <2>1, <2>13, CountIs DEF FinalizeCount
    <3>2. Members(b)' = Members(b)
      BY <3>1 DEF Members
    <3>3. Members(work[h].b)' = Members(b)
      BY <3>1, <3>2
    <3>4. SettledHand(h)'
      BY <1>0, <2>1, <3>1, <3>3 DEF SettledHand, Open
    <3>5. QED
      BY <2>4, <2>6, <3>1, <3>4
  <2>14. CASE FinalizeSettle(h)
    <3>1. /\ b \in DOMAIN batches /\ DOMAIN batches' = DOMAIN batches
          /\ \A c \in DOMAIN batches : c # b => batches'[c] = batches[c]
          /\ batches'[b].total = work[h].n /\ work'[h].pc = "answer"
      BY <2>0, <2>14, SettleIs
    <3>2. items' = items /\ batches'[b].total = Cardinality(Members(b)) /\ \A i \in Members(b) : items[i].looked
      BY <2>1, <2>14, <3>1 DEF FinalizeSettle
    <3>3. \A c : Members(c)' = Members(c)
      BY <3>2 DEF Members
    <3>4. \A c \in DOMAIN batches' : batches'[c].status = "done" =>
              batches'[c].total = Cardinality(Members(c)') /\ \A i \in Members(c)' : items'[i].looked
      BY <2>5, <3>1, <3>2, <3>3
    <3>5. SettledTrue'
      BY <3>4 DEF SettledTrue
    <3>6. SettledHand(h)'
      BY <3>1 DEF SettledHand
    <3>7. QED
      BY <2>4, <3>5, <3>6
  <2>15. QED
    BY <2>7, <2>8, <2>9, <2>10, <2>11, <2>12, <2>13, <2>14 DEF Serve
<1>3. QED
  BY <1>0, <1>1, <1>2

LEMMA SettledStep ==
    ASSUME TypeInv, RequestInv, \A k \in Handlers : ChunkOK(k), SettledInv, [Next]_vars, TypeInv'
    PROVE  SettledInv'
<1>0. client \in Clients /\ NoHandler \notin Handlers /\ overtaken \in BOOLEAN /\ overtaken' \in BOOLEAN
  BY UploadAssumption DEF TypeInv
<1>1. ASSUME NEW h \in Handlers, Send(h) PROVE SettledInv'
  <2>1. /\ client.h = NoHandler /\ client'.h = h /\ overtaken' = overtaken /\ UNCHANGED <<batches, items>>
        /\ \A k \in Handlers : k # h => work'[k] = work[k]
        /\ work'[h].pc \in {"open", "chunk", "finish"}
    <3>1. client.op \in {"start", "form", "chunk", "finish"}
      BY <1>0 DEF Clients, Ops
    <3>2. QED
      BY <1>0, <1>1, <3>1, SendIs DEF Send, counts, RequestInv, PageInv, Clients
  <2>2. SettledHand(h)'
    BY <2>1 DEF SettledHand
  <2>3. ASSUME ~ overtaken, NEW k \in Handlers, k # h PROVE SettledHand(k)'
    BY <1>0, <2>1, <2>3 DEF SettledInv, SettledHand
  <2>4. QED
    BY <1>0, <2>1, <2>2, <2>3, SettledPage
<1>2. ASSUME NEW h \in Handlers, UNCHANGED <<batches, items>>, overtaken' = overtaken, work'[h].pc = "idle",
             \A k \in Handlers : k # h => work'[k] = work[k], client.h = h
      PROVE  SettledInv'
  <2>1. ASSUME ~ overtaken, NEW k \in Handlers PROVE work'[k].pc \in {"idle", "answer"}
    BY <1>2, <2>1 DEF SettledInv, SettledHand
  <2>2. \A k \in Handlers : ~ overtaken => SettledHand(k)'
    BY <2>1 DEF SettledHand
  <2>3. QED
    BY <1>0, <1>2, <2>2, SettledPage
<1>3. ASSUME NEW h, UNCHANGED <<batches, items, client>>, overtaken' = overtaken, h \in Handlers => work'[h].pc = "idle",
             \A k \in Handlers : k # h => work'[k] = work[k]
      PROVE  SettledInv'
  <2>1. ASSUME ~ overtaken, NEW k \in Handlers, k # h PROVE SettledHand(k)'
    BY <1>3, <2>1 DEF SettledInv, SettledHand, Open, Members
  <2>2. h \in Handlers => SettledHand(h)'
    BY <1>3 DEF SettledHand
  <2>3. QED
    BY <1>0, <1>3, <2>1, <2>2, SettledPage
<1>4. ASSUME NEW h \in Handlers, Answered(h) PROVE SettledInv'
  BY <1>2, <1>4, AnsweredIs DEF Answered, counts
<1>5. ASSUME NEW h \in Handlers, Unheard(h) PROVE SettledInv'
  BY <1>3, <1>5, Freed DEF Unheard, counts, TypeInv
<1>6. ASSUME NEW h \in Handlers, Lose(h) PROVE SettledInv'
  <2>1. /\ UNCHANGED <<batches, items, work>> /\ client.h = h
        /\ overtaken' = (overtaken \/ work[h].pc # "answer")
    BY <1>6 DEF Lose
  <2>2. ASSUME ~ overtaken', NEW k \in Handlers PROVE work'[k].pc \in {"idle", "answer"}
    BY <2>1, <2>2 DEF SettledInv, SettledHand
  <2>3. \A k \in Handlers : ~ overtaken' => SettledHand(k)'
    BY <2>2 DEF SettledHand
  <2>4. QED
    BY <1>0, <2>1, <2>3, SettledPage
<1>7. ASSUME NEW h \in Handlers, Die(h) PROVE SettledInv'
  BY <1>2, <1>3, <1>7, DieIs
<1>8. CASE Press
  <2>1. UNCHANGED <<batches, items, work>> /\ overtaken' = overtaken /\ client'.h = client.h
    BY <1>0, <1>8 DEF Press, Clients
  <2>2. ASSUME ~ overtaken, NEW k \in Handlers PROVE SettledHand(k)'
    BY <2>1, <2>2 DEF SettledInv, SettledHand, Open, Members
  <2>3. QED
    BY <1>0, <2>1, <2>2, SettledPage
<1>9. CASE UNCHANGED vars
  BY <1>3, <1>9, UploadAssumption DEF vars
<1>10. QED
  BY <1>1, <1>4, <1>5, <1>6, <1>7, <1>8, <1>9, SettledServe DEF Next, Page

-----------------------------------------------------------------------------
(* The theorems.                                                           *)

LEMMA InitOK ==
    ASSUME Init
    PROVE  TypeInv /\ RequestInv /\ PhotosInv /\ TallyInv /\ SettledInv
<1>1. PICK op \in {"start", "form"} :
          client = [pc |-> "ready", op |-> op, h |-> NoHandler, b |-> NoBatch, next |-> 1, tries |-> TriesFor(op)]
  BY DEF Init
<1>2. TriesFor(op) \in Nat /\ 1 \in 1..Len(Groups) + 1
  BY GroupsAre DEF TriesFor
<1>3. client \in Clients
  BY <1>1, <1>2 DEF Clients, Ops, NoBatch
<1>4. /\ batches = <<>> /\ items = <<>> /\ \A h \in Handlers : work[h].pc = "idle" /\ work[h].op = "start"
      /\ DOMAIN batches = {}
  BY IdleType DEF Init, Idle
<1>5. batches \in Seq(Batch) /\ items \in Seq(Item) /\ work \in [Handlers -> Works]
  BY <1>4, IdleType DEF Init
<1>6. TypeInv
  BY <1>3, <1>5 DEF TypeInv, Init
<1>7. RequestInv
  BY <1>1, <1>4, UploadAssumption DEF RequestInv, PageInv, AboutOK, Busy, Chunked
<1>8. PhotosInv
  BY <1>1, <1>4 DEF PhotosInv, RoomInv, SentInv, ChunkOK, FormOK, LandedInv, Chunked
<1>9. SettledInv
  BY <1>4 DEF SettledInv, SettledTrue, SettledHand
<1>10. TallyInv
  <2>1. DOMAIN items = {}
    BY <1>4
  <2>2. [i \in DOMAIN items |-> NoHandler] \in [DOMAIN items -> Handlers \cup {NoHandler}]
    OBVIOUS
  <2>3. Tallied([i \in DOMAIN items |-> NoHandler])
    BY <1>4, <2>2 DEF Tallied
  <2>4. QED
    BY <2>3 DEF TallyInv
<1>11. QED
  BY <1>6, <1>7, <1>8, <1>9, <1>10

\* The rows, the page and the requests keep their types, a request stays about the batch it
\* was sent for, the groups the page has gone past are in as far as room allowed, a batch's
\* room is whole chunks until a short group is in, an open batch counts no more than it has,
\* and the request the page waits for is the only one under way while none was given up on.
THEOREM UploadInvariant == Spec => [](TypeInv /\ RequestInv /\ PhotosInv /\ TallyInv /\ SettledInv)
<1>1. Init => TypeInv /\ RequestInv /\ PhotosInv /\ TallyInv /\ SettledInv
  BY InitOK
<1>2. TypeInv /\ RequestInv /\ PhotosInv /\ TallyInv /\ SettledInv /\ [Next]_vars
      => TypeInv' /\ RequestInv' /\ PhotosInv' /\ TallyInv' /\ SettledInv'
  <2> SUFFICES ASSUME TypeInv, RequestInv, PhotosInv, TallyInv, SettledInv, [Next]_vars
               PROVE  TypeInv' /\ RequestInv' /\ PhotosInv' /\ TallyInv' /\ SettledInv'
    OBVIOUS
  <2>1. \A h \in Handlers : ChunkOK(h)
    BY DEF PhotosInv
  <2>2. TypeInv' /\ RequestInv'
    BY <2>1, TypeStep, RequestStep
  <2>3. PhotosInv' /\ TallyInv' /\ SettledInv'
    BY <2>1, <2>2, PhotosStep, TallyStep, SettledStep
  <2>4. QED
    BY <2>2, <2>3
<1>3. QED
  BY <1>1, <1>2, PTL DEF Spec

\* "Nothing is lost", for any groups the page may send: the batch it goes on to has every
\* photo, whatever was lost, tried again or died; but for a group sent after one that is not
\* full, when the batch holds as many cards as the plan allows.
THEOREM UploadAllPhotosIn == Spec => []AllPhotosIn
<1>1. PhotosInv => AllPhotosIn
  BY DEF PhotosInv, LandedInv, Have, AllPhotosIn
<1>2. QED
  BY <1>1, UploadInvariant, PTL

\* Where every group but the last is full, as it is wherever the browser shrinks the photos,
\* that is every photo.
FullGroups == \A g \in 1..(Len(Groups) - 1) : Len(Groups[g]) = Chunk

THEOREM UploadWholeWhenFull ==
    FullGroups /\ Spec => [](client.pc = "landed" => \A p \in Range(Photos) : In(client.b, p))
<1>1. FullGroups /\ PhotosInv => (client.pc = "landed" => \A p \in Range(Photos) : In(client.b, p))
  <2> SUFFICES ASSUME FullGroups, PhotosInv, client.pc = "landed", NEW p \in Range(Photos)
               PROVE  In(client.b, p)
    OBVIOUS
  <2>1. PICK g \in DOMAIN Groups : p \in Range(Groups[g])
    BY GroupsAre DEF Picked
  <2>2. ~ AfterShort(g)
    BY <2>1, GroupsAre DEF AfterShort, Short, FullGroups
  <2>3. QED
    BY <2>1, <2>2 DEF PhotosInv, LandedInv, Have
<1>2. FullGroups => FullGroups'
  BY DEF FullGroups
<1>3. QED
  BY <1>1, <1>2, UploadInvariant, PTL

\* A batch that is done counts each of its items and has looked for duplicates among all
\* of them, while no request was given up on before it ended.
THEOREM UploadSettledTrue == Spec => []SettledTrue
<1>1. SettledInv => SettledTrue
  BY DEF SettledInv
<1>2. QED
  BY <1>1, UploadInvariant, PTL

-----------------------------------------------------------------------------
(* The settings a scan starts from.                                         *)

\* A merge under way alone has read what is still written.
ReadStill ==
    \A t \in Tabs : tab[t].pc = "merge" =>
        tab[t].read = channels /\ \A u \in Tabs : tab[u].pc = "merge" => u = t

FormIsChannels == \A t \in Tabs : tab[t].pc = "merge" => tab[t].page \in DOMAIN ChannelKeys

SetupInv ==
    /\ columns \in [Columns -> Values \cup {Empty}]
    /\ channels \in [Channels -> Values \cup {Empty}]
    /\ said \in [Columns \cup Channels -> Values \cup {Empty}]
    /\ tab \in [Tabs -> [pc : {"closed", "merge"}, page : DOMAIN ChannelKeys \cup {"none"},
                         form : Values \cup {Empty}, read : [Channels -> Values \cup {Empty}]]]
    /\ FormIsChannels
    /\ crossed = FALSE => ReadStill
    /\ crossed \in BOOLEAN
    /\ SavedIsUsed

\* What a channel page owns is no field of another page.
LEMMA PagesApart ==
    /\ Columns \cap Channels = {}
    /\ \A p \in DOMAIN Section \ {"descriptions"} : Section[p] \subseteq Columns
    /\ \A p \in DOMAIN ScanForm : ScanForm[p] \subseteq Columns
    /\ \A p \in DOMAIN ChannelKeys : ChannelKeys[p] \subseteq Channels
  BY DEF Columns, Channels, Keys, Section, ChannelKeys, ScanForm

\* Every slot that is filled has its place among those kept.
LEMMA KeptHasAll ==
    ASSUME NEW body \in [Slots -> Bodies \cup {Empty}]
    PROVE  /\ Kept(body) \in Seq(Slots)
           /\ \A i \in Slots : body[i] # Empty =>
                 \E j \in DOMAIN Kept(body) : Kept(body)[j] = i
<1> DEFINE slot(i) == IF body[i] # Empty THEN <<i>> ELSE <<>>
<1>1. 1 \in Slots /\ 2 \in Slots /\ 3 \in Slots /\ \A i \in Slots : i \in {1, 2, 3}
  BY DEF Slots
<1>2. ASSUME NEW i \in Slots
      PROVE  slot(i) \in Seq(Slots) /\ (body[i] # Empty => Len(slot(i)) = 1 /\ slot(i)[1] = i)
  <2>1. <<i>> \in Seq(Slots) /\ Len(<<i>>) = 1 /\ <<i>>[1] = i /\ <<>> \in Seq(Slots)
    OBVIOUS
  <2> QED
    BY <2>1
<1>3. Kept(body) = slot(1) \o slot(2) \o slot(3)
  BY DEF Kept
<1> HIDE DEF slot
<1>4. PICK a, b, c \in Seq(Slots) : a = slot(1) /\ b = slot(2) /\ c = slot(3)
  BY <1>1, <1>2
<1>5. Kept(body) \in Seq(Slots)
  BY <1>3, <1>4
<1>6. /\ DOMAIN (a \o b) = 1..(Len(a) + Len(b))
      /\ \A j \in 1..Len(a) : (a \o b)[j] = a[j]
      /\ \A j \in 1..Len(b) : (a \o b)[Len(a) + j] = b[j]
  OBVIOUS
<1>7. PICK ab \in Seq(Slots) : ab = a \o b /\ Len(ab) = Len(a) + Len(b)
  BY ConcatProperties
<1>8. /\ DOMAIN (ab \o c) = 1..(Len(ab) + Len(c))
      /\ \A j \in 1..Len(ab) : (ab \o c)[j] = ab[j]
      /\ \A j \in 1..Len(c) : (ab \o c)[Len(ab) + j] = c[j]
  OBVIOUS
<1>9. PICK k : k = Kept(body) /\ k = ab \o c
  BY <1>3, <1>4, <1>7
<1>10. body[1] # Empty => 1 \in DOMAIN k /\ k[1] = 1
  BY <1>1, <1>2, <1>4, <1>6, <1>7, <1>8, <1>9
<1>11. body[2] # Empty => (Len(a) + 1) \in DOMAIN k /\ k[Len(a) + 1] = 2
  BY <1>1, <1>2, <1>4, <1>6, <1>7, <1>8, <1>9
<1>12. body[3] # Empty => (Len(ab) + 1) \in DOMAIN k /\ k[Len(ab) + 1] = 3
  BY <1>1, <1>2, <1>4, <1>6, <1>7, <1>8, <1>9
<1> QED
  BY <1>1, <1>5, <1>9, <1>10, <1>11, <1>12

LEMMA SetupStarts == SettingsInit => SetupInv
<1> SUFFICES ASSUME SettingsInit PROVE SetupInv
  OBVIOUS
<1>1. tab = [t \in Tabs |-> Closed] /\ \A t \in Tabs : tab[t].pc = "closed"
  BY DEF SettingsInit, Closed
<1>2. Closed \in [pc : {"closed", "merge"}, page : DOMAIN ChannelKeys \cup {"none"},
                         form : Values \cup {Empty}, read : [Channels -> Values \cup {Empty}]]
  BY DEF Closed
<1>3. SavedIsUsed
  BY DEF SettingsInit, SavedIsUsed
<1> QED
  BY <1>1, <1>2, <1>3 DEF SetupInv, FormIsChannels, ReadStill, SettingsInit

LEMMA SavePageKeeps ==
    ASSUME SetupInv, NEW t \in Tabs, NEW keys \in SUBSET Columns, NEW v \in Values,
           SavePage(t, keys, v)
    PROVE  SetupInv'
<1>1. /\ columns' = [c \in Columns |-> IF c \in keys THEN v ELSE columns[c]]
      /\ said' = [k \in Columns \cup Channels |-> IF k \in keys THEN v ELSE said[k]]
      /\ UNCHANGED <<templates, channels, tab, wanted, crossed>>
  BY DEF SavePage, Said, SetupInv
<1>2. \A k \in Channels : k \notin keys
  BY PagesApart
<1>3. SavedIsUsed'
  BY <1>1, <1>2 DEF SetupInv, SavedIsUsed, ActiveDescription
<1> QED
  BY <1>1, <1>3 DEF SetupInv, FormIsChannels, ReadStill

LEMMA DescriptionsKeep ==
    ASSUME SetupInv, NEW t \in Tabs, NEW body \in [Slots -> Bodies \cup {Empty}],
           NEW active \in Slots, SaveDescriptions(t, body, active)
    PROVE  SetupInv'
<1>1. PICK kept \in Seq(Slots) : kept = Kept(body)
  BY KeptHasAll
<1> DEFINE place == {j \in DOMAIN kept : kept[j] = active}
<1>2. /\ templates'.active = (IF place = {} THEN 1 ELSE CHOOSE j \in place : TRUE)
      /\ templates'.items = [j \in DOMAIN kept |-> body[kept[j]]]
      /\ wanted' = body[active]
      /\ UNCHANGED <<columns, channels, tab, said, crossed>>
  BY <1>1 DEF SaveDescriptions
<1>3. ASSUME body[active] # Empty
      PROVE  ActiveDescription' = body[active]
  <2>1. PICK j \in DOMAIN kept : kept[j] = active /\ templates'.active = j
    <3>1. place # {}
      BY <1>1, <1>3, KeptHasAll
    <3>2. (CHOOSE j \in place : TRUE) \in place
      BY <3>1
    <3> QED
      BY <1>2, <3>1, <3>2
  <2>2. PICK shown : shown = templates'.items
    OBVIOUS
  <2>3. shown = [i \in 1..Len(kept) |-> body[kept[i]]] /\ Len(kept) \in Nat /\ j \in 1..Len(kept)
    BY <1>2, <2>1, <2>2
  <2>4. Len(shown) = Len(kept)
    BY <2>3
  <2>5. ActiveDescription' =
            IF Len(shown) = 0 THEN Empty
            ELSE shown[IF templates'.active < Len(shown) THEN templates'.active ELSE Len(shown)]
    BY <2>2 DEF ActiveDescription
  <2> QED
    BY <2>1, <2>3, <2>4, <2>5
<1>4. SavedIsUsed'
  BY <1>2, <1>3 DEF SetupInv, SavedIsUsed
<1> QED
  BY <1>2, <1>4 DEF SetupInv, FormIsChannels, ReadStill

LEMMA OpenKeeps ==
    ASSUME SetupInv, NEW t \in Tabs, NEW page \in DOMAIN ChannelKeys, NEW v \in Values,
           OpenChannel(t, page, v)
    PROVE  SetupInv'
<1>1. PICK r : r = [pc |-> "merge", page |-> page, form |-> v, read |-> channels]
  OBVIOUS
<1>2. /\ tab' = [tab EXCEPT ![t] = r] /\ tab[t].pc = "closed"
      /\ crossed' = (crossed \/ \E u \in Tabs : tab[u].pc = "merge")
      /\ UNCHANGED <<columns, templates, channels, said, wanted>>
  BY <1>1 DEF OpenChannel, Post
<1>3. /\ r \in [pc : {"closed", "merge"}, page : DOMAIN ChannelKeys \cup {"none"},
                form : Values \cup {Empty}, read : [Channels -> Values \cup {Empty}]]
      /\ r.page = page /\ r.read = channels
  BY <1>1 DEF SetupInv
<1>4. /\ tab' \in [Tabs -> [pc : {"closed", "merge"}, page : DOMAIN ChannelKeys \cup {"none"},
                form : Values \cup {Empty}, read : [Channels -> Values \cup {Empty}]]]
      /\ tab'[t] = r /\ \A u \in Tabs : u # t => tab'[u] = tab[u]
  BY <1>2, <1>3 DEF SetupInv
<1>5. FormIsChannels'
  BY <1>3, <1>4 DEF SetupInv, FormIsChannels
<1>6. (crossed' = FALSE) => crossed = FALSE /\ ~ \E u \in Tabs : tab[u].pc = "merge"
  BY <1>2 DEF SetupInv
<1>7. (crossed' = FALSE) => ReadStill'
  BY <1>2, <1>3, <1>4, <1>6 DEF ReadStill
<1>8. crossed' \in BOOLEAN
  BY <1>2
<1>9. SavedIsUsed'
  BY <1>2, <1>6, <1>8 DEF SetupInv, SavedIsUsed, ActiveDescription
<1> QED
  BY <1>2, <1>4, <1>5, <1>7, <1>8, <1>9 DEF SetupInv

LEMMA SaveKeeps == ASSUME SetupInv, NEW t \in Tabs, SaveChannel(t) PROVE SetupInv'
<1>1. PICK r : r = tab[t]
  OBVIOUS
<1>2. /\ r.pc = "merge" /\ r.page \in DOMAIN ChannelKeys
      /\ r.form \in Values \cup {Empty} /\ r.read \in [Channels -> Values \cup {Empty}]
  BY <1>1 DEF SetupInv, FormIsChannels, SaveChannel
<1>3. PICK keys \in SUBSET Channels : keys = ChannelKeys[r.page]
  BY <1>2, PagesApart
<1>4. /\ channels' = [k \in Channels |-> IF k \in keys THEN r.form ELSE r.read[k]]
      /\ said' = [k \in Columns \cup Channels |-> IF k \in keys THEN r.form ELSE said[k]]
      /\ tab' = [tab EXCEPT ![t] = Closed]
      /\ UNCHANGED <<columns, templates, wanted, crossed>>
  BY <1>1, <1>3 DEF SaveChannel, Said, SetupInv
<1>5. Closed \in [pc : {"closed", "merge"}, page : DOMAIN ChannelKeys \cup {"none"},
                form : Values \cup {Empty}, read : [Channels -> Values \cup {Empty}]]
      /\ Closed.pc = "closed"
  BY DEF Closed
<1>6. /\ tab' \in [Tabs -> [pc : {"closed", "merge"}, page : DOMAIN ChannelKeys \cup {"none"},
                form : Values \cup {Empty}, read : [Channels -> Values \cup {Empty}]]]
      /\ tab'[t].pc = "closed" /\ \A u \in Tabs : u # t => tab'[u] = tab[u]
  BY <1>4, <1>5 DEF SetupInv
<1>7. /\ columns' \in [Columns -> Values \cup {Empty}]
      /\ channels' \in [Channels -> Values \cup {Empty}]
      /\ said' \in [Columns \cup Channels -> Values \cup {Empty}]
  BY <1>2, <1>4 DEF SetupInv
<1>8. FormIsChannels'
  BY <1>6 DEF SetupInv, FormIsChannels
<1>9. (crossed = FALSE) => /\ r.read = channels
                           /\ \A u \in Tabs : tab[u].pc = "merge" => u = t
  BY <1>1, <1>2 DEF SetupInv, ReadStill
<1>10. (crossed' = FALSE) => ReadStill'
  BY <1>4, <1>6, <1>9 DEF ReadStill
<1>11. \A c \in Columns : columns'[c] = said'[c]
  <2>1. \A c \in Columns : c \notin keys
    BY PagesApart
  <2> QED
    BY <1>4, <2>1 DEF SetupInv, SavedIsUsed
<1>12. (crossed = FALSE) => \A k \in Channels : channels'[k] = said'[k]
  BY <1>4, <1>9 DEF SetupInv, SavedIsUsed
<1>13. SavedIsUsed'
  BY <1>4, <1>11, <1>12 DEF SetupInv, SavedIsUsed, ActiveDescription
<1> QED
  BY <1>4, <1>6, <1>7, <1>8, <1>10, <1>13 DEF SetupInv

\* Whatever was last given to a field is what the field holds, and the description chosen last
\* the one that is used, for any fields' values and any number of pages open at once.
THEOREM SavedIsUsedAlways == SettingsSpec => []SavedIsUsed
<1>1. SetupInv /\ [SettingsNext]_settings => SetupInv'
  <2> SUFFICES ASSUME SetupInv, [SettingsNext]_settings PROVE SetupInv'
    OBVIOUS
  <2>1. ASSUME NEW t \in Tabs, NEW p \in DOMAIN Section \ {"descriptions"}, NEW v \in Values,
               SavePage(t, Section[p], v)
        PROVE  SetupInv'
    BY <2>1, PagesApart, SavePageKeeps
  <2>2. ASSUME NEW t \in Tabs, NEW p \in DOMAIN ScanForm, NEW v \in Values,
               SavePage(t, ScanForm[p], v)
        PROVE  SetupInv'
    BY <2>2, PagesApart, SavePageKeeps
  <2>3. CASE UNCHANGED settings
    BY <2>3 DEF settings, SetupInv, FormIsChannels, ReadStill, SavedIsUsed, ActiveDescription
  <2> QED
    BY <2>1, <2>2, <2>3, DescriptionsKeep, OpenKeeps, SaveKeeps DEF SettingsNext
<1>2. SetupInv => SavedIsUsed
  BY DEF SetupInv
<1> QED
  BY <1>1, <1>2, SetupStarts, PTL DEF SettingsSpec

=============================================================================
