----------------------- MODULE MonitorPipelineProofs -----------------------
(***************************************************************************)
(* The event pipeline of a worker for every limit, number of updates and   *)
(* length of time: what NATS gets in a second is bounded, and a bucket that*)
(* is marked as persisted is covered.                                      *)
(***************************************************************************)
EXTENDS MonitorPipeline, SequenceTheorems, TLAPS

(* A queue or a store that holds one thing or none.                         *)
OneOf(S) == {<<>>} \union {<<x>> : x \in S}

Times == 0 .. MaxTime
Deltas == [seq : Nat, prev : Nat, quote : Quotes, at : Times]
Tops == [seq : Nat, quote : Quotes, at : Times, flags : SUBSET {"out_of_order", "seq_gap", "stale"}]
Snaps == {NoSnap, [stage |-> "sent"]}
           \union [stage : {"answered"}, seq : Nat, quote : Quotes, at : Times]

(* The books: what is queued or stored was taken in by now.                 *)
BookInv ==
    /\ now \in Times /\ assigned \in BOOLEAN
    /\ market \in [Exchanges -> [seq : 0 .. MaxSeq, quote : Quotes]]
    /\ inbox \in [Exchanges -> OneOf(Deltas)]
    /\ top \in [Exchanges -> OneOf(Tops)]
    /\ snap \in [Exchanges -> Snaps]
    /\ \A ex \in Exchanges : inbox[ex] # <<>> => inbox[ex][1].at <= now
    /\ \A ex \in Exchanges : top[ex] # <<>> => top[ex][1].at <= now

(* The rate: NATS has had no more of this second than the window counts, for*)
(* a window that begins later than the second is begun by its first event.  *)
RateInv ==
    /\ window \in [sec : Int, count : Nat]
    /\ -1 <= window.sec /\ window.sec <= now /\ window.count <= MaxPerSec
    /\ published \in Nat
    /\ InWindow => published <= window.count
    /\ ~ InWindow => published = 0

(* The sampling.                                                            *)
InsertInv ==
    /\ marked \in -1 .. now
    /\ inserts \in Seq(Nat) /\ Len(inserts) <= DbLimit
    /\ \A i \in 1 .. Len(inserts) : inserts[i] <= now
    /\ rows \in [Times -> Nat]
    /\ MarkedBucketIsCovered

PipelineInv == BookInv /\ RateInv /\ InsertInv /\ Len(lastSig) <= 1

-----------------------------------------------------------------------------
(* Removing an insert from those in flight leaves the others in place.      *)
LEMMA RestKeepsOthers ==
    ASSUME inserts \in Seq(Nat), NEW i \in 1 .. Len(inserts)
    PROVE  /\ Rest(i) \in Seq(Nat) /\ Len(Rest(i)) = Len(inserts) - 1
           /\ \A j \in 1 .. Len(Rest(i)) :
                Rest(i)[j] = inserts[IF j < i THEN j ELSE j + 1]
<1> DEFINE front == SubSeq(inserts, 1, i - 1)
<1> DEFINE back == SubSeq(inserts, i + 1, Len(inserts))
<1>1. Len(inserts) \in Nat /\ \A k \in 1 .. Len(inserts) : inserts[k] \in Nat
  BY LenProperties, ElementOfSeq
<1>2. /\ front \in Seq(Nat) /\ Len(front) = i - 1
      /\ \A j \in 1 .. i - 1 : front[j] = inserts[j]
  <2>1. \A k \in 1 .. i - 1 : inserts[k] \in Nat
    BY <1>1
  <2> QED  BY <2>1, <1>1
<1>3. /\ back \in Seq(Nat) /\ Len(back) = Len(inserts) - i
      /\ \A j \in 1 .. Len(inserts) - i : back[j] = inserts[i + j]
  <2>1. \A k \in i + 1 .. Len(inserts) : inserts[k] \in Nat
    BY <1>1
  <2> QED  BY <2>1, <1>1
<1> HIDE DEF front, back
<1>4. /\ front \o back \in Seq(Nat) /\ Len(front \o back) = Len(inserts) - 1
      /\ \A j \in 1 .. Len(inserts) - 1 :
           (front \o back)[j] = IF j <= i - 1 THEN front[j] ELSE back[j - (i - 1)]
  <2>1. Len(front) + Len(back) = Len(inserts) - 1
    BY <1>1, <1>2, <1>3
  <2>2. /\ front \o back \in Seq(Nat) /\ Len(front \o back) = Len(front) + Len(back)
        /\ \A j \in 1 .. Len(front) + Len(back) :
             (front \o back)[j] = IF j <= Len(front) THEN front[j] ELSE back[j - Len(front)]
    BY <1>2, <1>3, ConcatProperties, Zenon
  <2> QED  BY <1>2, <2>1, <2>2
<1>5. ASSUME NEW j \in 1 .. Len(inserts) - 1
      PROVE  (front \o back)[j] = inserts[IF j < i THEN j ELSE j + 1]
  <2>1. CASE j < i
    <3>1. (front \o back)[j] = front[j] /\ front[j] = inserts[j]
      BY <1>1, <1>2, <1>4, <2>1
    <3> QED  BY <2>1, <3>1
  <2>2. CASE ~ j < i
    <3>1. (front \o back)[j] = back[j - (i - 1)] /\ j - (i - 1) \in 1 .. Len(inserts) - i
      BY <1>1, <1>4, <2>2
    <3>2. i + (j - (i - 1)) = j + 1
      BY <1>1
    <3> QED  BY <1>3, <2>2, <3>1, <3>2
  <2> QED  BY <2>1, <2>2
<1> QED  BY <1>1, <1>4, <1>5 DEF Rest, front, back

(* What is in flight beside the insert that ends stays in flight.           *)
LEMMA OthersStay ==
    ASSUME inserts \in Seq(Nat), NEW i \in 1 .. Len(inserts), NEW b, b # inserts[i],
           \E k \in DOMAIN inserts : inserts[k] = b
    PROVE  \E k \in DOMAIN Rest(i) : Rest(i)[k] = b
<1>1. PICK k \in 1 .. Len(inserts) : inserts[k] = b
  <2>1. DOMAIN inserts = 1 .. Len(inserts)
    BY LenProperties
  <2> QED  BY <2>1
<1>2. /\ Rest(i) \in Seq(Nat) /\ Len(Rest(i)) = Len(inserts) - 1
      /\ \A j \in 1 .. Len(Rest(i)) : Rest(i)[j] = inserts[IF j < i THEN j ELSE j + 1]
  BY RestKeepsOthers
<1>3. Len(inserts) \in Nat
  BY LenProperties
<1>4. DOMAIN Rest(i) = 1 .. Len(Rest(i))
  BY <1>2, LenProperties, Zenon
<1>5. CASE k < i
  <2>1. k \in 1 .. Len(inserts) - 1
    BY <1>1, <1>3, <1>5
  <2>2. Rest(i)[k] = inserts[k]
    BY <1>2, <1>5, <2>1
  <2> QED  BY <1>1, <1>2, <1>4, <2>1, <2>2
<1>6. CASE i < k
  <2>1. k - 1 \in 1 .. Len(inserts) - 1 /\ ~ k - 1 < i /\ (k - 1) + 1 = k
    BY <1>1, <1>3, <1>6
  <2> QED  BY <1>1, <1>2, <1>4, <2>1
<1> QED  BY <1>1, <1>3, <1>5, <1>6

-----------------------------------------------------------------------------
(* The initial state. *)

LEMMA InvHolds == PipelineInit => PipelineInv
<1> SUFFICES ASSUME PipelineInit PROVE PipelineInv
  OBVIOUS
<1>1. BookInv
  <2>1. MaxTime \in Nat /\ MaxSeq \in Nat
    BY PipelineAssumption
  <2>2. PICK q \in Quotes : market = [ex \in Exchanges |-> [seq |-> 0, quote |-> q]]
    BY DEF PipelineInit
  <2>3. market \in [Exchanges -> [seq : 0 .. MaxSeq, quote : Quotes]]
    BY <2>1, <2>2
  <2>4. inbox \in [Exchanges -> OneOf(Deltas)] /\ \A ex \in Exchanges : inbox[ex] = <<>>
    BY DEF PipelineInit, OneOf
  <2>5. top \in [Exchanges -> OneOf(Tops)] /\ \A ex \in Exchanges : top[ex] = <<>>
    BY DEF PipelineInit, OneOf
  <2>6. snap \in [Exchanges -> Snaps]
    BY DEF PipelineInit, Snaps
  <2>7. now \in Times /\ assigned \in BOOLEAN
    BY <2>1 DEF PipelineInit, Times
  <2> QED  BY <2>3, <2>4, <2>5, <2>6, <2>7 DEF BookInv
<1>2. RateInv
  <2>1. window = [sec |-> -1, count |-> 0] /\ now = 0 /\ published = 0
    BY DEF PipelineInit, NoWindow
  <2>2. MaxPerSec \in Nat
    BY PipelineAssumption
  <2> QED  BY <2>1, <2>2 DEF RateInv, InWindow
<1>3. InsertInv
  <2>1. inserts = <<>> /\ marked = -1 /\ now = 0 /\ rows = [b \in Times |-> 0]
    BY DEF PipelineInit, Times
  <2>2. inserts \in Seq(Nat) /\ Len(inserts) = 0
    BY <2>1, EmptySeq
  <2>3. DbLimit \in Nat
    BY PipelineAssumption
  <2>4. \A i \in 1 .. Len(inserts) : inserts[i] <= now
    BY <2>2
  <2>5. rows \in [Times -> Nat]
    BY <2>1
  <2>6. marked \in -1 .. now /\ MarkedBucketIsCovered
    BY <2>1 DEF MarkedBucketIsCovered
  <2> QED  BY <2>2, <2>3, <2>4, <2>5, <2>6 DEF InsertInv
<1>4. Len(lastSig) <= 1
  BY DEF PipelineInit
<1> QED  BY <1>1, <1>2, <1>3, <1>4 DEF PipelineInv

-----------------------------------------------------------------------------
(* One event. *)

(* What Flags finds is one of three.                                        *)
LEMMA FlagsType ==
    ASSUME NEW ex, NEW d
    PROVE  Flags(ex, d) \in SUBSET {"out_of_order", "seq_gap", "stale"}
BY DEF Flags

(* The bucket of an event is not later than now.                            *)
LEMMA BucketIsPast ==
    ASSUME now \in Times, NEW tops \in [Exchanges -> OneOf(Tops)],
           \A ex \in Exchanges : tops[ex] # <<>> /\ tops[ex][1].at <= now
    PROVE  Event(tops).bucket \in 0 .. now
<1>1. PICK a \in Tops : tops["binance"] = <<a>>
  BY DEF Exchanges, OneOf
<1>2. PICK b \in Tops : tops["okx"] = <<b>>
  BY DEF Exchanges, OneOf
<1>3. a.at \in 0 .. now /\ b.at \in 0 .. now
  <2>1. tops["binance"][1].at <= now /\ tops["okx"][1].at <= now
    BY DEF Exchanges
  <2>2. a.at <= now /\ b.at <= now
    BY <1>1, <1>2, <2>1
  <2> QED  BY <2>2 DEF Tops, Times
<1>4. Event(tops).bucket = Ahead(a.at, b.at)
  BY <1>1, <1>2 DEF Event
<1> QED  BY <1>3, <1>4 DEF Ahead

(* Persist marks a bucket with its insert, or takes the mark away.          *)
LEMMA PersistKeeps ==
    ASSUME InsertInv, now \in Nat, NEW e, e.bucket \in 0 .. now, Persist(e),
           UNCHANGED <<now, rows>>
    PROVE  InsertInv'
<1>1. CASE UNCHANGED <<marked, inserts>>
  BY <1>1 DEF InsertInv, MarkedBucketIsCovered
<1>2. CASE marked' = -1 /\ UNCHANGED inserts
  BY <1>2 DEF InsertInv, MarkedBucketIsCovered
<1>3. CASE Len(inserts) < DbLimit /\ marked' = e.bucket /\ inserts' = Append(inserts, e.bucket)
  <2>1. Len(inserts) \in Nat /\ inserts \in Seq(Nat) /\ e.bucket \in Nat
    BY LenProperties DEF InsertInv
  <2>2. inserts' \in Seq(Nat) /\ Len(inserts') = Len(inserts) + 1
    BY <1>3, <2>1
  <2>3. \A i \in 1 .. Len(inserts') :
          inserts'[i] = IF i <= Len(inserts) THEN inserts[i] ELSE e.bucket
    BY <1>3, <2>1, <2>2
  <2>4. \A i \in 1 .. Len(inserts') : inserts'[i] <= now
    <3> TAKE i \in 1 .. Len(inserts')
    <3>1. CASE i <= Len(inserts)
      BY <2>1, <2>3, <3>1 DEF InsertInv
    <3>2. CASE ~ i <= Len(inserts)
      BY <2>1, <2>3, <3>2
    <3> QED  BY <3>1, <3>2
  <2>5. \E i \in DOMAIN inserts' : inserts'[i] = marked'
    <3>1. Len(inserts') \in DOMAIN inserts' /\ inserts'[Len(inserts')] = e.bucket
      BY <2>1, <2>2, <2>3
    <3> QED  BY <1>3, <3>1
  <2>6. DbLimit \in Nat
    BY PipelineAssumption
  <2> QED  BY <1>3, <2>1, <2>2, <2>4, <2>5, <2>6 DEF InsertInv, MarkedBucketIsCovered
<1> QED  BY <1>1, <1>2, <1>3 DEF Persist

(* The whole pipeline: an event that NATS gets was counted by the window of *)
(* this second, or begins it.                                               *)
LEMMA PipelineKeeps ==
    ASSUME RateInv, InsertInv, Len(lastSig) <= 1, now \in Nat,
           NEW e, e.bucket \in 0 .. now, Pipeline(e), UNCHANGED <<now, rows>>
    PROVE  RateInv' /\ InsertInv' /\ Len(lastSig') <= 1
<1>1. CASE UNCHANGED pipeVars
  BY <1>1 DEF pipeVars, RateInv, InWindow, InsertInv, MarkedBucketIsCovered
<1>2. CASE lastSig' = <<e.sig>> /\ UNCHANGED <<window, marked, inserts, published>>
  BY <1>2 DEF RateInv, InWindow, InsertInv, MarkedBucketIsCovered
<1>3. CASE /\ lastSig' = <<e.sig>> /\ ~ RateLimited
           /\ window' = IF InWindow THEN [window EXCEPT !.count = @ + 1]
                        ELSE [sec |-> now, count |-> 1]
           /\ published' = published + 1
           /\ Persist(e)
  <2>1. InsertInv'
    BY <1>3, PersistKeeps
  <2>2. MaxPerSec \in Nat \ {0}
    BY PipelineAssumption
  <2>3. CASE InWindow
    <3>1. window' = [window EXCEPT !.count = window.count + 1]
      BY <1>3, <2>3
    <3>2. /\ window' \in [sec : Int, count : Nat]
          /\ window'.sec = window.sec /\ window'.count = window.count + 1
      BY <3>1 DEF RateInv
    <3>3. window.count < MaxPerSec /\ window.sec = now
      BY <1>3, <2>2, <2>3 DEF RateInv, RateLimited, InWindow
    <3> QED  BY <1>3, <2>1, <2>2, <2>3, <3>2, <3>3 DEF RateInv, InWindow
  <2>4. CASE ~ InWindow
    <3>1. window' = [sec |-> now, count |-> 1]
      BY <1>3, <2>4
    <3>2. window' \in [sec : Int, count : Nat] /\ window'.sec = now /\ window'.count = 1
      BY <3>1
    <3> QED  BY <1>3, <2>1, <2>2, <2>4, <3>2 DEF RateInv, InWindow
  <2> QED  BY <2>3, <2>4
<1> QED  BY <1>1, <1>2, <1>3 DEF Pipeline

-----------------------------------------------------------------------------
(* The steps. *)

(* Steps that leave the pipeline, or the books, alone.                      *)
LEMMA SamePipeline ==
    ASSUME PipelineInv, BookInv', UNCHANGED <<now, pipeVars, rows>>
    PROVE  PipelineInv'
BY DEF PipelineInv, RateInv, InWindow, InsertInv, MarkedBucketIsCovered, pipeVars

LEMMA SameBooks ==
    ASSUME BookInv, UNCHANGED <<now, bookVars>>, assigned' \in BOOLEAN
    PROVE  BookInv'
BY DEF BookInv, bookVars

(* A new second: what was published in the last one no longer counts, and   *)
(* no window has begun in this one yet.                                     *)
LEMMA TickStep ==
    ASSUME PipelineInv, Tick
    PROVE  PipelineInv'
<1>1. now \in Nat /\ now' = now + 1 /\ now' \in Times
  <2>1. now \in Times /\ MaxTime \in Nat
    BY PipelineAssumption DEF PipelineInv, BookInv
  <2>2. now < MaxTime /\ now' = now + 1
    BY DEF Tick
  <2> QED  BY <2>1, <2>2 DEF Times
<1>2. BookInv'
  <2>1. /\ assigned' \in BOOLEAN
        /\ market' \in [Exchanges -> [seq : 0 .. MaxSeq, quote : Quotes]]
        /\ inbox' \in [Exchanges -> OneOf(Deltas)] /\ top' \in [Exchanges -> OneOf(Tops)]
        /\ snap' \in [Exchanges -> Snaps]
    BY DEF PipelineInv, BookInv, Tick, bookVars
  <2>2. ASSUME NEW ex \in Exchanges, inbox[ex] # <<>>
        PROVE  inbox[ex][1].at <= now'
    <3>1. PICK d \in Deltas : inbox[ex] = <<d>>
      BY <2>2 DEF PipelineInv, BookInv, OneOf
    <3>2. d.at \in Nat /\ d.at <= now
      BY <2>2, <3>1 DEF PipelineInv, BookInv, Deltas, Times
    <3> QED  BY <1>1, <3>1, <3>2
  <2>3. ASSUME NEW ex \in Exchanges, top[ex] # <<>>
        PROVE  top[ex][1].at <= now'
    <3>1. PICK t \in Tops : top[ex] = <<t>>
      BY <2>3 DEF PipelineInv, BookInv, OneOf
    <3>2. t.at \in Nat /\ t.at <= now
      BY <2>3, <3>1 DEF PipelineInv, BookInv, Tops, Times
    <3> QED  BY <1>1, <3>1, <3>2
  <2>4. inbox' = inbox /\ top' = top
    BY DEF Tick, bookVars
  <2> QED  BY <1>1, <2>1, <2>2, <2>3, <2>4 DEF BookInv
<1>3. RateInv'
  BY <1>1 DEF PipelineInv, RateInv, InWindow, Tick
<1>4. InsertInv'
  <2>1. inserts \in Seq(Nat)
    BY DEF PipelineInv, InsertInv
  <2>2. Len(inserts) \in Nat /\ \A i \in 1 .. Len(inserts) : inserts[i] \in Nat
    BY <2>1, LenProperties, ElementOfSeq
  <2>3. marked' = marked /\ inserts' = inserts /\ rows' = rows
    BY DEF Tick
  <2>4. marked' \in -1 .. now'
    BY <1>1, <2>3 DEF PipelineInv, InsertInv
  <2>5. \A i \in 1 .. Len(inserts) : inserts[i] <= now'
    BY <1>1, <2>2 DEF PipelineInv, InsertInv
  <2> QED  BY <2>3, <2>4, <2>5 DEF PipelineInv, InsertInv, MarkedBucketIsCovered
<1> QED  BY <1>2, <1>3, <1>4 DEF PipelineInv, Tick

LEMMA UpdateStep ==
    ASSUME PipelineInv, NEW ex \in Exchanges, NEW q \in Quotes, Update(ex, q)
    PROVE  PipelineInv'
<1> DEFINE d == [seq |-> market[ex].seq + 1, prev |-> market[ex].seq, quote |-> q, at |-> now]
<1>1. /\ market[ex].seq \in Nat /\ market[ex].seq < MaxSeq /\ MaxSeq \in Nat
      /\ now \in Times /\ now \in Nat
  <2>1. /\ now \in Times /\ MaxTime \in Nat /\ MaxSeq \in Nat
        /\ market \in [Exchanges -> [seq : 0 .. MaxSeq, quote : Quotes]]
    BY PipelineAssumption DEF PipelineInv, BookInv
  <2>2. market[ex].seq \in 0 .. MaxSeq
    BY <2>1
  <2>3. market[ex].seq < MaxSeq
    BY DEF Update
  <2> QED  BY <2>1, <2>2, <2>3 DEF Times
<1>2. market' \in [Exchanges -> [seq : 0 .. MaxSeq, quote : Quotes]]
  <2>1. market' = [market EXCEPT ![ex] = [seq |-> market[ex].seq + 1, quote |-> q]]
    BY DEF Update
  <2> QED  BY <1>1, <2>1 DEF PipelineInv, BookInv
<1>3. inbox' = [inbox EXCEPT ![ex] = <<d>>] \/ inbox' = inbox
  BY DEF Update
<1>4. d \in Deltas /\ d.at = now
  BY <1>1 DEF Deltas
<1> HIDE DEF d
<1>5. inbox' \in [Exchanges -> OneOf(Deltas)]
  BY <1>3, <1>4 DEF PipelineInv, BookInv, OneOf
<1>6. \A x \in Exchanges : inbox'[x] # <<>> => inbox'[x][1].at <= now
  <2>1. CASE inbox' = inbox
    BY <2>1 DEF PipelineInv, BookInv
  <2>2. CASE inbox' = [inbox EXCEPT ![ex] = <<d>>]
    <3> TAKE x \in Exchanges
    <3>1. CASE x = ex
      <4>1. inbox'[x] = <<d>>
        BY <2>2, <3>1 DEF PipelineInv, BookInv
      <4> QED  BY <1>1, <1>4, <4>1
    <3>2. CASE x # ex
      <4>1. inbox'[x] = inbox[x]
        BY <2>2, <3>2 DEF PipelineInv, BookInv
      <4> QED  BY <4>1 DEF PipelineInv, BookInv
    <3> QED  BY <3>1, <3>2
  <2> QED  BY <1>3, <2>1, <2>2
<1>7. UNCHANGED <<now, assigned, top, snap, pipeVars, rows>>
  BY DEF Update
<1>8. BookInv'
  BY <1>2, <1>5, <1>6, <1>7 DEF PipelineInv, BookInv
<1> QED  BY <1>7, <1>8, SamePipeline

(* A top that is replaced keeps the store in its type, and is past if the   *)
(* new one is.                                                              *)
LEMMA NewTopIsPast ==
    ASSUME BookInv, NEW ex \in Exchanges, NEW t \in Tops, t.at <= now,
           top' = [top EXCEPT ![ex] = <<t>>]
    PROVE  /\ top' \in [Exchanges -> OneOf(Tops)]
           /\ \A x \in Exchanges : top'[x] # <<>> => top'[x][1].at <= now
<1>1. top' \in [Exchanges -> OneOf(Tops)]
  BY DEF BookInv, OneOf
<1>2. ASSUME NEW x \in Exchanges, top'[x] # <<>>
      PROVE  top'[x][1].at <= now
  <2>1. CASE x = ex
    <3>1. top'[x] = <<t>>
      BY <2>1 DEF BookInv
    <3> QED  BY <3>1
  <2>2. CASE x # ex
    <3>1. top'[x] = top[x]
      BY <2>2 DEF BookInv
    <3> QED  BY <1>2, <3>1 DEF BookInv
  <2> QED  BY <2>1, <2>2
<1> QED  BY <1>1, <1>2

LEMMA NowIsNat ==
    ASSUME BookInv
    PROVE  now \in Times /\ now \in Nat
<1>1. now \in Times /\ MaxTime \in Nat
  BY PipelineAssumption DEF BookInv
<1> QED  BY <1>1 DEF Times

LEMMA SnapIsTyped ==
    ASSUME BookInv, NEW ex \in Exchanges, NEW s \in Snaps, snap' = [snap EXCEPT ![ex] = s]
    PROVE  snap' \in [Exchanges -> Snaps]
BY DEF BookInv

(* The delta that is consumed was queued by now, so its top is a past one,  *)
(* and so is the bucket of the event made of the tops.                      *)
LEMMA ConsumeStep ==
    ASSUME PipelineInv, NEW ex \in Exchanges, Consume(ex)
    PROVE  PipelineInv'
<1> DEFINE d == [inbox[ex][1] EXCEPT !.prev = IF ex \in Sequenced THEN @ ELSE -1]
<1> DEFINE t == NewTop(ex, d, d.at)
<1>1. BookInv /\ RateInv /\ InsertInv /\ Len(lastSig) <= 1
  BY DEF PipelineInv
<1>2. PICK sent \in Deltas : inbox[ex] = <<sent>>
  BY <1>1 DEF BookInv, OneOf, Consume
<1>3. /\ sent.seq \in Nat /\ sent.quote \in Quotes /\ sent.at \in Times
      /\ sent.at <= now
  <2>1. inbox[ex][1].at <= now
    BY <1>1 DEF BookInv, Consume
  <2> QED  BY <1>2, <2>1 DEF Deltas
<1>4. d.seq = sent.seq /\ d.quote = sent.quote /\ d.at = sent.at
  <2>1. inbox[ex][1] = sent
    BY <1>2
  <2> QED  BY <2>1 DEF Deltas
<1>5. /\ top' = [top EXCEPT ![ex] = <<t>>]
      /\ snap' = [snap EXCEPT ![ex] = [stage |-> "sent"]] \/ snap' = snap
      /\ inbox' = [inbox EXCEPT ![ex] = <<>>]
      /\ IF \A x \in Exchanges : top'[x] # <<>> THEN Pipeline(Event(top')) ELSE UNCHANGED pipeVars
      /\ UNCHANGED <<now, assigned, market, rows>>
  BY DEF Consume
<1> HIDE DEF d
<1>6. t \in Tops /\ t.at <= now
  BY <1>3, <1>4, FlagsType DEF NewTop, Tops
<1> HIDE DEF t
<1>7. /\ top' \in [Exchanges -> OneOf(Tops)]
      /\ \A x \in Exchanges : top'[x] # <<>> => top'[x][1].at <= now
  BY <1>1, <1>5, <1>6, NewTopIsPast
<1>8. BookInv'
  <2>1. snap' \in [Exchanges -> Snaps]
    <3>1. [stage |-> "sent"] \in Snaps
      BY DEF Snaps
    <3>2. CASE snap' = snap
      BY <1>1, <3>2 DEF BookInv
    <3>3. CASE snap' = [snap EXCEPT ![ex] = [stage |-> "sent"]]
      BY <1>1, <3>1, <3>3, SnapIsTyped
    <3> QED  BY <1>5, <3>2, <3>3
  <2>2. inbox' \in [Exchanges -> OneOf(Deltas)]
    BY <1>1, <1>5 DEF BookInv, OneOf
  <2>3. \A x \in Exchanges : inbox'[x] # <<>> => inbox'[x] = inbox[x]
    BY <1>1, <1>5 DEF BookInv
  <2>4. \A x \in Exchanges : inbox'[x] # <<>> => inbox'[x][1].at <= now
    <3> SUFFICES ASSUME NEW x \in Exchanges, inbox'[x] # <<>>
                 PROVE  inbox'[x][1].at <= now
      OBVIOUS
    <3>1. inbox'[x] = inbox[x]
      BY <2>3
    <3> QED  BY <1>1, <3>1 DEF BookInv
  <2> QED  BY <1>1, <1>5, <1>7, <2>1, <2>2, <2>4 DEF BookInv
<1>9. RateInv' /\ InsertInv' /\ Len(lastSig') <= 1
  <2>1. now \in Times /\ now \in Nat
    BY <1>1, NowIsNat
  <2>2. CASE \A x \in Exchanges : top'[x] # <<>>
    <3>1. Pipeline(Event(top'))
      BY <1>5, <2>2
    <3>2. Event(top').bucket \in 0 .. now
      BY <1>7, <2>1, <2>2, BucketIsPast
    <3> QED  BY <1>1, <1>5, <2>1, <3>1, <3>2, PipelineKeeps
  <2>3. CASE ~ \A x \in Exchanges : top'[x] # <<>>
    BY <1>1, <1>5, <2>3 DEF pipeVars, RateInv, InWindow, InsertInv, MarkedBucketIsCovered
  <2> QED  BY <2>2, <2>3
<1> QED  BY <1>8, <1>9 DEF PipelineInv

LEMMA AnswerSnapshotStep ==
    ASSUME PipelineInv, NEW ex \in Exchanges, AnswerSnapshot(ex)
    PROVE  PipelineInv'
<1> DEFINE s == [stage |-> "answered", seq |-> market[ex].seq,
                 quote |-> market[ex].quote, at |-> now]
<1>1. BookInv /\ MaxSeq \in Nat
  BY PipelineAssumption DEF PipelineInv
<1>2. s \in Snaps
  <2>1. market[ex].seq \in 0 .. MaxSeq /\ market[ex].quote \in Quotes /\ now \in Times
    BY <1>1 DEF BookInv
  <2> QED  BY <1>1, <2>1 DEF Snaps
<1>3. /\ snap' = [snap EXCEPT ![ex] = s]
      /\ UNCHANGED <<now, assigned, market, inbox, top, pipeVars, rows>>
  BY DEF AnswerSnapshot
<1> HIDE DEF s
<1>4. snap' \in [Exchanges -> Snaps]
  BY <1>1, <1>2, <1>3, SnapIsTyped
<1>5. BookInv'
  BY <1>1, <1>3, <1>4 DEF BookInv
<1> QED  BY <1>3, <1>5, SamePipeline

LEMMA ApplySnapshotStep ==
    ASSUME PipelineInv, NEW ex \in Exchanges, ApplySnapshot(ex)
    PROVE  PipelineInv'
<1> DEFINE d == [seq |-> snap[ex].seq, prev |-> -1, quote |-> snap[ex].quote, at |-> snap[ex].at]
<1> DEFINE t == NewTop(ex, d, now)
<1>1. BookInv /\ now \in Times /\ now \in Nat
  BY NowIsNat DEF PipelineInv
<1>2. snap[ex].seq \in Nat /\ snap[ex].quote \in Quotes
  <2>1. snap[ex] \in Snaps /\ snap[ex].stage = "answered"
    BY <1>1 DEF BookInv, ApplySnapshot
  <2>2. snap[ex] \in [stage : {"answered"}, seq : Nat, quote : Quotes, at : Times]
    BY <2>1 DEF Snaps, NoSnap
  <2> QED  BY <2>2
<1>3. /\ top' = [top EXCEPT ![ex] = <<t>>]
      /\ snap' = [snap EXCEPT ![ex] = NoSnap]
      /\ UNCHANGED <<now, assigned, market, inbox, pipeVars, rows>>
  BY DEF ApplySnapshot
<1>4. d.seq = snap[ex].seq /\ d.quote = snap[ex].quote
  OBVIOUS
<1> HIDE DEF d
<1>5. t \in Tops /\ t.at <= now
  BY <1>1, <1>2, <1>4, FlagsType DEF NewTop, Tops
<1> HIDE DEF t
<1>6. /\ top' \in [Exchanges -> OneOf(Tops)]
      /\ \A x \in Exchanges : top'[x] # <<>> => top'[x][1].at <= now
  BY <1>1, <1>3, <1>5, NewTopIsPast
<1>7. snap' \in [Exchanges -> Snaps]
  <2>1. NoSnap \in Snaps
    BY DEF Snaps
  <2> QED  BY <1>1, <1>3, <2>1, SnapIsTyped
<1>8. BookInv'
  BY <1>1, <1>3, <1>6, <1>7 DEF BookInv
<1> QED  BY <1>3, <1>8, SamePipeline

LEMMA FailSnapshotStep ==
    ASSUME PipelineInv, NEW ex \in Exchanges, FailSnapshot(ex)
    PROVE  PipelineInv'
<1>1. /\ snap' = [snap EXCEPT ![ex] = NoSnap]
      /\ UNCHANGED <<now, assigned, market, inbox, top, pipeVars, rows>>
  BY DEF FailSnapshot
<1>2. BookInv /\ NoSnap \in Snaps
  BY DEF PipelineInv, Snaps
<1>3. snap' \in [Exchanges -> Snaps]
  BY <1>1, <1>2, SnapIsTyped
<1>4. BookInv'
  BY <1>1, <1>2, <1>3 DEF BookInv
<1> QED  BY <1>1, <1>4, SamePipeline

(* An insert that ends has written the row of its bucket, or its bucket is  *)
(* forgotten unless a later one is marked.                                  *)
LEMMA InsertEnds ==
    ASSUME PipelineInv, NEW i \in 1 .. Len(inserts), inserts' = Rest(i),
           \/ rows' = [rows EXCEPT ![inserts[i]] = rows[inserts[i]] + 1] /\ marked' = marked
           \/ rows' = rows /\ marked' = Unmarked(inserts[i])
           \/ /\ rows' = [rows EXCEPT ![inserts[i]] = rows[inserts[i]] + 1]
              /\ marked' = Unmarked(inserts[i]),
           UNCHANGED <<now, assigned, bookVars, lastSig, window, published>>
    PROVE  PipelineInv'
<1>1. /\ BookInv /\ RateInv /\ Len(lastSig) <= 1
      /\ inserts \in Seq(Nat) /\ rows \in [Times -> Nat] /\ MarkedBucketIsCovered
      /\ marked \in -1 .. now /\ DbLimit \in Nat /\ MaxTime \in Nat
      /\ now \in Times /\ now \in Nat
  BY PipelineAssumption, NowIsNat DEF PipelineInv, InsertInv
<1>2. /\ Len(inserts) \in Nat /\ Len(inserts) <= DbLimit
      /\ \A k \in 1 .. Len(inserts) : inserts[k] \in Times /\ inserts[k] <= now
  <2>1. Len(inserts) \in Nat /\ \A k \in 1 .. Len(inserts) : inserts[k] \in Nat
    BY <1>1, LenProperties, ElementOfSeq
  <2>2. Len(inserts) <= DbLimit /\ \A k \in 1 .. Len(inserts) : inserts[k] <= now
    BY DEF PipelineInv, InsertInv
  <2> QED  BY <1>1, <2>1, <2>2 DEF Times
<1>3. /\ inserts' \in Seq(Nat) /\ Len(inserts') = Len(inserts) - 1
      /\ \A j \in 1 .. Len(inserts') : inserts'[j] = inserts[IF j < i THEN j ELSE j + 1]
  BY <1>1, RestKeepsOthers
<1>4. \A j \in 1 .. Len(inserts') : inserts'[j] <= now
  <2> SUFFICES ASSUME NEW j \in 1 .. Len(inserts') PROVE inserts'[j] <= now
    OBVIOUS
  <2>1. (IF j < i THEN j ELSE j + 1) \in 1 .. Len(inserts)
    BY <1>2, <1>3
  <2> QED  BY <1>2, <1>3, <2>1
<1>5. marked' = marked \/ (marked' = -1 /\ marked = inserts[i])
  BY DEF Unmarked
<1>6. /\ rows' \in [Times -> Nat]
      /\ \A b \in Times : rows[b] > 0 => rows'[b] > 0
      /\ marked' = inserts[i] => rows'[inserts[i]] > 0
  <2>1. inserts[i] \in Times /\ inserts[i] # -1
    BY <1>2 DEF Times
  <2>2. CASE rows' = [rows EXCEPT ![inserts[i]] = rows[inserts[i]] + 1]
    BY <1>1, <2>1, <2>2
  <2>3. CASE rows' = rows /\ marked' = Unmarked(inserts[i])
    BY <1>1, <2>1, <2>3 DEF Unmarked
  <2> QED  BY <2>2, <2>3
<1>7. MarkedBucketIsCovered'
  <2> SUFFICES ASSUME marked' # -1
               PROVE  rows'[marked'] > 0 \/ \E k \in DOMAIN inserts' : inserts'[k] = marked'
    BY DEF MarkedBucketIsCovered
  <2>1. marked' = marked /\ marked # -1 /\ marked \in Times
    BY <1>1, <1>5 DEF Times
  <2>2. CASE rows[marked] > 0
    BY <1>6, <2>1, <2>2
  <2>3. CASE marked = inserts[i]
    BY <1>6, <2>1, <2>3
  <2>4. CASE marked # inserts[i] /\ \E k \in DOMAIN inserts : inserts[k] = marked
    <3>1. \E k \in DOMAIN Rest(i) : Rest(i)[k] = marked
      BY <1>1, <2>4, OthersStay
    <3> QED  BY <2>1, <3>1
  <2> QED  BY <1>1, <2>1, <2>2, <2>3, <2>4 DEF MarkedBucketIsCovered
<1>8. InsertInv'
  <2>1. marked' \in -1 .. now' /\ Len(inserts') <= DbLimit /\ now' = now
    BY <1>1, <1>2, <1>3, <1>5
  <2> QED  BY <1>3, <1>4, <1>6, <1>7, <2>1 DEF InsertInv
<1>9. BookInv'
  BY <1>1, SameBooks DEF BookInv
<1>10. RateInv'
  BY <1>1 DEF RateInv, InWindow
<1> QED  BY <1>1, <1>8, <1>9, <1>10 DEF PipelineInv

LEMMA InsertStep ==
    ASSUME PipelineInv, NEW i \in DOMAIN inserts,
           InsertDone(i) \/ InsertFailed(i) \/ InsertTimedOut(i)
    PROVE  PipelineInv'
<1>1. i \in 1 .. Len(inserts)
  <2>1. inserts \in Seq(Nat)
    BY DEF PipelineInv, InsertInv
  <2> QED  BY <2>1, LenProperties
<1>2. CASE InsertDone(i)
  BY <1>1, <1>2, InsertEnds DEF InsertDone
<1>3. CASE InsertFailed(i)
  BY <1>1, <1>3, InsertEnds DEF InsertFailed
<1>4. CASE InsertTimedOut(i)
  BY <1>1, <1>4, InsertEnds DEF InsertTimedOut
<1> QED  BY <1>2, <1>3, <1>4

LEMMA UnassignStep ==
    ASSUME PipelineInv, Unassign
    PROVE  PipelineInv'
<1>1. /\ assigned' = FALSE /\ lastSig' = <<>> /\ window' = [sec |-> -1, count |-> 0]
      /\ marked' = -1 /\ published' = 0
      /\ UNCHANGED <<now, bookVars, inserts, rows>>
  BY DEF Unassign, NoWindow
<1>2. now \in Nat /\ MaxPerSec \in Nat
  BY PipelineAssumption, NowIsNat DEF PipelineInv
<1>3. BookInv'
  BY <1>1, SameBooks DEF PipelineInv
<1>4. RateInv'
  BY <1>1, <1>2 DEF RateInv, InWindow
<1>5. InsertInv'
  BY <1>1, <1>2 DEF PipelineInv, InsertInv, MarkedBucketIsCovered
<1> QED  BY <1>1, <1>3, <1>4, <1>5 DEF PipelineInv

LEMMA AssignStep ==
    ASSUME PipelineInv, Assign
    PROVE  PipelineInv'
<1>1. BookInv'
  BY SameBooks DEF PipelineInv, Assign
<1> QED  BY <1>1, SamePipeline DEF Assign

LEMMA InvIsKept ==
    ASSUME PipelineInv, [PipelineNext]_workerVars
    PROVE  PipelineInv'
<1>1. CASE UNCHANGED workerVars
  <2>1. UNCHANGED <<now, assigned, bookVars, pipeVars, rows>>
    BY <1>1 DEF workerVars
  <2>2. BookInv'
    BY <2>1, SameBooks DEF PipelineInv, BookInv
  <2> QED  BY <2>1, <2>2, SamePipeline
<1>2. CASE Tick
  BY <1>2, TickStep
<1>3. CASE Unassign
  BY <1>3, UnassignStep
<1>4. CASE Assign
  BY <1>4, AssignStep
<1>5. CASE Finished
  BY <1>1, <1>5 DEF Finished
<1>6. ASSUME NEW ex \in Exchanges,
             \/ Consume(ex) \/ AnswerSnapshot(ex) \/ ApplySnapshot(ex) \/ FailSnapshot(ex)
             \/ \E q \in Quotes : Update(ex, q)
      PROVE  PipelineInv'
  BY <1>6, ConsumeStep, AnswerSnapshotStep, ApplySnapshotStep, FailSnapshotStep, UpdateStep
<1>7. ASSUME NEW i \in DOMAIN inserts,
             InsertDone(i) \/ InsertFailed(i) \/ InsertTimedOut(i)
      PROVE  PipelineInv'
  BY <1>7, InsertStep
<1> QED  BY <1>1, <1>2, <1>3, <1>4, <1>5, <1>6, <1>7 DEF PipelineNext

-----------------------------------------------------------------------------
(* The books, the rate and the sampling stay in order for any limits.       *)
THEOREM PipelineInvariant == PipelineSpec => []PipelineInv
BY InvHolds, InvIsKept, PTL DEF PipelineSpec

(* Neither a failing, slow or refused insert nor a symbol that goes and     *)
(* comes back makes monitorWorker.ts keep a bucket marked that has no row   *)
(* and no insert under way, whatever the limit of inserts in flight.        *)
THEOREM MarkedBucketIsCoveredTheorem == PipelineSpec => []MarkedBucketIsCovered
<1>1. PipelineInv => MarkedBucketIsCovered
  BY DEF PipelineInv, InsertInv
<1> QED  BY <1>1, PipelineInvariant, PTL

(* Types and bounds: whatever the limit is, NATS gets no more than          *)
(* MAX_PUBLISH_PER_SEC_PER_PAIR events of a symbol in a second of the clock *)
(* since the symbol was assigned, and no more inserts are in flight than    *)
(* dbLimiter accepts.                                                       *)
THEOREM TypeOKTheorem == PipelineSpec => []PipelineTypeOK
<1>1. ASSUME PipelineInv PROVE PipelineTypeOK
  <2>1. BookInv /\ RateInv /\ InsertInv /\ Len(lastSig) <= 1
    BY <1>1 DEF PipelineInv
  <2>2. MaxPerSec \in Nat
    BY PipelineAssumption
  <2>3. \A ex \in Exchanges : Len(inbox[ex]) <= 1 /\ Len(top[ex]) <= 1
    <3> TAKE ex \in Exchanges
    <3>1. inbox[ex] \in OneOf(Deltas) /\ top[ex] \in OneOf(Tops)
      BY <2>1 DEF BookInv
    <3>2. inbox[ex] = <<>> \/ \E d \in Deltas : inbox[ex] = <<d>>
      BY <3>1 DEF OneOf
    <3>3. top[ex] = <<>> \/ \E t \in Tops : top[ex] = <<t>>
      BY <3>1 DEF OneOf
    <3>4. Len(<<>>) = 0 /\ \A x : Len(<<x>>) = 1
      OBVIOUS
    <3>5. Len(inbox[ex]) = 0 \/ Len(inbox[ex]) = 1
      BY <3>2, <3>4, Zenon
    <3>6. Len(top[ex]) = 0 \/ Len(top[ex]) = 1
      BY <3>3, <3>4, Zenon
    <3>7. \A n : n = 0 \/ n = 1 => n <= 1
      OBVIOUS
    <3> QED  BY <3>5, <3>6, <3>7, Zenon
  <2>4. \A ex \in Exchanges : snap[ex].stage \in {"none", "sent", "answered"}
    <3> TAKE ex \in Exchanges
    <3>1. snap[ex] \in Snaps
      BY <2>1 DEF BookInv
    <3> QED  BY <3>1 DEF Snaps, NoSnap
  <2>5. window.sec \in -1 .. now /\ window.count \in 0 .. MaxPerSec
    BY <2>1, <2>2 DEF RateInv, BookInv, Times
  <2>6. published \in 0 .. MaxPerSec
    BY <2>1, <2>2 DEF RateInv
  <2>7. \A i \in DOMAIN inserts : inserts[i] \in 0 .. now
    <3>1. inserts \in Seq(Nat) /\ \A i \in 1 .. Len(inserts) : inserts[i] <= now
      BY <2>1 DEF InsertInv
    <3>2. DOMAIN inserts = 1 .. Len(inserts) /\ \A i \in 1 .. Len(inserts) : inserts[i] \in Nat
      BY <3>1, LenProperties, ElementOfSeq
    <3>3. now \in Nat
      BY <2>1, NowIsNat
    <3> QED  BY <3>1, <3>2, <3>3
  <2> QED  BY <2>1, <2>3, <2>4, <2>5, <2>6, <2>7 DEF PipelineTypeOK, BookInv, InsertInv, Times
<1> QED  BY <1>1, PipelineInvariant, PTL

=============================================================================
