--------------------------- MODULE MonitorPipeline ---------------------------
(***************************************************************************)
(* One worker of the monitor for one symbol on two exchanges: the queue of *)
(* each connector, the top-of-book store, the snapshot recovery, and the   *)
(* event pipeline of monitorWorker.ts - threshold, duplicate filter, rate  *)
(* limit, NATS publication and sampled, limited database inserts.          *)
(*                                                                         *)
(* The handling of one delta has no await in it, so it is one action; the  *)
(* snapshot requests and the inserts run in the background.                *)
(*                                                                         *)
(* Abstractions.  Time is counted in seconds, and a sampling bucket of the *)
(* database is one second as well (the default).  The bid and ask of an    *)
(* exchange are one quote; bps and validity are functions of the quotes.   *)
(* The symbol is the key of every map, so a map holds one value or none,   *)
(* and the conflating queue of a connector holds one delta or none.        *)
(***************************************************************************)
EXTENDS Integers, Sequences, FiniteSets

CONSTANTS
    Sequenced,  \* the exchanges whose deltas carry prevSeq
    Quotes,     \* what an exchange may quote
    Narrow,     \* pairs of quotes whose spreads are below minBpsAbs
    MaxSeq,     \* bound: updates of each exchange
    MaxTime,    \* bound: seconds
    StaleLimit, \* STALE_MS_LIMIT, in seconds
    MaxPerSec,  \* MAX_PUBLISH_PER_SEC_PER_PAIR
    DbLimit,    \* inserts in flight that dbLimiter accepts
    Reassigns,  \* the main thread may take the symbol away and give it back
    Failures      \* what may go wrong

Exchanges == {"binance", "okx"}

ASSUME PipelineAssumption ==
    /\ Sequenced \subseteq Exchanges /\ Narrow \subseteq Quotes \X Quotes
    /\ MaxSeq \in Nat /\ MaxTime \in Nat /\ StaleLimit \in Nat
    /\ MaxPerSec \in Nat \ {0} /\ DbLimit \in Nat \ {0} /\ Reassigns \in BOOLEAN
    /\ Failures \subseteq {"update lost", "snapshot failed", "insert failed", "insert timed out"}

VARIABLES
    now,       \* the second of the clock
    assigned,  \* the symbol is among the worker's symbols
    market,    \* the book of each exchange: number and contents of its last update
    inbox,     \* the queue of each connector: <<>> or one delta
    top,       \* TopOfBookStore: <<>> or one top
    snap,      \* snapshotInFlight, and the answer on its way
    lastSig,   \* lastPublishedSignatureByPair: <<>> or one signature
    window,    \* publishWindowByPair: second and count
    marked,    \* persistedDbBucketByPair: the bucket, or -1
    inserts,   \* buckets of the inserts in flight
    rows,      \* the table: rows of each bucket
    published  \* how many NATS got in this second since the symbol was assigned

bookVars == <<market, inbox, top, snap>>
pipeVars == <<lastSig, window, marked, inserts, published>>
workerVars == <<now, assigned, bookVars, pipeVars, rows>>

NoSnap == [stage |-> "none"]
NoWindow == [sec |-> -1, count |-> 0]

PipelineInit ==
    /\ now = 0 /\ assigned = TRUE
    /\ \E q \in Quotes : market = [ex \in Exchanges |-> [seq |-> 0, quote |-> q]]
    /\ inbox = [ex \in Exchanges |-> <<>>] /\ top = [ex \in Exchanges |-> <<>>]
    /\ snap = [ex \in Exchanges |-> NoSnap]
    /\ lastSig = <<>> /\ window = NoWindow /\ marked = -1 /\ inserts = <<>>
    /\ rows = [b \in 0 .. MaxTime |-> 0]
    /\ published = 0

-----------------------------------------------------------------------------
(* The exchanges and the clock. *)

Tick ==
    /\ now < MaxTime
    /\ now' = now + 1
    /\ published' = 0
    /\ UNCHANGED <<assigned, bookVars, lastSig, window, marked, inserts, rows>>

(* An update: the connector queues it, in the place of one that has not     *)
(* been consumed yet; while the socket is down it is lost.                  *)
Update(ex, q) ==
    /\ market[ex].seq < MaxSeq
    /\ market' = [market EXCEPT ![ex] = [seq |-> @.seq + 1, quote |-> q]]
    /\ \/ /\ assigned
          /\ inbox' = [inbox EXCEPT ![ex] =
                         <<[seq |-> market[ex].seq + 1, prev |-> market[ex].seq,
                            quote |-> q, at |-> now]>>]
       \/ /\ "update lost" \in Failures \/ ~ assigned
          /\ UNCHANGED inbox
    /\ UNCHANGED <<now, assigned, top, snap, pipeVars, rows>>

-----------------------------------------------------------------------------
(* TopOfBookStore.upsert: the delta replaces the top whatever its flags.    *)

Flags(ex, d) ==
    (IF top[ex] # <<>> /\ d.seq <= top[ex][1].seq THEN {"out_of_order"} ELSE {})
    \union (IF top[ex] # <<>> /\ d.prev # -1 /\ d.prev # top[ex][1].seq
            THEN {"seq_gap"} ELSE {})
    \union (IF now - d.at > StaleLimit THEN {"stale"} ELSE {})

NewTop(ex, d, at) ==
    [seq |-> d.seq, quote |-> d.quote, at |-> at, flags |-> Flags(ex, d)]

Ahead(b1, b2) == IF b1 > b2 THEN b1 ELSE b2

(* DefaultSpreadCalculator.compute, as far as the pipeline looks into it.   *)
Event(tops) ==
    LET a == tops["binance"][1]
        b == tops["okx"][1]
    IN  [sig |-> <<a.quote, b.quote, a.flags \union b.flags>>, bucket |-> Ahead(a.at, b.at)]

-----------------------------------------------------------------------------
(* pipelineEvent, in the order of its early returns. *)

BelowThreshold(e) == <<e.sig[1], e.sig[2]>> \in Narrow
Duplicate(e) == lastSig = <<e.sig>>
InWindow == window.sec = now

(* Mutant: the limit is checked one publication late. *)
LimitedLate == InWindow /\ window.count > MaxPerSec
RateLimited == InWindow /\ window.count >= MaxPerSec

(* Mutant: a bucket refused by the limiter stays marked. *)
PersistKeepsMark(e) ==
    IF marked = e.bucket THEN UNCHANGED <<marked, inserts>>
    ELSE /\ marked' = e.bucket
         /\ inserts' = IF Len(inserts) < DbLimit THEN Append(inserts, e.bucket) ELSE inserts

(* planDbPersist and dbLimiter: the first event of a bucket is inserted; a  *)
(* bucket whose insert is refused is forgotten.                             *)
Persist(e) ==
    IF marked = e.bucket THEN UNCHANGED <<marked, inserts>>
    ELSE IF Len(inserts) < DbLimit
         THEN marked' = e.bucket /\ inserts' = Append(inserts, e.bucket)
         ELSE marked' = -1 /\ UNCHANGED inserts

(* The signature is recorded before the rate limit is looked at.            *)
Pipeline(e) ==
    IF BelowThreshold(e) \/ Duplicate(e) THEN UNCHANGED pipeVars
    ELSE /\ lastSig' = <<e.sig>>
         /\ IF RateLimited THEN UNCHANGED <<window, marked, inserts, published>>
            ELSE /\ window' = IF InWindow THEN [window EXCEPT !.count = @ + 1]
                              ELSE [sec |-> now, count |-> 1]
                 /\ published' = published + 1
                 /\ Persist(e)

(* handleDelta: the top is replaced; a gap starts a recovery unless one is  *)
(* in flight; with both tops known an event goes through the pipeline.      *)
Consume(ex) ==
    /\ inbox[ex] # <<>>
    /\ LET sent == inbox[ex][1]
           d == [sent EXCEPT !.prev = IF ex \in Sequenced THEN @ ELSE -1]
       IN  /\ top' = [top EXCEPT ![ex] = <<NewTop(ex, d, d.at)>>]
           /\ snap' = IF "seq_gap" \in Flags(ex, d) /\ snap[ex] = NoSnap
                      THEN [snap EXCEPT ![ex] = [stage |-> "sent"]] ELSE snap
    /\ inbox' = [inbox EXCEPT ![ex] = <<>>]
    /\ IF \A x \in Exchanges : top'[x] # <<>> THEN Pipeline(Event(top')) ELSE UNCHANGED pipeVars
    /\ UNCHANGED <<now, assigned, market, rows>>

-----------------------------------------------------------------------------
(* recoverSnapshot: answered by the exchange, applied later; it makes no    *)
(* event of its own.                                                        *)

AnswerSnapshot(ex) ==
    /\ snap[ex].stage = "sent"
    /\ snap' = [snap EXCEPT ![ex] = [stage |-> "answered", seq |-> market[ex].seq,
                                     quote |-> market[ex].quote, at |-> now]]
    /\ UNCHANGED <<now, assigned, market, inbox, top, pipeVars, rows>>

ApplySnapshot(ex) ==
    /\ snap[ex].stage = "answered"
    /\ top' = [top EXCEPT ![ex] =
                 <<NewTop(ex, [seq |-> snap[ex].seq, prev |-> -1, quote |-> snap[ex].quote,
                               at |-> snap[ex].at], now)>>]
    /\ snap' = [snap EXCEPT ![ex] = NoSnap]
    /\ UNCHANGED <<now, assigned, market, inbox, pipeVars, rows>>

FailSnapshot(ex) ==
    /\ snap[ex] # NoSnap /\ "snapshot failed" \in Failures
    /\ snap' = [snap EXCEPT ![ex] = NoSnap]
    /\ UNCHANGED <<now, assigned, market, inbox, top, pipeVars, rows>>

-----------------------------------------------------------------------------
(* The inserts. *)

Rest(i) == SubSeq(inserts, 1, i - 1) \o SubSeq(inserts, i + 1, Len(inserts))

(* The bucket of a failed insert is forgotten, unless a later one is marked.*)
Unmarked(b) == IF marked = b THEN -1 ELSE marked

InsertDone(i) ==
    /\ rows' = [rows EXCEPT ![inserts[i]] = @ + 1]
    /\ inserts' = Rest(i)
    /\ UNCHANGED <<now, assigned, bookVars, lastSig, window, marked, published>>

InsertFailed(i) ==
    /\ "insert failed" \in Failures
    /\ marked' = Unmarked(inserts[i])
    /\ inserts' = Rest(i)
    /\ UNCHANGED <<now, assigned, bookVars, lastSig, window, published, rows>>

(* withTimeout gives up on the query, which writes its row all the same.    *)
InsertTimedOut(i) ==
    /\ "insert timed out" \in Failures
    /\ marked' = Unmarked(inserts[i])
    /\ rows' = [rows EXCEPT ![inserts[i]] = @ + 1]
    /\ inserts' = Rest(i)
    /\ UNCHANGED <<now, assigned, bookVars, lastSig, window, published>>

-----------------------------------------------------------------------------
(* applyConfig: without the symbol the maps of the pipeline forget it and   *)
(* the connectors are closed; tops and requests in flight stay.             *)

Unassign ==
    /\ Reassigns /\ assigned
    /\ assigned' = FALSE
    /\ lastSig' = <<>> /\ window' = NoWindow /\ marked' = -1
    /\ published' = 0
    /\ UNCHANGED <<now, bookVars, inserts, rows>>

Assign ==
    /\ ~ assigned
    /\ assigned' = TRUE
    /\ UNCHANGED <<now, bookVars, pipeVars, rows>>

(* Time is up and nothing is in flight. *)
Finished ==
    /\ now = MaxTime /\ inserts = <<>> /\ inbox = [ex \in Exchanges |-> <<>>]
    /\ \A ex \in Exchanges : market[ex].seq = MaxSeq /\ snap[ex] = NoSnap
    /\ UNCHANGED workerVars

PipelineNext ==
    \/ Tick \/ Unassign \/ Assign \/ Finished
    \/ \E ex \in Exchanges :
         \/ Consume(ex) \/ AnswerSnapshot(ex) \/ ApplySnapshot(ex) \/ FailSnapshot(ex)
         \/ \E q \in Quotes : Update(ex, q)
    \/ \E i \in DOMAIN inserts : InsertDone(i) \/ InsertFailed(i) \/ InsertTimedOut(i)

PipelineSpec == PipelineInit /\ [][PipelineNext]_workerVars

-----------------------------------------------------------------------------
(* Types and bounds; published, which counts what NATS got in the second of *)
(* the clock since the symbol was assigned, is bounded although RateLimited *)
(* reads another counter: the pipeline's own window, which begins with the  *)
(* first event it lets through.  A symbol that is taken away and given back *)
(* in one second begins anew.                                               *)
PipelineTypeOK ==
    /\ now \in 0 .. MaxTime /\ assigned \in BOOLEAN
    /\ market \in [Exchanges -> [seq : 0 .. MaxSeq, quote : Quotes]]
    /\ \A ex \in Exchanges : Len(inbox[ex]) <= 1 /\ Len(top[ex]) <= 1
    /\ \A ex \in Exchanges : snap[ex].stage \in {"none", "sent", "answered"}
    /\ Len(lastSig) <= 1
    /\ window.sec \in -1 .. now /\ window.count \in 0 .. MaxPerSec
    /\ published \in 0 .. MaxPerSec
    /\ marked \in -1 .. now
    /\ Len(inserts) <= DbLimit /\ \A i \in DOMAIN inserts : inserts[i] \in 0 .. now
    /\ rows \in [0 .. MaxTime -> Nat]

(* The bucket that is marked as persisted has a row, or an insert that may  *)
(* still write it: a failing insert and a full limiter take the mark away,  *)
(* so that the next event of the bucket stores it.  An earlier bucket whose *)
(* insert fails when a later one is marked stays without a row.             *)
MarkedBucketIsCovered ==
    marked # -1 => rows[marked] > 0 \/ \E i \in DOMAIN inserts : inserts[i] = marked
=============================================================================
