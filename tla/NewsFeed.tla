------------------------------ MODULE NewsFeed ------------------------------
(***************************************************************************)
(* The news feed (apps/news-feed): BweNewsSource follows one publisher on  *)
(* two ways at once - a WebSocket that is re-opened whenever it closes, and*)
(* HTTP polls, one at the start and then one per interval while the socket *)
(* is down or silent - and index.ts turns what it emits into alerts.       *)
(* Nothing orders the two ways, polls overlap, and a fetch has no time-out:*)
(* a ring of keys is all that keeps an item from being fired twice.        *)
(*                                                                         *)
(* Abstractions.  Items are numbered in the order the publisher puts them  *)
(* out; title and link of an item are its number, and are the same on both *)
(* ways.  Time is the second of the clock.  lastMessageAtMs is what its    *)
(* one reader asks of it: has the socket been silent for wsStaleMs.        *)
(***************************************************************************)
EXTENDS Integers, SequencesExt, ArrayFilter

CONSTANTS
    Stamp,      \* the second each item carries, a sequence in order of publication
    Undated,    \* items without a time stamp that can be read
    Untitled,   \* items without a title
    Watched,    \* items with a coin of WATCH_COINS, or with none
    ListLength, \* items that one HTTP answer holds
    MaxSeen,    \* maxSeen, 500 in the code
    MaxSecond,  \* bound: the clock
    NewsPolls,  \* bound: HTTP polls in flight at a time
    NewsFaults  \* what may go wrong

NewsItems == 1 .. Len(Stamp)

ASSUME NewsAssumption ==
    /\ Stamp \in Seq(Nat)
    /\ \A i, j \in NewsItems : i <= j => Stamp[i] <= Stamp[j]
    /\ Undated \subseteq NewsItems /\ Untitled \subseteq NewsItems /\ Watched \subseteq NewsItems
    /\ ListLength \in Nat \ {0} /\ MaxSeen \in Nat \ {0} /\ MaxSecond \in Nat
    /\ NewsFaults \subseteq {"socket lost", "message lost", "poll failed"}

VARIABLES
    second,     \* the clock
    published,  \* how many items are out
    socket,     \* connecting, open, waiting (reconnectTimer armed) or gone
    newsWire,   \* items under way on the open socket
    silent,     \* no message for wsStaleMs
    poll,       \* the polls in flight
    seenKeys,   \* the set of keys ...
    seenQueue,  \* ... and the order they came in
    lastEmitted,\* lastEmittedTsSec
    fired,      \* history: what onEvent got
    stopped     \* closed

ringVars == <<seenKeys, seenQueue, lastEmitted, fired>>
newsVars == <<second, published, socket, newsWire, silent, poll, ringVars, stopped>>

NoPoll == [mode |-> "none", list |-> <<>>]
Sent(mode) == [mode |-> mode, list |-> <<>>]

(* start(): the socket is opened and the bootstrap poll is under way.       *)
NewsInit ==
    /\ second = 0 /\ published = 0
    /\ socket = "connecting" /\ newsWire = <<>> /\ silent = TRUE
    /\ LET first == CHOOSE p \in NewsPolls : TRUE
       IN  poll = [p \in NewsPolls |-> IF p = first THEN Sent("bootstrap") ELSE NoPoll]
    /\ seenKeys = {} /\ seenQueue = <<>> /\ lastEmitted = 0 /\ fired = <<>>
    /\ stopped = FALSE

-----------------------------------------------------------------------------
(* The publisher and the clock. *)

NewsTick ==
    /\ second < MaxSecond
    /\ second' = second + 1
    /\ UNCHANGED <<published, socket, newsWire, silent, poll, ringVars, stopped>>

(* An item is out when its second has come; an open socket carries it.      *)
Release ==
    /\ published < Len(Stamp) /\ Stamp[published + 1] <= second
    /\ published' = published + 1
    /\ \/ socket = "open" /\ newsWire' = Append(newsWire, published')
       \/ (socket # "open" \/ "message lost" \in NewsFaults) /\ UNCHANGED newsWire
    /\ UNCHANGED <<second, socket, silent, poll, ringVars, stopped>>

-----------------------------------------------------------------------------
(* From an item to an event. *)

(* A stamp that is missing or cannot be parsed becomes the time of reading. *)
TimestampAt(i, now) == IF i \in Undated THEN now ELSE Stamp[i]

Readable(i) == i \notin Untitled

EventOf(i, now) == [item |-> i, ts |-> TimestampAt(i, now)]

(* Mutant: the key holds the time of reading. *)
KeyByReading(e) == <<e.ts, e.item, second>>

Key(e) == <<e.ts, e.item>>

Dropped(queue) == {queue[k] : k \in 1 .. Len(queue) - MaxSeen}

(* emitIfNew for one event after the other.  They have different keys, and  *)
(* none drops the key of another: they are all newer than any key, or one.  *)
(* A key is entered before onEvent is called; the oldest leaves both.       *)
Emit(events) ==
    \E fresh \in {Filter(events, {e \in ToSet(events) : Key(e) \notin seenKeys})} :
    \E queue \in {seenQueue \o [k \in DOMAIN fresh |-> Key(fresh[k])]} :
    LET excess == Len(queue) - MaxSeen
    IN  /\ seenKeys' = (seenKeys \union ToSet(queue)) \ Dropped(queue)
        /\ seenQueue' = IF excess > 0 THEN SubSeq(queue, excess + 1, Len(queue)) ELSE queue
        /\ lastEmitted' = Max({lastEmitted} \union {fresh[k].ts : k \in DOMAIN fresh})
        /\ fired' = fired \o [k \in DOMAIN fresh |-> fresh[k].item]

-----------------------------------------------------------------------------
(* The socket. *)

SocketOpens ==
    /\ socket = "connecting"
    /\ socket' = "open"
    /\ UNCHANGED <<second, published, newsWire, silent, poll, ringVars, stopped>>

(* A message counts as a sign of life whatever it holds.                    *)
Receive ==
    /\ socket = "open" /\ newsWire # <<>>
    /\ newsWire' = Tail(newsWire)
    /\ silent' = FALSE
    /\ IF Readable(Head(newsWire)) THEN Emit(<<EventOf(Head(newsWire), second)>>)
       ELSE UNCHANGED ringVars
    /\ UNCHANGED <<second, published, socket, poll, stopped>>

(* The "close" event of a socket, open or not: scheduleReconnect.           *)
SocketLost ==
    /\ socket \in {"connecting", "open"} /\ "socket lost" \in NewsFaults
    /\ socket' = "waiting" /\ newsWire' = <<>>
    /\ UNCHANGED <<second, published, silent, poll, ringVars, stopped>>

Reopen ==
    /\ socket = "waiting"
    /\ socket' = "connecting"
    /\ UNCHANGED <<second, published, newsWire, silent, poll, ringVars, stopped>>

FallSilent ==
    /\ ~ silent
    /\ silent' = TRUE
    /\ UNCHANGED <<second, published, socket, newsWire, poll, ringVars, stopped>>

-----------------------------------------------------------------------------
(* The polls. *)

(* Mutant: an open socket is never doubted. *)
PollOnlyIfDown(p) ==
    /\ poll[p] = NoPoll /\ ~ stopped /\ socket # "open"
    /\ poll' = [poll EXCEPT ![p] = Sent("fallback")]
    /\ UNCHANGED <<second, published, socket, newsWire, silent, ringVars, stopped>>

(* The interval: a fallback poll unless the socket is open and talking.     *)
PollBegins(p) ==
    /\ poll[p] = NoPoll /\ ~ stopped
    /\ socket # "open" \/ silent
    /\ poll' = [poll EXCEPT ![p] = Sent("fallback")]
    /\ UNCHANGED <<second, published, socket, newsWire, silent, ringVars, stopped>>

(* The server lists its latest items, the newest first.                     *)
Listed == [k \in 1 .. (IF published < ListLength THEN published ELSE ListLength)
              |-> published + 1 - k]

PollIsAnswered(p) ==
    /\ poll[p].mode \in {"bootstrap", "fallback"} /\ poll[p].list = <<>> /\ published > 0
    /\ poll' = [poll EXCEPT ![p].list = Listed]
    /\ UNCHANGED <<second, published, socket, newsWire, silent, ringVars, stopped>>

(* extractEvents: what can be read of the list, by time stamp; equal ones   *)
(* keep the order of the list.                                              *)
Found(list) == Filter(list, {i \in NewsItems : Readable(i)})

Extracted(found) ==
    LET ts == [k \in DOMAIN found |-> TimestampAt(found[k], second)]
        Before(k) == {j \in DOMAIN found : ts[j] < ts[k] \/ (ts[j] = ts[k] /\ j < k)}
    IN  [n \in DOMAIN found |->
            EventOf(found[CHOOSE k \in DOMAIN found : Cardinality(Before(k)) = n - 1], second)]

(* selectEventsToEmit: a bootstrap takes the last event, a fallback what is *)
(* newer than the last one emitted, and for want of that the last one too.  *)
Selected(events, mode) ==
    LET newer == Filter(events, {e \in ToSet(events) : e.ts > lastEmitted})
    IN  IF events = <<>> THEN <<>>
        ELSE IF mode = "fallback" /\ newer # <<>> THEN newer ELSE <<events[Len(events)]>>

(* Nothing asks whether the source was closed in the meantime.              *)
PollIsApplied(p) ==
    /\ poll[p].list # <<>>
    /\ \E found \in {Found(poll[p].list)} : \E events \in {Extracted(found)} :
          \E chosen \in {Selected(events, poll[p].mode)} : Emit(chosen)
    /\ poll' = [poll EXCEPT ![p] = NoPoll]
    /\ UNCHANGED <<second, published, socket, newsWire, silent, stopped>>

(* No answer, an empty list, a status that is not ok, or a body that is     *)
(* neither JSON nor XML.                                                    *)
PollFails(p) ==
    /\ poll[p] # NoPoll /\ poll[p].list = <<>>
    /\ ("poll failed" \in NewsFaults \/ published = 0)
    /\ poll' = [poll EXCEPT ![p] = NoPoll]
    /\ UNCHANGED <<second, published, socket, newsWire, silent, ringVars, stopped>>

(* close(): timers and socket go, polls in flight stay.                     *)
CloseNews ==
    /\ ~ stopped
    /\ stopped' = TRUE
    /\ socket' = "gone" /\ newsWire' = <<>>
    /\ UNCHANGED <<second, published, silent, poll, ringVars>>

NewsNext ==
    \/ NewsTick \/ Release
    \/ SocketOpens \/ Receive \/ SocketLost \/ Reopen \/ FallSilent \/ CloseNews
    \/ \E p \in NewsPolls :
         PollBegins(p) \/ PollIsAnswered(p) \/ PollIsApplied(p) \/ PollFails(p)

NewsSpec == NewsInit /\ [][NewsNext]_newsVars

(* The steps that are owed: timers fire, and a server that may fail does    *)
(* not fail for ever.  Nothing is promised of the publisher or the socket.  *)
NewsFairness ==
    /\ WF_newsVars(NewsTick) /\ WF_newsVars(FallSilent)
    /\ \A p \in NewsPolls :
         SF_newsVars(PollBegins(p)) /\ SF_newsVars(PollIsAnswered(p)) /\ WF_newsVars(PollIsApplied(p))

-----------------------------------------------------------------------------
(* index.ts: an event whose coins are watched, or unknown, becomes an alert.*)
Alerted == {i \in Watched : \E k \in DOMAIN fired : fired[k] = i}

(* Types, and: the two containers of the ring hold the same keys, each once,*)
(* never more than MaxSeen of them, and lastEmitted is behind none of them. *)
NewsTypeOK ==
    /\ second \in 0 .. MaxSecond /\ published \in 0 .. Len(Stamp)
    /\ socket \in {"connecting", "open", "waiting", "gone"}
    /\ socket # "open" => newsWire = <<>>
    /\ newsWire \in Seq(NewsItems) /\ silent \in BOOLEAN /\ stopped \in BOOLEAN
    /\ \A p \in NewsPolls : poll[p].mode \in {"none", "bootstrap", "fallback"}
    /\ seenKeys = ToSet(seenQueue) /\ IsInjective(seenQueue) /\ Len(seenQueue) <= MaxSeen
    /\ \A k \in seenKeys : k[1] <= lastEmitted

(* One item is fired once, however socket and polls overlap and however late*)
(* an answer is applied, unless MaxSeen other items came in between ("消除   *)
(* WS 与 HTTP 重叠推送", docs/bwenews-source-execution.md, section 7).        *)
FiredOncePerRing ==
    \A j, k \in DOMAIN fired :
        j < k /\ fired[j] = fired[k] /\ fired[j] \notin Undated => k - j > MaxSeen

(* The newest item, if it is alone in its second, is fired in the end though*)
(* the socket may be down, connected and dumb, or lose the message: the     *)
(* fallback finds it, unless an undated item has moved lastEmitted past it. *)
NewestIsFired ==
    \A i \in Watched \ (Undated \union Untitled) :
        (/\ published = i /\ \A j \in 1 .. i - 1 : Stamp[j] < Stamp[i]
         /\ \A j \in 1 .. i - 1 : j \notin Undated)
        ~> i \in Alerted \/ published # i \/ stopped
=============================================================================
