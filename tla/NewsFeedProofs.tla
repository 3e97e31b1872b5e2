--------------------------- MODULE NewsFeedProofs ---------------------------
(***************************************************************************)
(* The news feed fires an item once per ring, for every number of items,   *)
(* polls and ring size and whatever fails.  The argument: the ring holds   *)
(* the keys of exactly the last events fired, so an item whose key is not  *)
(* in it was fired at least MaxSeen events ago; and no batch that is       *)
(* emitted at once holds an event twice, because a list does not.          *)
(***************************************************************************)
EXTENDS MCAlertFeed, AlertSystemProofs

Seconds == 0 .. MaxSecond
Keys == Seconds \X NewsItems
Modes == {"none", "bootstrap", "fallback"}

(* An event that can be read from an item: a dated one carries its stamp.   *)
Events == {e \in [item : NewsItems, ts : Seconds] : e.item \notin Undated => e.ts = Stamp[e.item]}

FeedTypes ==
    /\ second \in Seconds /\ published \in 0 .. Len(Stamp)
    /\ socket \in {"connecting", "open", "waiting", "gone"}
    /\ socket # "open" => newsWire = <<>>
    /\ silent \in BOOLEAN /\ stopped \in BOOLEAN

(* Items that are out, and only those, travel, and none twice in one list.  *)
ItemsAreOut ==
    /\ \A i \in 1 .. published : Stamp[i] <= second
    /\ newsWire \in Seq(1 .. published)
    /\ poll \in [NewsPolls -> [mode : Modes, list : Seq(1 .. published)]]
    /\ \A p \in NewsPolls : IsInjective(poll[p].list)

(* The ring, against the history: seenQueue ends where fired ends.          *)
Skipped == Len(fired) - Len(seenQueue)

RingInv ==
    /\ seenQueue \in Seq(Keys) /\ IsInjective(seenQueue) /\ seenKeys = ToSet(seenQueue)
    /\ lastEmitted \in Seconds /\ \A k \in 1 .. Len(seenQueue) : seenQueue[k][1] <= lastEmitted
    /\ fired \in Seq(NewsItems)
    /\ Len(seenQueue) = IF Len(fired) < MaxSeen THEN Len(fired) ELSE MaxSeen
    /\ \A k \in 1 .. Len(seenQueue) :
          /\ seenQueue[k][2] = fired[Skipped + k]
          /\ fired[Skipped + k] \notin Undated => seenQueue[k][1] = Stamp[fired[Skipped + k]]
    /\ FiredOncePerRing

NewsInv == FeedTypes /\ ItemsAreOut /\ RingInv

LEMMA NewsConstants ==
    /\ Len(Stamp) \in Nat /\ \A i \in NewsItems : Stamp[i] \in Nat
    /\ MaxSeen \in Nat \ {0} /\ MaxSecond \in Nat /\ ListLength \in Nat \ {0}
<1>1. Stamp \in Seq(Nat)
  BY NewsAssumption, Zenon
<1>2. MaxSeen \in Nat \ {0} /\ MaxSecond \in Nat /\ ListLength \in Nat \ {0}
  BY NewsAssumption, Zenon
<1> QED BY <1>1, <1>2 DEF NewsItems

(* A non-empty set of numbers with a bound has a greatest element.          *)
LEMMA MaxFacts ==
    ASSUME NEW B \in Nat, NEW T \in SUBSET (0 .. B), T # {}
    PROVE  Max(T) \in T /\ \A t \in T : t <= Max(T)
<1> DEFINE below == {B - t : t \in T}
<1>1. below \in SUBSET Nat /\ below # {}
  <2>1. PICK t \in T : TRUE
    OBVIOUS
  <2>2. B - t \in below
    OBVIOUS
  <2>3. \A u \in T : B - u \in Nat
    OBVIOUS
  <2> QED BY <2>2, <2>3
<1>2. PICK m \in below : \A k \in below : m <= k
  <2> HIDE DEF below
  <2> QED BY <1>1, LeastNumber
<1>3. PICK x \in T : m = B - x
  BY <1>2
<1>4. \A t \in T : x >= t
  <2> SUFFICES ASSUME NEW t \in T PROVE x >= t
    OBVIOUS
  <2>1. m <= B - t
    BY <1>2
  <2> QED BY <2>1, <1>3
<1>5. Max(T) \in T /\ \A t \in T : Max(T) >= t
  BY <1>3, <1>4 DEF Max
<1> QED BY <1>5

-----------------------------------------------------------------------------
(* Emit *)

(* What is fired of a batch are events of the batch, each once, and none    *)
(* whose key is in the ring.                                                *)
IsFresh(fresh) ==
    /\ fresh \in Seq(Events) /\ Len(fresh) \in Nat
    /\ \A k \in 1 .. Len(fresh) : fresh[k] \in Events /\ Key(fresh[k]) \notin seenKeys
    /\ \A j, k \in 1 .. Len(fresh) : fresh[j] = fresh[k] => j = k

LEMMA FreshFacts ==
    ASSUME NEW events \in Seq(Events), IsInjective(events),
           NEW W, \A e \in W : Key(e) \notin seenKeys
    PROVE  IsFresh(Filter(events, W))
<1> DEFINE fresh == Filter(events, W)
<1>1. fresh \in Seq(Events)
  BY FilterFacts
<1>2. /\ {fresh[k] : k \in 1 .. Len(fresh)} = {events[i] : i \in 1 .. Len(events)} \intersect W
      /\ IsInjective(fresh)
  <2>1. {fresh[k] : k \in 1 .. Len(fresh)} = {events[i] : i \in 1 .. Len(events)} \intersect W
    BY FilterSet
  <2>2. IsInjective(fresh)
    BY FilterSet
  <2> QED BY <2>1, <2>2
<1> HIDE DEF fresh
<1>3. Len(fresh) \in Nat /\ DOMAIN fresh = 1 .. Len(fresh)
  BY <1>1
<1>4. \A k \in 1 .. Len(fresh) : fresh[k] \in W
  BY <1>2
<1>5. \A k \in 1 .. Len(fresh) : fresh[k] \in Events
  BY <1>1
<1>6. \A j, k \in 1 .. Len(fresh) : fresh[j] = fresh[k] => j = k
  BY <1>2, <1>3 DEF IsInjective
<1>7. IsFresh(fresh)
  BY <1>1, <1>3, <1>4, <1>5, <1>6 DEF IsFresh
<1> QED BY <1>7 DEF fresh

(* The ring after a batch: the old queue and the new keys, less the first   *)
(* d of them.                                                               *)
Excess(queue) == IF Len(queue) > MaxSeen THEN Len(queue) - MaxSeen ELSE 0

RingStep(fresh, queue, d) ==
    /\ queue \in Seq(Keys) /\ Len(queue) = Len(seenQueue) + Len(fresh)
    /\ \A k \in 1 .. Len(seenQueue) : queue[k] = seenQueue[k]
    /\ \A k \in 1 .. Len(fresh) : queue[Len(seenQueue) + k] = Key(fresh[k])
    /\ d = Excess(queue)
    /\ seenQueue' \in Seq(Keys) /\ Len(seenQueue') = Len(queue) - d
    /\ \A k \in 1 .. Len(queue) - d : seenQueue'[k] = queue[d + k]
    /\ seenKeys' = (seenKeys \union ToSet(queue)) \ {queue[k] : k \in 1 .. d}
    /\ lastEmitted' = Max({lastEmitted} \union {fresh[k].ts : k \in 1 .. Len(fresh)})
    /\ fired' \in Seq(NewsItems) /\ Len(fired') = Len(fired) + Len(fresh)
    /\ \A k \in 1 .. Len(fired) : fired'[k] = fired[k]
    /\ \A k \in 1 .. Len(fresh) : fired'[Len(fired) + k] = fresh[k].item

LEMMA QueueFacts ==
    ASSUME RingInv, NEW events \in Seq(Events), IsInjective(events), Emit(events)
    PROVE  \E fresh, queue, d : IsFresh(fresh) /\ RingStep(fresh, queue, d)
<1>0. PICK W : W = {e \in ToSet(events) : Key(e) \notin seenKeys}
  OBVIOUS
<1>1. PICK fresh : /\ fresh = Filter(events, W)
                   /\ \E queue \in {seenQueue \o [k \in DOMAIN fresh |-> Key(fresh[k])]} :
                      LET excess == Len(queue) - MaxSeen
                      IN  /\ seenKeys' = (seenKeys \union ToSet(queue)) \ Dropped(queue)
                          /\ seenQueue' = IF excess > 0 THEN SubSeq(queue, excess + 1, Len(queue))
                                          ELSE queue
                          /\ lastEmitted' = Max({lastEmitted} \union
                                                   {fresh[k].ts : k \in DOMAIN fresh})
                          /\ fired' = fired \o [k \in DOMAIN fresh |-> fresh[k].item]
  BY <1>0 DEF Emit
<1>2. IsFresh(fresh)
  <2>1. \A e \in W : Key(e) \notin seenKeys
    BY <1>0
  <2> QED BY <1>1, <2>1, FreshFacts
<1>3. PICK m : m = Len(fresh)
  OBVIOUS
<1>4. DOMAIN fresh = 1 .. m /\ m \in Nat /\ \A k \in 1 .. m : fresh[k] \in Events
  BY <1>2, <1>3 DEF IsFresh
<1> DEFINE added == [k \in 1 .. m |-> Key(fresh[k])]
           names == [k \in 1 .. m |-> fresh[k].item]
<1>5. PICK queue : queue = seenQueue \o added
                   /\ LET excess == Len(queue) - MaxSeen
                      IN  /\ seenKeys' = (seenKeys \union ToSet(queue)) \ Dropped(queue)
                          /\ seenQueue' = IF excess > 0 THEN SubSeq(queue, excess + 1, Len(queue))
                                          ELSE queue
                          /\ lastEmitted' = Max({lastEmitted} \union {fresh[k].ts : k \in 1 .. m})
                          /\ fired' = fired \o names
  BY <1>1, <1>4
<1>6. added \in Seq(Keys) /\ Len(added) = m /\ \A k \in 1 .. m : added[k] = Key(fresh[k])
  <2>1. \A k \in 1 .. m : Key(fresh[k]) \in Keys
    BY <1>4 DEF Events, Key, Keys
  <2>2. added \in [1 .. m -> Keys]
    BY <2>1
  <2> HIDE DEF added
  <2>3. added \in Seq(Keys) /\ Len(added) = m
    BY <1>4, <2>2, ArrayOf
  <2> QED BY <2>3 DEF added
<1>7. names \in Seq(NewsItems) /\ Len(names) = m /\ \A k \in 1 .. m : names[k] = fresh[k].item
  <2>1. \A k \in 1 .. m : fresh[k].item \in NewsItems
    BY <1>4 DEF Events
  <2>2. names \in [1 .. m -> NewsItems]
    BY <2>1
  <2> HIDE DEF names
  <2>3. names \in Seq(NewsItems) /\ Len(names) = m
    BY <1>4, <2>2, ArrayOf
  <2> QED BY <2>3 DEF names
<1>8. seenQueue \in Seq(Keys) /\ Len(seenQueue) \in Nat /\ fired \in Seq(NewsItems)
  BY DEF RingInv
<1> HIDE DEF added, names
<1>9. /\ queue \in Seq(Keys) /\ Len(queue) = Len(seenQueue) + m
      /\ \A k \in 1 .. Len(seenQueue) : queue[k] = seenQueue[k]
      /\ \A k \in 1 .. m : queue[Len(seenQueue) + k] = added[k]
  <2>1. queue = seenQueue \o added
    BY <1>5
  <2>2. /\ seenQueue \o added \in Seq(Keys) /\ Len(seenQueue \o added) = Len(seenQueue) + Len(added)
        /\ \A k \in 1 .. Len(seenQueue) : (seenQueue \o added)[k] = seenQueue[k]
        /\ \A k \in 1 .. Len(added) : (seenQueue \o added)[Len(seenQueue) + k] = added[k]
    <3>1. seenQueue \in Seq(Keys) /\ added \in Seq(Keys)
      BY <1>6, <1>8
    <3> QED BY <3>1, Joined
  <2> QED BY <2>1, <2>2, <1>6
<1>10. /\ fired' \in Seq(NewsItems) /\ Len(fired') = Len(fired) + m
       /\ \A k \in 1 .. Len(fired) : fired'[k] = fired[k]
       /\ \A k \in 1 .. m : fired'[Len(fired) + k] = names[k]
  <2>1. fired' = fired \o names
    BY <1>5
  <2>2. /\ fired \o names \in Seq(NewsItems) /\ Len(fired \o names) = Len(fired) + Len(names)
        /\ \A k \in 1 .. Len(fired) : (fired \o names)[k] = fired[k]
        /\ \A k \in 1 .. Len(names) : (fired \o names)[Len(fired) + k] = names[k]
    <3>1. fired \in Seq(NewsItems) /\ names \in Seq(NewsItems)
      BY <1>7, <1>8
    <3> QED BY <3>1, Joined
  <2> QED BY <2>1, <2>2, <1>7
<1>11. PICK d : d = IF Len(queue) > MaxSeen THEN Len(queue) - MaxSeen ELSE 0
  OBVIOUS
<1>12. d \in Nat /\ d <= Len(queue) /\ MaxSeen \in Nat /\ Len(queue) \in Nat
  BY <1>4, <1>8, <1>9, <1>11, NewsConstants
<1>13. /\ seenQueue' \in Seq(Keys) /\ Len(seenQueue') = Len(queue) - d
       /\ \A k \in 1 .. Len(queue) - d : seenQueue'[k] = queue[d + k]
  <2>1. CASE Len(queue) > MaxSeen
    <3>1. seenQueue' = SubSeq(queue, d + 1, Len(queue))
      <4>1. d = Len(queue) - MaxSeen /\ Len(queue) - MaxSeen > 0
        BY <1>11, <1>12, <2>1
      <4>2. Len(queue) - MaxSeen > 0 =>
               seenQueue' = SubSeq(queue, (Len(queue) - MaxSeen) + 1, Len(queue))
        BY <1>5
      <4> QED BY <4>1, <4>2
    <3>2. /\ SubSeq(queue, d + 1, Len(queue)) \in Seq(Keys)
          /\ Len(SubSeq(queue, d + 1, Len(queue))) = Len(queue) - d
          /\ \A i \in 1 .. Len(queue) - d : SubSeq(queue, d + 1, Len(queue))[i] = queue[d + i]
      BY <1>9, <1>12, WithoutFirst
    <3> QED BY <3>1, <3>2
  <2>2. CASE ~ (Len(queue) > MaxSeen)
    <3>1. d = 0 /\ seenQueue' = queue
      BY <2>2, <1>5, <1>11, <1>12
    <3> QED BY <3>1, <1>9, <1>12
  <2> QED BY <2>1, <2>2
<1>14. Dropped(queue) = {queue[k] : k \in 1 .. d}
  <2>1. 1 .. Len(queue) - MaxSeen = 1 .. d
    BY <1>11, <1>12
  <2> QED BY <2>1 DEF Dropped
<1>15. RingStep(fresh, queue, d)
  <2>1. /\ \A k \in 1 .. m : queue[Len(seenQueue) + k] = Key(fresh[k])
        /\ \A k \in 1 .. m : fired'[Len(fired) + k] = fresh[k].item
    BY <1>6, <1>7, <1>9, <1>10
  <2>2. /\ seenKeys' = (seenKeys \union ToSet(queue)) \ {queue[k] : k \in 1 .. d}
        /\ lastEmitted' = Max({lastEmitted} \union {fresh[k].ts : k \in 1 .. m})
    BY <1>5, <1>14
  <2>3. d = Excess(queue)
    BY <1>11 DEF Excess
  <2> QED BY <1>3, <1>9, <1>10, <1>13, <2>1, <2>2, <2>3 DEF RingStep
<1> QED BY <1>2, <1>15

(* A batch keeps the ring in step with the history, and fires no item again *)
(* that the ring could still know.                                          *)
LEMMA EmitKeepsRing ==
    ASSUME RingInv, NEW events \in Seq(Events), IsInjective(events), Emit(events)
    PROVE  RingInv'
<1>1. PICK fresh, queue, d : IsFresh(fresh) /\ RingStep(fresh, queue, d)
  BY QueueFacts
<1>2. PICK n, m, F : n = Len(seenQueue) /\ m = Len(fresh) /\ F = Len(fired)
  OBVIOUS
<1>3. /\ n \in Nat /\ m \in Nat /\ F \in Nat /\ n = IF F < MaxSeen THEN F ELSE MaxSeen
      /\ MaxSeen \in Nat \ {0} /\ n <= F
  <2>1. n \in Nat /\ F \in Nat /\ n = IF F < MaxSeen THEN F ELSE MaxSeen
    BY <1>2 DEF RingInv
  <2>2. m \in Nat
    BY <1>1, <1>2 DEF IsFresh
  <2> QED BY <2>1, <2>2, NewsConstants
<1>20. /\ seenQueue \in Seq(Keys) /\ fired \in Seq(NewsItems) /\ seenKeys = ToSet(seenQueue)
       /\ DOMAIN seenQueue = 1 .. n /\ IsInjective(seenQueue)
  BY <1>2 DEF RingInv
<1>21. \A k \in 1 .. n : seenQueue[k] \in Keys /\ seenQueue[k] \in seenKeys
  BY <1>2, <1>20 DEF ToSet
<1>22. \A j, k \in 1 .. n : seenQueue[j] = seenQueue[k] => j = k
  BY <1>20 DEF IsInjective
<1>4. /\ \A k \in 1 .. n : /\ seenQueue[k][1] <= lastEmitted
                           /\ seenQueue[k][2] = fired[F - n + k]
                           /\ fired[F - n + k] \notin Undated => seenQueue[k][1] = Stamp[fired[F - n + k]]
      /\ lastEmitted \in Seconds
  BY <1>2 DEF RingInv, Skipped
<1>5. /\ \A k \in 1 .. m : /\ fresh[k] \in [item : NewsItems, ts : Seconds]
                           /\ fresh[k].item \notin Undated => fresh[k].ts = Stamp[fresh[k].item]
                           /\ Key(fresh[k]) \notin seenKeys
      /\ \A j, k \in 1 .. m : fresh[j] = fresh[k] => j = k
  BY <1>1, <1>2 DEF IsFresh, Events
<1>6. /\ queue \in Seq(Keys) /\ Len(queue) = n + m
      /\ \A k \in 1 .. n : queue[k] = seenQueue[k]
      /\ \A k \in 1 .. m : queue[n + k] = Key(fresh[k])
  BY <1>1, <1>2 DEF RingStep
<1>23. d = (IF n + m > MaxSeen THEN n + m - MaxSeen ELSE 0) /\ d \in Nat /\ d <= n + m
  <2>1. d = IF Len(queue) > MaxSeen THEN Len(queue) - MaxSeen ELSE 0
    <3>1. d = Excess(queue)
      BY <1>1 DEF RingStep
    <3> QED BY <3>1 DEF Excess
  <2>2. Len(queue) = n + m
    BY <1>6
  <2>3. d = IF n + m > MaxSeen THEN n + m - MaxSeen ELSE 0
    BY <2>1, <2>2, <1>3
  <2> QED BY <2>3, <1>3
<1>7. /\ seenQueue' \in Seq(Keys) /\ Len(seenQueue') = n + m - d
      /\ \A k \in 1 .. n + m - d : seenQueue'[k] = queue[d + k]
      /\ seenKeys' = (seenKeys \union ToSet(queue)) \ {queue[k] : k \in 1 .. d}
  <2>1. /\ seenQueue' \in Seq(Keys) /\ Len(seenQueue') = Len(queue) - d
        /\ \A k \in 1 .. Len(queue) - d : seenQueue'[k] = queue[d + k]
    BY <1>1 DEF RingStep
  <2>2. Len(queue) = n + m
    BY <1>6
  <2>3. Len(queue) - d = n + m - d
    BY <2>2, <1>3, <1>23
  <2>4. seenQueue' \in Seq(Keys) /\ Len(seenQueue') = n + m - d
    BY <2>1, <2>3
  <2>6. \A k \in 1 .. n + m - d : seenQueue'[k] = queue[d + k]
    BY <2>1, <2>3
  <2>5. seenKeys' = (seenKeys \union ToSet(queue)) \ {queue[k] : k \in 1 .. d}
    BY <1>1 DEF RingStep
  <2> QED BY <2>4, <2>5, <2>6
<1>24. \A k \in 1 .. n + m - d : seenQueue'[k] = queue[d + k]
  BY <1>7
<1>8. /\ lastEmitted' = Max({lastEmitted} \union {fresh[k].ts : k \in 1 .. m})
      /\ fired' \in Seq(NewsItems) /\ Len(fired') = F + m
      /\ \A k \in 1 .. F : fired'[k] = fired[k]
      /\ \A k \in 1 .. m : fired'[F + k] = fresh[k].item
  BY <1>1, <1>2 DEF RingStep
<1>9. \A j, k \in 1 .. n + m : queue[j] = queue[k] => j = k
  <2>1. \A k \in 1 .. n : queue[k] \in seenKeys
    BY <1>6, <1>21
  <2>2. \A k \in 1 .. n + m : k \in 1 .. n \/ (k - n \in 1 .. m /\ k = n + (k - n))
    BY <1>3
  <2>3. \A k \in 1 .. n + m : k \notin 1 .. n => queue[k] = Key(fresh[k - n])
    BY <2>2, <1>6
  <2>4. \A j, k \in 1 .. m : Key(fresh[j]) = Key(fresh[k]) => j = k
    <3> SUFFICES ASSUME NEW j \in 1 .. m, NEW k \in 1 .. m, Key(fresh[j]) = Key(fresh[k])
                 PROVE  j = k
      OBVIOUS
    <3>1. fresh[j].ts = fresh[k].ts /\ fresh[j].item = fresh[k].item
      BY DEF Key
    <3>2. fresh[j] = fresh[k]
      BY <3>1, <1>5
    <3> QED BY <3>2, <1>5
  <2> SUFFICES ASSUME NEW j \in 1 .. n + m, NEW k \in 1 .. n + m, queue[j] = queue[k]
               PROVE  j = k
    OBVIOUS
  <2>5. CASE j \in 1 .. n /\ k \in 1 .. n
    BY <2>5, <1>6, <1>22
  <2>6. CASE j \in 1 .. n /\ k \notin 1 .. n
    BY <2>1, <2>2, <2>3, <2>6, <1>5
  <2>7. CASE j \notin 1 .. n /\ k \in 1 .. n
    BY <2>1, <2>2, <2>3, <2>7, <1>5
  <2>8. CASE j \notin 1 .. n /\ k \notin 1 .. n
    <3>1. j - n \in 1 .. m /\ k - n \in 1 .. m /\ Key(fresh[j - n]) = Key(fresh[k - n])
      BY <2>2, <2>3, <2>8
    <3>2. j - n = k - n
      BY <3>1, <2>4
    <3> QED BY <3>2, <1>3
  <2> QED BY <2>5, <2>6, <2>7, <2>8
<1>10. \A k \in 1 .. n + m - d : d + k \in 1 .. n + m
  BY <1>3, <1>23
<1>11. IsInjective(seenQueue')
  <2>1. DOMAIN seenQueue' = 1 .. n + m - d
    BY <1>7
  <2>2. ASSUME NEW j \in 1 .. n + m - d, NEW k \in 1 .. n + m - d, seenQueue'[j] = seenQueue'[k]
        PROVE  j = k
    <3>1. queue[d + j] = queue[d + k]
      BY <2>2, <1>24
    <3>2. d + j = d + k
      BY <3>1, <1>9, <1>10
    <3> QED BY <3>2, <1>23
  <2> QED BY <2>1, <2>2 DEF IsInjective
<1>12. seenKeys' = ToSet(seenQueue')
  <2>1. DOMAIN seenQueue' = 1 .. n + m - d /\ DOMAIN queue = 1 .. n + m /\ DOMAIN seenQueue = 1 .. n
    <3>1. DOMAIN seenQueue' = 1 .. n + m - d
      BY <1>7
    <3>2. DOMAIN queue = 1 .. n + m
      BY <1>6
    <3>3. DOMAIN seenQueue = 1 .. n
      BY <1>20
    <3> QED BY <3>1, <3>2, <3>3
  <2>2. seenKeys \subseteq ToSet(queue)
    <3>1. \A k \in 1 .. n : k \in 1 .. n + m
      BY <1>3
    <3> QED BY <3>1, <2>1, <1>6, <1>20 DEF ToSet
  <2>3. seenKeys' = {queue[k] : k \in 1 .. n + m} \ {queue[k] : k \in 1 .. d}
    BY <2>1, <2>2, <1>7 DEF ToSet
  <2>4. ToSet(seenQueue') = {queue[d + k] : k \in 1 .. n + m - d}
    BY <2>1, <1>7 DEF ToSet
  <2>5. \A k \in 1 .. n + m : k \in 1 .. d \/ (k - d \in 1 .. n + m - d /\ d + (k - d) = k)
    BY <1>3, <1>23
  <2>6. \A k \in 1 .. n + m - d : d + k \notin 1 .. d
    BY <1>3, <1>23
  <2>7. \A k \in 1 .. d : k \in 1 .. n + m
    BY <1>3, <1>23
  <2>8. \A x : x \in seenKeys' => x \in ToSet(seenQueue')
    <3> SUFFICES ASSUME NEW x \in seenKeys' PROVE x \in ToSet(seenQueue')
      OBVIOUS
    <3>1. PICK k \in 1 .. n + m : x = queue[k] /\ k \notin 1 .. d
      BY <2>3
    <3>2. k - d \in 1 .. n + m - d /\ d + (k - d) = k
      BY <3>1, <2>5
    <3> QED BY <3>1, <3>2, <2>4
  <2>9. \A x : x \in ToSet(seenQueue') => x \in seenKeys'
    <3> SUFFICES ASSUME NEW x \in ToSet(seenQueue') PROVE x \in seenKeys'
      OBVIOUS
    <3>1. PICK k \in 1 .. n + m - d : x = queue[d + k]
      BY <2>4
    <3>2. \A j \in 1 .. d : queue[j] # x
      BY <3>1, <1>9, <1>10, <2>6, <2>7
    <3> QED BY <3>1, <3>2, <1>10, <2>3
  <2> QED BY <2>8, <2>9
<1>13. /\ lastEmitted' \in Seconds /\ lastEmitted <= lastEmitted'
       /\ \A k \in 1 .. m : fresh[k].ts <= lastEmitted'
  <2> DEFINE T == {lastEmitted} \union {fresh[k].ts : k \in 1 .. m}
  <2>1. T \in SUBSET (0 .. MaxSecond) /\ T # {}
    BY <1>4, <1>5 DEF Seconds
  <2>2. lastEmitted \in T /\ \A k \in 1 .. m : fresh[k].ts \in T
    OBVIOUS
  <2>3. lastEmitted' = Max(T)
    BY <1>8
  <2> HIDE DEF T
  <2>4. Max(T) \in T /\ \A t \in T : t <= Max(T)
    BY <2>1, MaxFacts, NewsConstants
  <2> QED BY <2>1, <2>2, <2>3, <2>4 DEF Seconds
<1>14. \A k \in 1 .. n + m - d : seenQueue'[k][1] <= lastEmitted'
  <2> SUFFICES ASSUME NEW k \in 1 .. n + m - d PROVE seenQueue'[k][1] <= lastEmitted'
    OBVIOUS
  <2>1. CASE d + k <= n
    <3>1. d + k \in 1 .. n /\ seenQueue'[k] = seenQueue[d + k]
      <4>1. d + k \in 1 .. n
        BY <2>1, <1>3, <1>23
      <4> QED BY <4>1, <1>6, <1>24
    <3>2. seenQueue[d + k] \in Keys
      BY <3>1, <1>21
    <3>3. seenQueue[d + k][1] \in Seconds /\ seenQueue[d + k][1] <= lastEmitted
      BY <3>1, <3>2, <1>4 DEF Keys
    <3> QED BY <3>1, <3>3, <1>4, <1>13, NewsConstants DEF Seconds
  <2>2. CASE ~ (d + k <= n)
    <3>1. d + k - n \in 1 .. m /\ n + (d + k - n) = d + k
      BY <2>2, <1>3, <1>10, <1>23
    <3>2. seenQueue'[k] = Key(fresh[d + k - n])
      BY <3>1, <1>6, <1>24
    <3> QED BY <3>1, <3>2, <1>13 DEF Key
  <2> QED BY <2>1, <2>2
<1>15. n + m - d = IF F + m < MaxSeen THEN F + m ELSE MaxSeen
  BY <1>3, <1>23
<1>16. ASSUME NEW k \in 1 .. n + m - d
       PROVE  /\ seenQueue'[k][2] = fired'[(F + m) - (n + m - d) + k]
              /\ fired'[(F + m) - (n + m - d) + k] \notin Undated
                    => seenQueue'[k][1] = Stamp[fired'[(F + m) - (n + m - d) + k]]
  <2>0. (F + m) - (n + m - d) + k = (F - n) + (d + k)
    BY <1>3, <1>23
  <2>1. CASE d + k <= n
    <3>1. d + k \in 1 .. n /\ seenQueue'[k] = seenQueue[d + k] /\ (F - n) + (d + k) \in 1 .. F
      <4>1. d + k \in 1 .. n /\ (F - n) + (d + k) \in 1 .. F
        BY <2>1, <1>3, <1>23
      <4> QED BY <4>1, <1>6, <1>24
    <3>2. fired'[(F - n) + (d + k)] = fired[F - n + (d + k)]
      BY <3>1, <1>8
    <3> QED BY <2>0, <3>1, <3>2, <1>4
  <2>2. CASE ~ (d + k <= n)
    <3>1. /\ d + k - n \in 1 .. m /\ n + (d + k - n) = d + k
          /\ (F - n) + (d + k) = F + (d + k - n)
      BY <2>2, <1>3, <1>10, <1>23
    <3>2. seenQueue'[k] = Key(fresh[d + k - n])
      BY <3>1, <1>6, <1>24
    <3>3. fired'[(F - n) + (d + k)] = fresh[d + k - n].item
      BY <3>1, <1>8
    <3>4. PICK j \in 1 .. m : j = d + k - n
      BY <3>1
    <3>5. seenQueue'[k] = Key(fresh[j]) /\ fired'[(F + m) - (n + m - d) + k] = fresh[j].item
      BY <2>0, <3>2, <3>3, <3>4
    <3>6. fresh[j].item \notin Undated => fresh[j].ts = Stamp[fresh[j].item]
      BY <1>5
    <3>7. seenQueue'[k][1] = fresh[j].ts /\ seenQueue'[k][2] = fresh[j].item
      BY <3>5 DEF Key
    <3> QED BY <3>5, <3>6, <3>7
  <2> QED BY <2>1, <2>2
<1>17. FiredOncePerRing'
  <2> SUFFICES ASSUME NEW j \in 1 .. F + m, NEW k \in 1 .. F + m,
                      j < k, fired'[j] = fired'[k], fired'[j] \notin Undated
               PROVE  k - j > MaxSeen
    <3>1. DOMAIN fired' = 1 .. F + m
      BY <1>8
    <3> QED BY <3>1 DEF FiredOncePerRing
  <2>1. CASE k \in 1 .. F
    <3>1. j \in 1 .. F
      BY <2>1, <1>3
    <3>2. fired'[j] = fired[j] /\ fired'[k] = fired[k] /\ DOMAIN fired = 1 .. F
      BY <3>1, <2>1, <1>2, <1>20, <1>8
    <3> QED BY <3>1, <3>2, <2>1 DEF RingInv, FiredOncePerRing
  <2>2. CASE k \notin 1 .. F
    <3>1. k - F \in 1 .. m /\ F + (k - F) = k
      BY <2>2, <1>3
    <3>2. fired'[k] = fresh[k - F].item
      BY <3>1, <1>8
    <3>3. /\ fresh[k - F].ts = Stamp[fired'[k]]
          /\ Key(fresh[k - F]) \notin seenKeys
      BY <3>1, <3>2, <1>5
    <3>4. CASE j \in 1 .. F
      <4>1. fired'[j] = fired[j]
        BY <3>4, <1>8
      <4>2. ~ (j > F - n)
        <5> SUFFICES ASSUME j > F - n PROVE FALSE
          OBVIOUS
        <5>1. j - (F - n) \in 1 .. n /\ F - n + (j - (F - n)) = j
          BY <3>4, <1>3
        <5> DEFINE q == seenQueue[j - (F - n)]
        <5>2. q[2] = fired[j] /\ q[1] = Stamp[fired[j]]
          BY <5>1, <4>1, <1>4
        <5>3. q \in Keys /\ q \in seenKeys
          BY <5>1, <1>21
        <5> HIDE DEF q
        <5>4. q = <<q[1], q[2]>>
          BY <5>3 DEF Keys
        <5>5. q = Key(fresh[k - F])
          BY <5>2, <5>4, <4>1, <3>2, <3>3 DEF Key
        <5> QED BY <5>3, <5>5, <3>3
      <4>3. j <= F - n /\ F - n > 0
        BY <4>2, <3>4, <1>3
      <4>4. n = MaxSeen
        BY <4>3, <1>3
      <4> QED BY <4>3, <4>4, <2>2, <3>1, <3>4, <1>3
    <3>5. CASE j \notin 1 .. F
      <4>1. j - F \in 1 .. m /\ F + (j - F) = j
        BY <3>5, <1>3
      <4>2. fired'[j] = fresh[j - F].item
        BY <4>1, <1>8
      <4>3. fresh[j - F].ts = Stamp[fired'[j]]
        BY <4>1, <4>2, <1>5
      <4>4. fresh[j - F] = fresh[k - F]
        BY <3>1, <3>2, <3>3, <4>1, <4>2, <4>3, <1>5
      <4>5. j - F = k - F
        BY <4>4, <3>1, <4>1, <1>5
      <4> QED BY <4>5, <1>3
    <3> QED BY <3>4, <3>5
  <2> QED BY <2>1, <2>2
<1>18. /\ Len(seenQueue') = IF Len(fired') < MaxSeen THEN Len(fired') ELSE MaxSeen
       /\ Skipped' = (F + m) - (n + m - d)
  BY <1>7, <1>8, <1>15 DEF Skipped
<1>19. \A k \in 1 .. Len(seenQueue') :
          /\ seenQueue'[k][2] = fired'[Skipped' + k]
          /\ fired'[Skipped' + k] \notin Undated => seenQueue'[k][1] = Stamp[fired'[Skipped' + k]]
  BY <1>7, <1>16, <1>18
<1> QED BY <1>7, <1>8, <1>11, <1>12, <1>13, <1>14, <1>17, <1>18, <1>19 DEF RingInv

-----------------------------------------------------------------------------
(* From a list to a batch. *)

(* What can be read of a list without repetitions has none.                 *)
LEMMA FoundFacts ==
    ASSUME NEW n \in Nat, NEW list \in Seq(1 .. n), IsInjective(list)
    PROVE  Found(list) \in Seq(1 .. n) /\ IsInjective(Found(list))
<1> DEFINE W == {i \in NewsItems : Readable(i)}
<1>1. Filter(list, W) \in Seq(1 .. n)
  BY FilterFacts
<1>2. IsInjective(Filter(list, W))
  BY FilterSet
<1> QED BY <1>1, <1>2 DEF Found

LEMMA EventFacts ==
    ASSUME FeedTypes, ItemsAreOut, NEW i \in 1 .. published
    PROVE  EventOf(i, second) \in Events /\ EventOf(i, second).item = i
<1>1. i \in NewsItems /\ Stamp[i] \in Nat /\ Stamp[i] <= second /\ second \in 0 .. MaxSecond
  BY NewsConstants DEF FeedTypes, ItemsAreOut, NewsItems, Seconds
<1>2. TimestampAt(i, second) \in Seconds
  BY <1>1, NewsConstants DEF TimestampAt, Seconds
<1>3. i \notin Undated => TimestampAt(i, second) = Stamp[i]
  BY DEF TimestampAt
<1> QED BY <1>1, <1>2, <1>3 DEF EventOf, Events

(* Sorting permutes the list: every place is taken by one item.             *)
LEMMA ExtractedFacts ==
    ASSUME FeedTypes, ItemsAreOut, NEW found \in Seq(1 .. published), IsInjective(found)
    PROVE  Extracted(found) \in Seq(Events) /\ IsInjective(Extracted(found))
<1>0. PICK m : m = Len(found)
  OBVIOUS
<1> DEFINE S == 1 .. m
           ts == [k \in DOMAIN found |-> TimestampAt(found[k], second)]
           Before(k) == {j \in DOMAIN found : ts[j] < ts[k] \/ (ts[j] = ts[k] /\ j < k)}
           R == {pair \in S \X S : \/ ts[pair[1]] < ts[pair[2]]
                                   \/ ts[pair[1]] = ts[pair[2]] /\ pair[1] < pair[2]}
           Place(n) == CHOOSE k \in DOMAIN found : Cardinality(Before(k)) = n - 1
           out == Extracted(found)
<1>1. m \in Nat /\ DOMAIN found = S /\ \A k \in S : found[k] \in 1 .. published
  <2>1. Len(found) \in Nat /\ DOMAIN found = 1 .. Len(found)
    OBVIOUS
  <2>2. \A k \in 1 .. Len(found) : found[k] \in 1 .. published
    BY Elements
  <2> QED BY <1>0, <2>1, <2>2
<1>2. out = [n \in S |-> EventOf(found[Place(n)], second)]
  BY <1>1 DEF Extracted
<1>3. \A k \in S : ts[k] \in Int
  <2> SUFFICES ASSUME NEW k \in S PROVE ts[k] \in Int
    OBVIOUS
  <2>1. EventOf(found[k], second) \in Events
    BY <1>1, EventFacts
  <2>2. TimestampAt(found[k], second) \in Seconds
    BY <2>1 DEF EventOf, Events
  <2> QED BY <2>2, <1>1, NewsConstants DEF Seconds
<1>4. \A j, k \in S : <<j, k>> \in R <=> ts[j] < ts[k] \/ (ts[j] = ts[k] /\ j < k)
  <2> HIDE DEF ts
  <2> QED OBVIOUS
<1> HIDE DEF R, out
<1>5. StrictOrder(S, R)
  <2> HIDE DEF ts
  <2>1. \A s \in S : <<s, s>> \notin R
    BY <1>1, <1>3, <1>4
  <2>2. ASSUME NEW s \in S, NEW t \in S, NEW u \in S, <<s, t>> \in R, <<t, u>> \in R
        PROVE  <<s, u>> \in R
    <3>1. s \in Int /\ t \in Int /\ u \in Int /\ ts[s] \in Int /\ ts[t] \in Int /\ ts[u] \in Int
      BY <1>1, <1>3
    <3>2. /\ ts[s] < ts[t] \/ (ts[s] = ts[t] /\ s < t)
          /\ ts[t] < ts[u] \/ (ts[t] = ts[u] /\ t < u)
      BY <1>4, <2>2
    <3>3. ts[s] < ts[u] \/ (ts[s] = ts[u] /\ s < u)
      BY <3>1, <3>2
    <3> QED BY <1>4, <3>3
  <2>3. ASSUME NEW s \in S, NEW t \in S
        PROVE  s = t \/ <<s, t>> \in R \/ <<t, s>> \in R
    <3>1. s \in Int /\ t \in Int /\ ts[s] \in Int /\ ts[t] \in Int
      BY <1>1, <1>3
    <3>2. \/ s = t \/ ts[s] < ts[t] \/ (ts[s] = ts[t] /\ s < t)
          \/ ts[t] < ts[s] \/ (ts[t] = ts[s] /\ t < s)
      BY <3>1
    <3> QED BY <1>4, <3>2
  <2> QED BY <2>1, <2>2, <2>3 DEF StrictOrder
<1>6. IsFiniteSet(S) /\ Cardinality(S) = m
  <2>1. \A n \in Nat : IsFiniteSet(1 .. n) /\ Cardinality(1 .. n) = n
    <3> SUFFICES ASSUME NEW n \in Nat PROVE IsFiniteSet(1 .. n) /\ Cardinality(1 .. n) = n
      OBVIOUS
    <3> QED BY FS_Interval
  <2> QED BY <2>1, <1>1
<1>7. \A k \in S : Rank(S, R, k) = Cardinality(Before(k))
  <2> SUFFICES ASSUME NEW k \in S PROVE {j \in S : <<j, k>> \in R} = Before(k)
    BY DEF Rank
  <2> HIDE DEF ts
  <2> QED BY <1>1, <1>4
<1> HIDE DEF ts, Before
<1>8. ASSUME NEW n \in S PROVE Place(n) \in S /\ Cardinality(Before(Place(n))) = n - 1
  <2>1. PICK k \in S : Rank(S, R, k) = n - 1
    <3>1. \A i \in 1 .. Cardinality(S) : \E k \in S : Rank(S, R, k) = i - 1
      BY <1>5, <1>6, RanksOrder
    <3> QED BY <3>1, <1>6
  <2>2. k \in DOMAIN found /\ Cardinality(Before(k)) = n - 1
    BY <2>1, <1>1, <1>7
  <2> QED BY <2>2, <1>1
<1> HIDE DEF Place
<1>9. ASSUME NEW n \in S
      PROVE  out[n] \in Events /\ out[n].item = found[Place(n)] /\ found[Place(n)] \in 1 .. published
  BY <1>1, <1>2, <1>8, EventFacts
<1>10. out \in Seq(Events) /\ DOMAIN out = S
  <2>1. DOMAIN out = S /\ out \in [S -> Events]
    BY <1>2, <1>9
  <2> QED BY <2>1, <1>1, ArrayOf
<1>11. ASSUME NEW j \in S, NEW k \in S, out[j] = out[k] PROVE j = k
  <2>1. found[Place(j)] = found[Place(k)]
    BY <1>9, <1>11
  <2>2. Place(j) = Place(k)
    BY <2>1, <1>1, <1>8 DEF IsInjective
  <2>3. j - 1 = k - 1
    BY <2>2, <1>8
  <2> QED BY <2>3, <1>1
<1>12. IsInjective(out)
  BY <1>10, <1>11 DEF IsInjective
<1> QED BY <1>10, <1>12 DEF out

LEMMA SelectedFacts ==
    ASSUME NEW events \in Seq(Events), IsInjective(events), NEW mode
    PROVE  Selected(events, mode) \in Seq(Events) /\ IsInjective(Selected(events, mode))
<1>0. PICK W : W = {e \in ToSet(events) : e.ts > lastEmitted}
  OBVIOUS
<1>1. Filter(events, W) \in Seq(Events)
  BY FilterFacts
<1>2. IsInjective(Filter(events, W))
  BY FilterSet
<1>3. /\ events = <<>> => Selected(events, mode) = <<>>
      /\ events # <<>> => \/ Selected(events, mode) = Filter(events, W)
                          \/ Selected(events, mode) = <<events[Len(events)]>>
  BY <1>0 DEF Selected
<1>4. <<>> \in Seq(Events) /\ IsInjective(<<>>)
  BY DEF IsInjective
<1>5. events # <<>> => <<events[Len(events)]>> \in Seq(Events)
                       /\ IsInjective(<<events[Len(events)]>>)
  <2> SUFFICES ASSUME events # <<>>
               PROVE  <<events[Len(events)]>> \in Seq(Events) /\ IsInjective(<<events[Len(events)]>>)
    OBVIOUS
  <2>1. events[Len(events)] \in Events
    <3>1. Len(events) \in Nat /\ Len(events) # 0
      OBVIOUS
    <3> QED BY <3>1
  <2>2. PICK e \in Events : e = events[Len(events)]
    BY <2>1
  <2>3. <<e>> \in Seq(Events) /\ DOMAIN <<e>> = {1}
    OBVIOUS
  <2>4. IsInjective(<<e>>)
    BY <2>3 DEF IsInjective
  <2> QED BY <2>2, <2>3, <2>4
<1> QED BY <1>1, <1>2, <1>3, <1>4, <1>5

-----------------------------------------------------------------------------
(* The steps *)

LEMMA NewsInvInit == NewsInit => NewsInv
<1> SUFFICES ASSUME NewsInit PROVE NewsInv
  OBVIOUS
<1>1. FeedTypes
  <2>1. second \in Seconds /\ published \in 0 .. Len(Stamp)
    BY NewsConstants DEF NewsInit, Seconds
  <2>2. socket = "connecting" /\ newsWire = <<>> /\ silent = TRUE /\ stopped = FALSE
    BY DEF NewsInit
  <2> QED BY <2>1, <2>2 DEF FeedTypes
<1>2. ItemsAreOut
  <2>1. published = 0 /\ newsWire = <<>>
    BY DEF NewsInit
  <2>2. Sent("bootstrap") \in [mode : Modes, list : Seq(1 .. 0)]
        /\ NoPoll \in [mode : Modes, list : Seq(1 .. 0)]
    BY DEF Sent, NoPoll, Modes
  <2>3. \A p \in NewsPolls : poll[p] \in {Sent("bootstrap"), NoPoll}
    BY DEF NewsInit
  <2>4. poll \in [NewsPolls -> [mode : Modes, list : Seq(1 .. 0)]]
    <3>1. poll = [p \in NewsPolls |-> poll[p]]
      BY DEF NewsInit
    <3> QED BY <2>2, <2>3, <3>1
  <2>5. \A p \in NewsPolls : IsInjective(poll[p].list)
    BY <2>3 DEF Sent, NoPoll, IsInjective
  <2> QED BY <2>1, <2>4, <2>5 DEF ItemsAreOut
<1>3. RingInv
  <2>1. seenKeys = {} /\ seenQueue = <<>> /\ lastEmitted = 0 /\ fired = <<>>
    BY DEF NewsInit
  <2>2. seenKeys = ToSet(seenQueue) /\ IsInjective(seenQueue)
    BY <2>1 DEF ToSet, IsInjective
  <2>3. Len(seenQueue) = 0 /\ Len(fired) = 0 /\ 1 .. Len(seenQueue) = {} /\ DOMAIN fired = {}
    BY <2>1
  <2>4. FiredOncePerRing
    BY <2>3 DEF FiredOncePerRing
  <2> QED BY <2>1, <2>2, <2>3, <2>4, NewsConstants DEF RingInv, Seconds
<1> QED BY <1>1, <1>2, <1>3 DEF NewsInv

LEMMA RingUnchanged == RingInv /\ UNCHANGED ringVars => RingInv'
  BY DEF RingInv, ringVars, Skipped, FiredOncePerRing

(* A batch is emitted of distinct events: one from the socket, or what a    *)
(* poll selected.                                                           *)
LEMMA ReceiveKeepsRing ==
    ASSUME NewsInv, Receive
    PROVE  RingInv'
<1>1. RingInv /\ FeedTypes /\ ItemsAreOut /\ newsWire \in Seq(1 .. published) /\ newsWire # <<>>
  BY DEF NewsInv, ItemsAreOut, Receive
<1>2. CASE Readable(Head(newsWire))
  <2>1. Head(newsWire) \in 1 .. published
    BY <1>1, Elements
  <2>2. PICK e : e = EventOf(Head(newsWire), second)
    OBVIOUS
  <2>3. e \in Events
    BY <1>1, <2>1, <2>2, EventFacts
  <2>4. <<e>> \in Seq(Events) /\ IsInjective(<<e>>)
    <3>1. <<e>> \in Seq(Events) /\ DOMAIN <<e>> = {1}
      BY <2>3
    <3> QED BY <3>1 DEF IsInjective
  <2>5. PICK events : events = <<e>> /\ Emit(events)
    BY <1>2, <2>2 DEF Receive
  <2> QED BY <1>1, <2>4, <2>5, EmitKeepsRing
<1>3. CASE ~ Readable(Head(newsWire))
  BY <1>1, <1>3, RingUnchanged DEF Receive
<1> QED BY <1>2, <1>3

LEMMA PollKeepsRing ==
    ASSUME NewsInv, NEW p \in NewsPolls, PollIsApplied(p)
    PROVE  RingInv'
<1>1. RingInv /\ FeedTypes /\ ItemsAreOut /\ published \in Nat
  BY NewsConstants DEF NewsInv, FeedTypes
<1>2. poll[p].list \in Seq(1 .. published) /\ IsInjective(poll[p].list)
  BY <1>1 DEF ItemsAreOut
<1>3. PICK found, events, chosen :
         /\ found = Found(poll[p].list) /\ events = Extracted(found)
         /\ chosen = Selected(events, poll[p].mode) /\ Emit(chosen)
  BY DEF PollIsApplied
<1>4. found \in Seq(1 .. published) /\ IsInjective(found)
  BY <1>1, <1>2, <1>3, FoundFacts
<1>5. events \in Seq(Events) /\ IsInjective(events)
  BY <1>1, <1>3, <1>4, ExtractedFacts
<1>6. chosen \in Seq(Events) /\ IsInjective(chosen)
  BY <1>3, <1>5, SelectedFacts
<1> QED BY <1>1, <1>3, <1>6, EmitKeepsRing

(* A list of the server's latest items holds none twice.                    *)
LEMMA ListedFacts ==
    ASSUME published \in Nat
    PROVE  Listed \in Seq(1 .. published) /\ IsInjective(Listed)
<1>1. PICK n : n = IF published < ListLength THEN published ELSE ListLength
  OBVIOUS
<1>2. n \in Nat /\ n <= published
  BY <1>1, NewsConstants
<1>3. Listed = [k \in 1 .. n |-> published + 1 - k]
  BY <1>1 DEF Listed
<1>4. Listed \in [1 .. n -> 1 .. published]
  BY <1>2, <1>3
<1>5. Listed \in Seq(1 .. published)
  BY <1>2, <1>4, ArrayOf
<1>6. IsInjective(Listed)
  BY <1>2, <1>3 DEF IsInjective
<1> QED BY <1>5, <1>6

(* A poll that changes leaves the others and the lists without repetitions. *)
LEMMA PollChanges ==
    ASSUME NewsInv, UNCHANGED <<second, published>>, newsWire' \in Seq(1 .. published),
           NEW p \in NewsPolls, NEW mode \in Modes, NEW list \in Seq(1 .. published),
           IsInjective(list), poll' = [poll EXCEPT ![p] = [mode |-> mode, list |-> list]]
    PROVE  ItemsAreOut'
<1>1. poll \in [NewsPolls -> [mode : Modes, list : Seq(1 .. published)]]
  BY DEF NewsInv, ItemsAreOut
<1>2. poll' \in [NewsPolls -> [mode : Modes, list : Seq(1 .. published)]]
  BY <1>1
<1>3. \A q \in NewsPolls : poll'[q].list = IF q = p THEN list ELSE poll[q].list
  BY <1>1
<1>4. \A q \in NewsPolls : IsInjective(poll'[q].list)
  BY <1>3 DEF NewsInv, ItemsAreOut
<1> QED BY <1>2, <1>4 DEF NewsInv, ItemsAreOut

LEMMA NewsInvStep == NewsInv /\ [NewsNext]_newsVars => NewsInv'
<1> SUFFICES ASSUME NewsInv, [NewsNext]_newsVars PROVE NewsInv'
  OBVIOUS
<1>0. FeedTypes /\ ItemsAreOut /\ RingInv /\ published \in Nat /\ newsWire \in Seq(1 .. published)
  BY NewsConstants DEF NewsInv, FeedTypes, ItemsAreOut
<1>1. CASE NewsTick
  <2>1. /\ second' = second + 1 /\ second < MaxSecond
        /\ UNCHANGED <<published, socket, newsWire, silent, poll, ringVars, stopped>>
    BY <1>1 DEF NewsTick
  <2>2. FeedTypes'
    BY <1>0, <2>1, NewsConstants DEF FeedTypes, Seconds
  <2>3. \A i \in 1 .. published : Stamp[i] <= second + 1
    <3> SUFFICES ASSUME NEW i \in 1 .. published PROVE Stamp[i] <= second + 1
      OBVIOUS
    <3>1. Stamp[i] \in Nat /\ Stamp[i] <= second /\ second \in Nat
      BY <1>0, NewsConstants DEF FeedTypes, ItemsAreOut, NewsItems, Seconds
    <3> QED BY <3>1
  <2>4. ItemsAreOut'
    BY <1>0, <2>1, <2>3 DEF ItemsAreOut
  <2> QED BY <1>0, <2>1, <2>2, <2>4, RingUnchanged DEF NewsInv
<1>2. CASE Release
  <2>1. /\ published < Len(Stamp) /\ Stamp[published + 1] <= second /\ published' = published + 1
        /\ \/ socket = "open" /\ newsWire' = Append(newsWire, published')
           \/ newsWire' = newsWire
        /\ (socket' # "open" => newsWire' = <<>>)
        /\ UNCHANGED <<second, socket, silent, poll, ringVars, stopped>>
    BY <1>0, <1>2 DEF Release, FeedTypes
  <2>2. FeedTypes'
    BY <1>0, <2>1, NewsConstants DEF FeedTypes
  <2>3. \A i \in 1 .. published + 1 : i \in 1 .. published \/ i = published + 1
    BY <1>0
  <2>4. newsWire' \in Seq(1 .. published + 1)
    <3>1. newsWire \in Seq(1 .. published + 1) /\ published + 1 \in 1 .. published + 1
      <4>1. 1 .. published \subseteq 1 .. published + 1 /\ published + 1 \in 1 .. published + 1
        BY <1>0
      <4> QED BY <1>0, <4>1
    <3> QED BY <2>1, <3>1
  <2>5. poll' \in [NewsPolls -> [mode : Modes, list : Seq(1 .. published + 1)]]
    <3>1. \A l : l \in Seq(1 .. published) => l \in Seq(1 .. published + 1)
      <4> SUFFICES ASSUME NEW l \in Seq(1 .. published) PROVE l \in Seq(1 .. published + 1)
        OBVIOUS
      <4>1. 1 .. published \subseteq 1 .. published + 1
        BY <1>0
      <4>2. Len(l) \in Nat /\ l \in [1 .. Len(l) -> 1 .. published]
        BY Elements
      <4>3. l \in [1 .. Len(l) -> 1 .. published + 1]
        BY <4>1, <4>2
      <4> QED BY <4>2, <4>3, ArrayOf
    <3>2. \A q \in [mode : Modes, list : Seq(1 .. published)] :
             q \in [mode : Modes, list : Seq(1 .. published + 1)]
      BY <3>1
    <3> QED BY <3>2, <2>1, <1>0 DEF ItemsAreOut
  <2>6. ItemsAreOut'
    BY <1>0, <2>1, <2>3, <2>4, <2>5 DEF ItemsAreOut
  <2> QED BY <1>0, <2>1, <2>2, <2>6, RingUnchanged DEF NewsInv
<1>3. CASE SocketOpens \/ Reopen \/ FallSilent
  <2>1. UNCHANGED <<second, published, newsWire, poll, ringVars, stopped>>
    BY <1>3 DEF SocketOpens, Reopen, FallSilent
  <2>2. FeedTypes'
    BY <1>0, <1>3 DEF SocketOpens, Reopen, FallSilent, FeedTypes
  <2>3. ItemsAreOut'
    BY <1>0, <2>1 DEF ItemsAreOut
  <2> QED BY <1>0, <2>1, <2>2, <2>3, RingUnchanged DEF NewsInv
<1>4. CASE SocketLost \/ CloseNews
  <2>1. UNCHANGED <<second, published, poll, ringVars>> /\ newsWire' = <<>>
    BY <1>4 DEF SocketLost, CloseNews
  <2>2. FeedTypes'
    BY <1>0, <1>4 DEF SocketLost, CloseNews, FeedTypes
  <2>3. ItemsAreOut'
    BY <1>0, <2>1 DEF ItemsAreOut
  <2> QED BY <1>0, <2>1, <2>2, <2>3, RingUnchanged DEF NewsInv
<1>5. CASE Receive
  <2>1. /\ UNCHANGED <<second, published, socket, poll, stopped>> /\ silent' = FALSE
        /\ newsWire # <<>> /\ newsWire' = Tail(newsWire) /\ socket = "open"
    BY <1>5 DEF Receive
  <2>2. newsWire' \in Seq(1 .. published)
    BY <1>0, <2>1
  <2>3. FeedTypes' /\ ItemsAreOut'
    BY <1>0, <2>1, <2>2 DEF FeedTypes, ItemsAreOut
  <2> QED BY <1>5, <2>3, ReceiveKeepsRing DEF NewsInv
<1>6. ASSUME NEW p \in NewsPolls, PollBegins(p) \/ PollFails(p) PROVE NewsInv'
  <2>1. /\ UNCHANGED <<second, published, socket, newsWire, silent, ringVars, stopped>>
        /\ \E mode \in Modes : poll' = [poll EXCEPT ![p] = [mode |-> mode, list |-> <<>>]]
    BY <1>6 DEF PollBegins, PollFails, Sent, NoPoll, Modes
  <2>2. <<>> \in Seq(1 .. published) /\ IsInjective(<<>>)
    BY DEF IsInjective
  <2>3. ItemsAreOut'
    BY <1>0, <2>1, <2>2, PollChanges
  <2>4. FeedTypes'
    BY <1>0, <2>1 DEF FeedTypes
  <2> QED BY <1>0, <2>1, <2>3, <2>4, RingUnchanged DEF NewsInv
<1>7. ASSUME NEW p \in NewsPolls, PollIsAnswered(p) PROVE NewsInv'
  <2>1. /\ UNCHANGED <<second, published, socket, newsWire, silent, ringVars, stopped>>
        /\ poll' = [poll EXCEPT ![p].list = Listed]
    BY <1>7 DEF PollIsAnswered
  <2>2. poll[p] \in [mode : Modes, list : Seq(1 .. published)]
    BY <1>0 DEF ItemsAreOut
  <2>3. PICK mode \in Modes, list \in {Listed} : mode = poll[p].mode
    BY <2>2
  <2>4. poll' = [poll EXCEPT ![p] = [mode |-> mode, list |-> list]]
    <3>1. [poll[p] EXCEPT !.list = Listed] = [mode |-> mode, list |-> list]
      BY <2>2, <2>3
    <3> QED BY <2>1, <3>1
  <2>5. ItemsAreOut'
    BY <1>0, <2>1, <2>3, <2>4, ListedFacts, PollChanges
  <2>6. FeedTypes'
    BY <1>0, <2>1 DEF FeedTypes
  <2> QED BY <1>0, <2>1, <2>5, <2>6, RingUnchanged DEF NewsInv
<1>8. ASSUME NEW p \in NewsPolls, PollIsApplied(p) PROVE NewsInv'
  <2>1. /\ UNCHANGED <<second, published, socket, newsWire, silent, stopped>>
        /\ poll' = [poll EXCEPT ![p] = NoPoll]
    BY <1>8 DEF PollIsApplied
  <2>2. <<>> \in Seq(1 .. published) /\ IsInjective(<<>>)
    BY DEF IsInjective
  <2>3. \E mode \in Modes : poll' = [poll EXCEPT ![p] = [mode |-> mode, list |-> <<>>]]
    BY <2>1 DEF NoPoll, Modes
  <2>4. ItemsAreOut'
    BY <1>0, <2>1, <2>2, <2>3, PollChanges
  <2>5. FeedTypes'
    BY <1>0, <2>1 DEF FeedTypes
  <2> QED BY <1>8, <2>4, <2>5, PollKeepsRing DEF NewsInv
<1>9. CASE UNCHANGED newsVars
  <2>1. UNCHANGED <<second, published, socket, newsWire, silent, poll, ringVars, stopped>>
    BY <1>9 DEF newsVars
  <2>2. FeedTypes' /\ ItemsAreOut'
    BY <1>0, <2>1 DEF FeedTypes, ItemsAreOut
  <2> QED BY <1>0, <2>1, <2>2, RingUnchanged DEF NewsInv
<1> QED BY <1>1, <1>2, <1>3, <1>4, <1>5, <1>6, <1>7, <1>8, <1>9 DEF NewsNext

LEMMA NewsInvImplies == NewsInv => NewsTypeOK /\ FiredOncePerRing
<1> SUFFICES ASSUME NewsInv PROVE NewsTypeOK /\ FiredOncePerRing
  OBVIOUS
<1>1. FeedTypes /\ ItemsAreOut /\ RingInv /\ published \in Nat /\ published <= Len(Stamp)
  BY NewsConstants DEF NewsInv, FeedTypes
<1>2. newsWire \in Seq(NewsItems)
  <2>1. 1 .. published \subseteq NewsItems
    BY <1>1, NewsConstants DEF NewsItems
  <2> QED BY <1>1, <2>1 DEF ItemsAreOut
<1>3. \A p \in NewsPolls : poll[p].mode \in {"none", "bootstrap", "fallback"}
  BY <1>1 DEF ItemsAreOut, Modes
<1>4. Len(seenQueue) <= MaxSeen
  <2>1. Len(seenQueue) = (IF Len(fired) < MaxSeen THEN Len(fired) ELSE MaxSeen)
        /\ fired \in Seq(NewsItems)
    BY <1>1 DEF RingInv
  <2>2. Len(fired) \in Nat
    BY <2>1
  <2> QED BY <2>1, <2>2, NewsConstants
<1>5. \A k \in seenKeys : k[1] <= lastEmitted
  <2>1. DOMAIN seenQueue = 1 .. Len(seenQueue)
    BY <1>1 DEF RingInv
  <2> QED BY <1>1, <2>1 DEF RingInv, ToSet
<1> QED BY <1>1, <1>2, <1>3, <1>4, <1>5 DEF FeedTypes, RingInv, NewsTypeOK, Seconds

THEOREM NewsInvariant == NewsSpec => []NewsInv
  BY NewsInvInit, NewsInvStep, PTL DEF NewsSpec

(* The feed's containers are in step: the ring's set and queue hold the same*)
(* keys, each once, at most MaxSeen, none later than lastEmittedTsSec.      *)
THEOREM NewsTypes == NewsSpec => []NewsTypeOK
  BY NewsInvariant, NewsInvImplies, PTL

(* emitIfNew fires a dated item again only when MaxSeen events came between,*)
(* whatever the order in which socket and polls hand it items.              *)
THEOREM FiresOnce == NewsSpec => []FiredOncePerRing
  BY NewsInvariant, NewsInvImplies, PTL

(* Hub, bar and feed are typed, whichever of them runs.                     *)
THEOREM FeedTypesOK == MCSpec => []TypesOK
<1> DEFINE Inv == SystemInv /\ NewsInv
<1>1. MCInit => Inv
  <2>1. Init => SystemInv
    BY SystemInvInit
  <2>2. FeedAtRest => NewsInv
    <3> SUFFICES ASSUME FeedAtRest PROVE NewsInv
      OBVIOUS
    <3>1. FeedTypes
      BY NewsConstants DEF FeedAtRest, FeedTypes, Seconds
    <3>2. ItemsAreOut
      <4>1. NoPoll \in [mode : Modes, list : Seq(1 .. 0)] /\ IsInjective(NoPoll.list)
        BY DEF NoPoll, Modes, IsInjective
      <4>2. poll = [p \in NewsPolls |-> NoPoll] /\ published = 0 /\ newsWire = <<>>
        BY DEF FeedAtRest
      <4> QED BY <4>1, <4>2 DEF ItemsAreOut
    <3>3. RingInv
      <4>1. seenKeys = {} /\ seenQueue = <<>> /\ lastEmitted = 0 /\ fired = <<>>
        BY DEF FeedAtRest
      <4>2. seenKeys = ToSet(seenQueue) /\ IsInjective(seenQueue)
        BY <4>1 DEF ToSet, IsInjective
      <4>3. Len(seenQueue) = 0 /\ Len(fired) = 0 /\ 1 .. Len(seenQueue) = {} /\ DOMAIN fired = {}
        BY <4>1
      <4>4. FiredOncePerRing
        BY <4>3 DEF FiredOncePerRing
      <4> QED BY <4>1, <4>2, <4>3, <4>4, NewsConstants DEF RingInv, Seconds
    <3> QED BY <3>1, <3>2, <3>3 DEF NewsInv
  <2>3. NewsInit => NewsInv
    BY NewsInvInit
  <2> QED BY <2>1, <2>2, <2>3 DEF MCInit
<1>2. Inv /\ [MCNext]_<<part, vars, newsVars>> => Inv'
  <2> SUFFICES ASSUME Inv, [MCNext]_<<part, vars, newsVars>> PROVE Inv'
    OBVIOUS
  <2>1. [Next]_vars /\ [NewsNext]_newsVars
    BY DEF MCNext, FeedIsClosed
  <2> QED BY <2>1, SystemInvStep, NewsInvStep
<1>3. Inv => TypesOK
  <2>1. SystemInv => TypeOK
    BY DEF SystemInv, Servers, ItemsOK, Bound, TypeOK
  <2> QED BY <2>1, NewsInvImplies DEF TypesOK
<1> QED BY <1>1, <1>2, <1>3, PTL DEF MCSpec
=============================================================================
