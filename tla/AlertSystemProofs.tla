-------------------------- MODULE AlertSystemProofs --------------------------
(***************************************************************************)
(* Proofs about the alert memory of alert-hub, for every set of alerts and *)
(* every ring size: the two containers stay in step, retained alerts are   *)
(* stable, list() is exact, and together they implement the bounded log of *)
(* AlertLog.  Then the same of the running system: whatever the servers,   *)
(* the socket and the bar do, they change the store by upsert and ack only *)
(* and lose it only as a whole; and, last, what the bar shows.             *)
(***************************************************************************)
EXTENDS AlertSystem, ArrayProofs

(* The ring after an insertion, with the head dropped or not: what remains  *)
(* of it is injective and avoids the dropped id and the new one.            *)
LEMMA RingAfterInsert ==
    ASSUME StoreInv, NEW a \in Alerts, UpsertNew(a)
    PROVE  StoreInv'
<1> DEFINE id0 == a.id
           dropped == IF Full THEN {Head(order)} ELSE {}
           kept == IF Full THEN Tail(order) ELSE order
<1>1. id0 \in Ids /\ id0 \notin DOMAIN byId
  BY DEF UpsertNew, Known, Ids
<1>2. /\ order \in Seq(Ids) /\ Len(order) \in Nat /\ Len(order) <= Capacity
      /\ Capacity \in Nat \ {0}
  BY CapacityAssumption DEF StoreInv
<1>3. Full => order # <<>> /\ Len(order) >= 1
  BY <1>2 DEF Full
<1>4. /\ kept \in Seq(Ids) /\ Len(kept) < Capacity
      /\ \A i \in 1 .. Len(kept) : kept[i] = order[IF Full THEN i + 1 ELSE i]
      /\ Len(kept) = IF Full THEN Len(order) - 1 ELSE Len(order)
  <2>1. CASE Full
    BY <2>1, <1>2, <1>3 DEF Full
  <2>2. CASE ~ Full
    BY <2>2, <1>2 DEF Full
  <2> QED BY <2>1, <2>2
<1>5. /\ order' = Append(kept, id0)
      /\ byId' = [id \in (DOMAIN byId \ dropped) \union {id0} |->
                    IF id = id0 THEN Stored(a, FALSE) ELSE byId[id]]
  BY DEF UpsertNew
<1>6. /\ order' \in Seq(Ids)
      /\ Len(order') = Len(kept) + 1
      /\ \A i \in 1 .. Len(kept) : order'[i] = kept[i]
      /\ order'[Len(kept) + 1] = id0
  BY <1>1, <1>4, <1>5
<1>7. \A i \in 1 .. Len(kept) : kept[i] \in DOMAIN byId \ dropped
  BY <1>2, <1>3, <1>4 DEF StoreInv
<1>8. \A id \in DOMAIN byId \ dropped : \E i \in 1 .. Len(kept) : kept[i] = id
  <2> SUFFICES ASSUME NEW id \in DOMAIN byId \ dropped
               PROVE  \E i \in 1 .. Len(kept) : kept[i] = id
    OBVIOUS
  <2>1. PICK k \in 1 .. Len(order) : order[k] = id
    BY DEF StoreInv
  <2>2. CASE Full
    <3>1. k # 1
      BY <2>1, <2>2, <1>2, <1>3
    <3>2. k - 1 \in 1 .. Len(kept) /\ kept[k - 1] = id
      BY <3>1, <2>1, <2>2, <1>2, <1>4
    <3> QED BY <3>2
  <2>3. CASE ~ Full
    BY <2>1, <2>3, <1>2, <1>4
  <2> QED BY <2>2, <2>3
<1>9. \A i, j \in 1 .. Len(order') : order'[i] = order'[j] => i = j
  <2>1. \A i, j \in 1 .. Len(kept) : kept[i] = kept[j] => i = j
    BY <1>2, <1>3, <1>4 DEF StoreInv
  <2>2. \A i \in 1 .. Len(kept) : kept[i] # id0
    BY <1>1, <1>7
  <2> QED BY <2>1, <2>2, <1>4, <1>6
<1>10. DOMAIN byId' = {order'[i] : i \in 1 .. Len(order')}
  <2>1. DOMAIN byId' = (DOMAIN byId \ dropped) \union {id0}
    BY <1>5
  <2>2. \A i \in 1 .. Len(order') : order'[i] \in DOMAIN byId'
    BY <2>1, <1>4, <1>6, <1>7
  <2>3. \A id \in DOMAIN byId' : \E i \in 1 .. Len(order') : order'[i] = id
    <3> SUFFICES ASSUME NEW id \in DOMAIN byId'
                 PROVE  \E i \in 1 .. Len(order') : order'[i] = id
      OBVIOUS
    <3>1. CASE id = id0
      BY <3>1, <1>4, <1>6
    <3>2. CASE id # id0
      <4>1. PICK i \in 1 .. Len(kept) : kept[i] = id
        BY <3>2, <2>1, <1>8
      <4>2. i \in 1 .. Len(order') /\ order'[i] = id
        BY <4>1, <1>4, <1>6
      <4> QED BY <4>2
    <3> QED BY <3>1, <3>2
  <2> QED BY <2>2, <2>3
<1>11. \A id \in DOMAIN byId' : byId'[id] \in StoredAlerts /\ byId'[id].alert.id = id
  BY <1>5 DEF StoreInv, StoredAlerts, Stored
<1> QED BY <1>2, <1>4, <1>6, <1>9, <1>10, <1>11 DEF StoreInv

(* An acknowledgement touches one flag of the map. *)
LEMMA AckKeepsInv ==
    ASSUME StoreInv, NEW id0 \in Ids, AckFirst(id0)
    PROVE  StoreInv'
<1>1. /\ order' = order /\ DOMAIN byId' = DOMAIN byId
      /\ \A id \in DOMAIN byId : byId'[id].alert = byId[id].alert
      /\ \A id \in DOMAIN byId : byId'[id] \in StoredAlerts
  BY DEF AckFirst, Known, StoreInv, StoredAlerts
<1> QED BY <1>1 DEF StoreInv

(* An empty store is in step.                                             *)
LEMMA StoreInvInit == StoreInit => StoreInv
  BY CapacityAssumption DEF StoreInit, StoreInv

(* No operation of the store brings the two containers out of step.        *)
LEMMA StoreInvStep == StoreInv /\ [StoreNext]_storeVars => StoreInv'
<1> SUFFICES ASSUME StoreInv, [StoreNext]_storeVars PROVE StoreInv'
  OBVIOUS
<1>1. ASSUME NEW a \in Alerts, UpsertNew(a) PROVE StoreInv'
  BY <1>1, RingAfterInsert
<1>2. ASSUME NEW id \in Ids, AckFirst(id) PROVE StoreInv'
  BY <1>2, AckKeepsInv
<1>3. CASE UNCHANGED storeVars
  BY <1>3 DEF storeVars, StoreInv
<1>4. ASSUME Lost PROVE StoreInv'
  BY <1>4, CapacityAssumption DEF Lost, StoreInv
<1> QED BY <1>1, <1>2, <1>3, <1>4 DEF StoreNext, UpsertKnown, AckAgain

(* The ring and the map describe the same alerts in every reachable state.  *)
THEOREM StoreInvariant == StoreSpec => []StoreInv
  BY StoreInvInit, StoreInvStep, PTL DEF StoreSpec

(* A retained alert keeps its acknowledgement and its first contents.       *)
THEOREM RetainedStable == StoreSpec => RetainedAlertsAreStable
<1> DEFINE Stable == \A id \in DOMAIN byId \intersect DOMAIN byId' :
                        /\ byId[id].acked => byId'[id].acked
                        /\ byId'[id].alert = byId[id].alert
<1>1. StoreInv /\ [StoreNext]_storeVars => [Stable]_storeVars
  <2> SUFFICES ASSUME StoreInv, StoreNext PROVE Stable
    BY DEF storeVars
  <2>1. ASSUME NEW a \in Alerts, UpsertNew(a) PROVE Stable
    BY <2>1 DEF UpsertNew, Known
  <2>2. ASSUME NEW id \in Ids, AckFirst(id) PROVE Stable
    BY <2>2 DEF AckFirst, Known, StoreInv, StoredAlerts
  <2>3. CASE UNCHANGED storeVars
    BY <2>3 DEF storeVars
  <2>4. ASSUME Lost PROVE Stable
    BY <2>4 DEF Lost
  <2> QED BY <2>1, <2>2, <2>3, <2>4 DEF StoreNext, UpsertKnown, AckAgain
<1> QED BY <1>1, StoreInvariant, PTL DEF StoreSpec, RetainedAlertsAreStable

-----------------------------------------------------------------------------
(* The refinement: what an insertion and an acknowledgement do to the log   *)
(* that the two containers stand for.                                       *)

AsLog == [i \in 1 .. Len(order) |-> byId[order[i]]]

LEMMA InsertIsEnter ==
    ASSUME StoreInv, NEW a \in Alerts, UpsertNew(a)
    PROVE  Log!Enter(a)
<1> DEFINE kept == IF Len(AsLog) < Capacity THEN AsLog ELSE Tail(AsLog)
           entry == [alert |-> a, acked |-> FALSE]
<1>1. /\ order \in Seq(Ids) /\ Len(order) \in Nat /\ Len(order) <= Capacity
      /\ Capacity \in Nat \ {0}
  BY CapacityAssumption DEF StoreInv
<1>2. /\ AsLog \in Seq(StoredAlerts) /\ Len(AsLog) = Len(order)
      /\ \A i \in 1 .. Len(order) : AsLog[i] = byId[order[i]]
  <2>1. \A i \in 1 .. Len(order) : byId[order[i]] \in StoredAlerts
    BY DEF StoreInv
  <2> QED BY <2>1, <1>1 DEF AsLog
<1>3. Full <=> ~ (Len(AsLog) < Capacity)
  BY <1>1, <1>2 DEF Full
<1>4. a.id \notin Log!Retained
  <2>1. \A i \in DOMAIN AsLog : AsLog[i].alert.id \in DOMAIN byId
    BY <1>2, <1>1 DEF StoreInv
  <2> QED BY <2>1 DEF Log!Retained, AsLog, UpsertNew, Known
<1>5. StoreInv'
  BY RingAfterInsert
<1>6. /\ kept \in Seq(StoredAlerts)
      /\ Len(kept) = IF Full THEN Len(order) - 1 ELSE Len(order)
      /\ \A i \in 1 .. Len(kept) :
            kept[i] = byId[order[IF Full THEN i + 1 ELSE i]]
  <2>1. CASE Full
    BY <2>1, <1>1, <1>2, <1>3 DEF Full
  <2>2. CASE ~ Full
    BY <2>2, <1>1, <1>2, <1>3
  <2> QED BY <2>1, <2>2
<1>7. /\ Len(order') = Len(kept) + 1 /\ order' \in Seq(Ids)
      /\ \A i \in 1 .. Len(kept) : order'[i] = order[IF Full THEN i + 1 ELSE i]
      /\ order'[Len(kept) + 1] = a.id
  <2>1. a.id \in Ids
    BY DEF Ids
  <2>2. CASE Full
    BY <2>1, <2>2, <1>1, <1>6 DEF UpsertNew, Full
  <2>3. CASE ~ Full
    BY <2>1, <2>3, <1>1, <1>6 DEF UpsertNew
  <2> QED BY <2>2, <2>3
<1>8. \A i \in 1 .. Len(kept) : byId'[order'[i]] = byId[order[IF Full THEN i + 1 ELSE i]]
  <2> SUFFICES ASSUME NEW i \in 1 .. Len(kept)
               PROVE  byId'[order'[i]] = byId[order[IF Full THEN i + 1 ELSE i]]
    OBVIOUS
  <2>1. Len(kept) \in Nat
    BY <1>6, <1>1 DEF Full
  <2>2. order'[i] # a.id
    <3>1. i # Len(kept) + 1 /\ i \in 1 .. Len(order') /\ Len(kept) + 1 \in 1 .. Len(order')
      BY <2>1, <1>7
    <3> QED BY <3>1, <1>7, <1>5 DEF StoreInv
  <2>3. order'[i] \in DOMAIN byId'
    BY <2>1, <1>5, <1>7 DEF StoreInv
  <2> QED BY <2>2, <2>3, <1>7 DEF UpsertNew
<1>9. byId'[a.id] = entry
  BY DEF UpsertNew, Stored
<1>10. entry \in StoredAlerts
  BY DEF StoredAlerts
<1>11. AsLog' = Append(kept, entry)
  <2>1. Len(kept) \in Nat
    BY <1>6
  <2>2. /\ Append(kept, entry) \in Seq(StoredAlerts)
        /\ Len(Append(kept, entry)) = Len(kept) + 1
        /\ \A i \in 1 .. Len(kept) : Append(kept, entry)[i] = kept[i]
        /\ Append(kept, entry)[Len(kept) + 1] = entry
    BY <1>6, <1>10
  <2>3. AsLog' = [i \in 1 .. Len(kept) + 1 |-> byId'[order'[i]]]
    BY <1>7 DEF AsLog
  <2>4. \A i \in 1 .. Len(kept) + 1 : byId'[order'[i]] = Append(kept, entry)[i]
    <3> SUFFICES ASSUME NEW i \in 1 .. Len(kept) + 1
                 PROVE  byId'[order'[i]] = Append(kept, entry)[i]
      OBVIOUS
    <3>1. CASE i = Len(kept) + 1
      BY <3>1, <2>2, <1>7, <1>9
    <3>2. CASE i # Len(kept) + 1
      <4>1. i \in 1 .. Len(kept)
        BY <3>2, <2>1
      <4> QED BY <4>1, <2>2, <1>6, <1>8
    <3> QED BY <3>1, <3>2
  <2>5. Append(kept, entry) = [i \in 1 .. Len(kept) + 1 |-> Append(kept, entry)[i]]
    BY <2>2
  <2> QED BY <2>3, <2>4, <2>5
<1> QED BY <1>4, <1>11 DEF Log!Enter, AsLog

LEMMA AckIsAcknowledge ==
    ASSUME StoreInv, NEW id0 \in Ids, AckFirst(id0)
    PROVE  \E k \in DOMAIN AsLog : Log!Acknowledge(k)
<1>1. PICK k \in 1 .. Len(order) : order[k] = id0
  BY DEF AckFirst, Known, StoreInv
<1>2. \A i \in 1 .. Len(order) : order[i] \in DOMAIN byId /\ (order[i] = id0 <=> i = k)
  BY <1>1 DEF StoreInv
<1>3. /\ order' = order
      /\ byId' = [byId EXCEPT ![id0] = [byId[id0] EXCEPT !.acked = TRUE]]
  BY DEF AckFirst
<1>4. \A i \in 1 .. Len(order) :
         byId'[order[i]] = IF i = k THEN [byId[order[i]] EXCEPT !.acked = TRUE]
                                    ELSE byId[order[i]]
  BY <1>2, <1>3
<1>5. AsLog' = [AsLog EXCEPT ![k] = [AsLog[k] EXCEPT !.acked = TRUE]]
  BY <1>1, <1>3, <1>4 DEF AsLog
<1> QED BY <1>1, <1>5 DEF Log!Acknowledge, AsLog

(* Ring and map together implement the bounded log of alerts.               *)
THEOREM StoreImplementsLog == StoreSpec => StoreIsLog
<1>1. StoreInit => Log!Init
  BY DEF StoreInit, Log!Init
<1>2. StoreInv /\ [StoreNext]_storeVars => [Log!Next]_AsLog
  <2> SUFFICES ASSUME StoreInv, [StoreNext]_storeVars
               PROVE  Log!Next \/ UNCHANGED AsLog
    OBVIOUS
  <2>1. ASSUME NEW a \in Alerts, UpsertNew(a) PROVE Log!Next
    BY <2>1, InsertIsEnter DEF Log!Next
  <2>2. ASSUME NEW id \in Ids, AckFirst(id) PROVE Log!Next
    BY <2>2, AckIsAcknowledge DEF Log!Next, AsLog
  <2>3. CASE UNCHANGED storeVars
    BY <2>3 DEF storeVars, AsLog
  <2>4. ASSUME Lost PROVE Log!Next
    <3>1. Log!Lose
      BY <2>4 DEF Lost, Log!Lose
    <3> QED BY <3>1 DEF Log!Next
  <2> QED BY <2>1, <2>2, <2>3, <2>4 DEF StoreNext, UpsertKnown, AckAgain
<1>3. StoreInv /\ [StoreNext]_storeVars
         => [Log!Next]_([i \in 1 .. Len(order) |-> byId[order[i]]])
  BY <1>2 DEF AsLog
<1> QED BY <1>1, <1>3, StoreInvariant, PTL DEF StoreSpec, StoreIsLog, Log!Spec

-----------------------------------------------------------------------------
(* list() *)

LEMMA NewestFirstFacts ==
    ASSUME StoreInv
    PROVE  /\ Len(order) \in Nat
           /\ NewestFirst \in Seq(Ids) /\ Len(NewestFirst) = Len(order)
           /\ \A i \in 1 .. Len(order) : NewestFirst[i] = order[Len(order) + 1 - i]
           /\ \A id \in DOMAIN byId : \E i \in 1 .. Len(order) : NewestFirst[i] = id
<1>1. /\ Len(order) \in Nat /\ \A i \in 1 .. Len(order) : order[i] \in Ids
  BY DEF StoreInv
<1>2. \A i \in 1 .. Len(order) : Len(order) + 1 - i \in 1 .. Len(order)
  BY <1>1
<1>3. /\ NewestFirst \in Seq(Ids) /\ Len(NewestFirst) = Len(order)
      /\ \A i \in 1 .. Len(order) : NewestFirst[i] = order[Len(order) + 1 - i]
  BY <1>1, <1>2 DEF NewestFirst
<1>4. ASSUME NEW id \in DOMAIN byId PROVE \E i \in 1 .. Len(order) : NewestFirst[i] = id
  <2>1. PICK j \in 1 .. Len(order) : order[j] = id
    BY DEF StoreInv
  <2>2. Len(order) + 1 - j \in 1 .. Len(order) /\ NewestFirst[Len(order) + 1 - j] = id
    BY <2>1, <1>1, <1>3
  <2> QED BY <2>2
<1> QED BY <1>1, <1>3, <1>4

Hits(since, sev, unacked) == Filter(NewestFirst, Matching(since, sev, unacked))

AreFirst(out, hits, want, limit) ==
    /\ out \in Seq(StoredAlerts) /\ hits \in Seq(Ids) /\ Len(hits) <= Len(order)
    /\ Len(out) = IF Len(hits) < limit THEN Len(hits) ELSE limit
    /\ \A i \in 1 .. Len(hits) : hits[i] \in want
    /\ \A i \in 1 .. Len(out) : out[i] = byId[hits[i]] /\ out[i].alert.id = hits[i]

(* What list() returns: the first of the hits, as the map has them.         *)
LEMMA ListFacts ==
    ASSUME StoreInv, NEW limit \in Nat, NEW since, NEW sev, NEW unacked
    PROVE  AreFirst(List(limit, since, sev, unacked), Hits(since, sev, unacked),
                    Matching(since, sev, unacked), limit)
<1> DEFINE M == Matching(since, sev, unacked)
           hits == Hits(since, sev, unacked)
           size == IF Len(hits) < limit THEN Len(hits) ELSE limit
           out == List(limit, since, sev, unacked)
<1>1. hits \in Seq(Ids) /\ Len(hits) <= Len(order) /\ \E at : IsFilter(hits, NewestFirst, M, at)
  BY NewestFirstFacts, FilterFacts DEF Hits
<1>2. out = [i \in 1 .. size |-> byId[hits[i]]]
  BY DEF List, Hits
<1>3. M \subseteq DOMAIN byId
  BY DEF Matching
<1> HIDE DEF hits, M, out
<1>4. \A i \in 1 .. Len(hits) : hits[i] \in M
  BY <1>1 DEF IsFilter
<1>5. size \in Nat /\ size <= Len(hits)
  BY <1>1
<1>6. \A i \in 1 .. size : byId[hits[i]] \in StoredAlerts /\ byId[hits[i]].alert.id = hits[i]
  BY <1>3, <1>4, <1>5 DEF StoreInv
<1>7. out \in Seq(StoredAlerts) /\ Len(out) = size
  BY <1>2, <1>5, <1>6
<1>8. \A i \in 1 .. Len(out) : out[i] = byId[hits[i]] /\ out[i].alert.id = hits[i]
  BY <1>2, <1>6, <1>7
<1>9. AreFirst(out, hits, M, limit)
  BY <1>1, <1>4, <1>7, <1>8 DEF AreFirst
<1> QED BY <1>9 DEF hits, M, out

(* The answer holds the right alerts in the right order (list).             *)
LEMMA ListExact == StoreInv => ListIsExact
<1> SUFFICES ASSUME StoreInv,
                    NEW limit \in 1 .. Capacity, NEW since \in {0} \union {a.ts : a \in Alerts},
                    NEW sev \in {"any"} \union {a.sev : a \in Alerts}, NEW unacked \in BOOLEAN
             PROVE  LET out == List(limit, since, sev, unacked)
                        want == Matching(since, sev, unacked)
                        Pos(id) == CHOOSE i \in 1 .. Len(order) : order[i] = id
                        got == {out[i].alert.id : i \in DOMAIN out}
                    IN  /\ got \subseteq want
                        /\ Cardinality(got) = Len(out)
                        /\ Len(out) < limit => got = want
                        /\ \A i, j \in DOMAIN out :
                              i < j => Pos(out[i].alert.id) > Pos(out[j].alert.id)
                        /\ \A id \in want \ got, i \in DOMAIN out :
                              Pos(id) < Pos(out[i].alert.id)
  BY DEF ListIsExact
<1> DEFINE out == List(limit, since, sev, unacked)
           want == Matching(since, sev, unacked)
           hits == Hits(since, sev, unacked)
           Pos(id) == CHOOSE i \in 1 .. Len(order) : order[i] = id
           got == {out[i].alert.id : i \in DOMAIN out}
<1>1. limit \in Nat /\ Len(order) \in Nat
  BY CapacityAssumption, NewestFirstFacts
<1>20. AreFirst(out, hits, want, limit)
  BY <1>1, ListFacts, Zenon
<1>2. /\ out \in Seq(StoredAlerts) /\ hits \in Seq(Ids) /\ Len(hits) <= Len(order)
      /\ Len(out) = IF Len(hits) < limit THEN Len(hits) ELSE limit
      /\ \A i \in 1 .. Len(hits) : hits[i] \in want
      /\ \A i \in 1 .. Len(out) : out[i] = byId[hits[i]] /\ out[i].alert.id = hits[i]
  BY <1>20 DEF AreFirst
<1>3. PICK at : IsFilter(hits, NewestFirst, want, at)
  BY NewestFirstFacts, FilterFacts DEF Hits
<1>4. want \subseteq DOMAIN byId
  BY DEF Matching
<1> HIDE DEF out, want, hits
<1>5. /\ Len(hits) \in Nat /\ Len(out) \in Nat /\ Len(out) <= Len(hits) /\ DOMAIN out = 1 .. Len(out)
  BY <1>1, <1>2
<1>6. ASSUME NEW k \in 1 .. Len(hits)
      PROVE  Pos(hits[k]) = Len(order) + 1 - at[k] /\ at[k] \in 1 .. Len(order)
  <2>1. at[k] \in 1 .. Len(order) /\ hits[k] = NewestFirst[at[k]]
    BY <1>3, NewestFirstFacts DEF IsFilter
  <2>2. Len(order) + 1 - at[k] \in 1 .. Len(order) /\ order[Len(order) + 1 - at[k]] = hits[k]
    <3> HIDE DEF hits, Pos, got
    <3>1. Len(order) + 1 - at[k] \in 1 .. Len(order)
      BY <2>1, <1>1
    <3>2. NewestFirst[at[k]] = order[Len(order) + 1 - at[k]]
      BY <2>1, NewestFirstFacts
    <3> QED BY <2>1, <3>1, <3>2
  <2>3. \A i \in 1 .. Len(order) : order[i] = hits[k] => i = Len(order) + 1 - at[k]
    BY <2>2 DEF StoreInv
  <2> QED BY <2>1, <2>2, <2>3
<1>7. \A j, k \in 1 .. Len(hits) : j < k => at[j] < at[k]
  BY <1>3 DEF IsFilter
<1>8. \A j, k \in 1 .. Len(hits) : j < k => Pos(hits[j]) > Pos(hits[k])
  <2> HIDE DEF Pos
  <2> QED BY <1>1, <1>6, <1>7
<1>9. ASSUME NEW id \in want PROVE \E k \in 1 .. Len(hits) : hits[k] = id
  <2>1. PICK i \in 1 .. Len(order) : NewestFirst[i] = id
    BY <1>4, NewestFirstFacts
  <2>2. PICK k \in 1 .. Len(hits) : at[k] = i
    BY <2>1, <1>3, NewestFirstFacts DEF IsFilter
  <2>3. hits[k] = id
    BY <2>1, <2>2, <1>3 DEF IsFilter
  <2> QED BY <2>3
<1>10. \A j, k \in 1 .. Len(hits) : hits[j] = hits[k] => j = k
  <2> SUFFICES ASSUME NEW j \in 1 .. Len(hits), NEW k \in 1 .. Len(hits), hits[j] = hits[k]
               PROVE  j = k
    OBVIOUS
  <2>1. at[j] = at[k] /\ at[j] \in Nat
    <3>1. Len(order) + 1 - at[j] = Len(order) + 1 - at[k] /\ at[j] \in Nat /\ at[k] \in Nat
      <4>1. Pos(hits[j]) = Pos(hits[k])
        OBVIOUS
      <4> HIDE DEF Pos
      <4> QED BY <4>1, <1>6
    <3> QED BY <3>1, <1>1
  <2>2. ~ (j < k) /\ ~ (k < j)
    BY <2>1, <1>7
  <2> QED BY <2>2, <1>5
<1>11. got = {hits[i] : i \in 1 .. Len(out)}
  BY <1>2, <1>5
<1>12. got \subseteq want
  BY <1>2, <1>5, <1>11
<1>13. Cardinality(got) = Len(out)
  <2> DEFINE f == [i \in 1 .. Len(out) |-> hits[i]]
  <2>1. f \in Bijection(1 .. Len(out), got)
    <3> HIDE DEF got
    <3>1. f \in [1 .. Len(out) -> got]
      BY <1>11
    <3>2. \A i, j \in 1 .. Len(out) : f[i] = f[j] => i = j
      BY <1>5, <1>10
    <3>3. \A id \in got : \E i \in 1 .. Len(out) : f[i] = id
      BY <1>11
    <3> HIDE DEF f
    <3> QED BY <3>1, <3>2, <3>3 DEF Bijection, Injection, Surjection, IsInjective
  <2> HIDE DEF f, got, Pos
  <2>2. IsFiniteSet(1 .. Len(out)) /\ Cardinality(1 .. Len(out)) = Len(out)
    <3> DEFINE n == Len(out)
    <3>1. n \in Nat
      BY <1>5
    <3> HIDE DEF n
    <3>2. IsFiniteSet(1 .. n) /\ Cardinality(1 .. n) = n
      BY <3>1, FS_Interval
    <3> QED BY <3>2 DEF n
  <2>3. ExistsBijection(1 .. Len(out), got)
    BY <2>1 DEF ExistsBijection
  <2> QED BY <2>2, <2>3, FS_Bijection
<1>14. Len(out) < limit => got = want
  <2> SUFFICES ASSUME Len(out) < limit PROVE want \subseteq got
    BY <1>12
  <2>1. Len(out) = Len(hits)
    BY <1>2, <1>1
  <2> QED BY <2>1, <1>9, <1>11
<1>15. \A i, j \in DOMAIN out : i < j => Pos(out[i].alert.id) > Pos(out[j].alert.id)
  <2>1. \A i \in DOMAIN out : i \in 1 .. Len(hits) /\ out[i].alert.id = hits[i]
    BY <1>2, <1>5
  <2> HIDE DEF Pos
  <2> QED BY <1>8, <2>1
<1>16. ASSUME NEW id \in want \ got, NEW i \in DOMAIN out PROVE Pos(id) < Pos(out[i].alert.id)
  <2>1. PICK k \in 1 .. Len(hits) : hits[k] = id
    BY <1>9
  <2>2. k \notin 1 .. Len(out)
    BY <2>1, <1>11
  <2>3. i \in 1 .. Len(hits) /\ i < k /\ out[i].alert.id = hits[i]
    BY <2>2, <1>2, <1>5
  <2> HIDE DEF Pos, got
  <2>4. Pos(hits[k]) \in Int /\ Pos(hits[i]) \in Int /\ Pos(hits[i]) > Pos(hits[k])
    BY <2>3, <1>1, <1>6, <1>8
  <2> QED BY <2>1, <2>3, <2>4
<1> QED BY <1>12, <1>13, <1>14, <1>15, <1>16 DEF out, want

(* For every limit and filter, what the store answers is exact.             *)
THEOREM ListIsExactTheorem == StoreSpec => []ListIsExact
  BY StoreInvariant, ListExact, PTL

-----------------------------------------------------------------------------
(* The store in the running system. *)

(* Every step of hub and bar is a step of the store or leaves it alone; an  *)
(* id that the store knows is the id of an alert, which StoreInv says.      *)
LEMMA StepOfStore == StoreInv /\ [Next]_vars => [StoreNext]_storeVars
<1> SUFFICES ASSUME StoreInv, [Next]_vars PROVE [StoreNext]_storeVars
  OBVIOUS
<1>1. ASSUME NEW a \in Alerts, Post(a) PROVE [StoreNext]_storeVars
  BY <1>1 DEF Post, StoreNext
<1>2. ASSUME NEW id \in Ids, AckAtHub(id) PROVE [StoreNext]_storeVars
  BY <1>2 DEF AckAtHub, StoreNext
<1>3. ASSUME NEW id \in Ids, OtherAcks(id) PROVE [StoreNext]_storeVars
  BY <1>2, <1>3 DEF OtherAcks
<1>4. CASE HubStops
  BY <1>4 DEF HubStops, StoreNext
<1>5. CASE Connect \/ Disconnect \/ HubStarts \/ Deliver
  BY <1>5 DEF Connect, Disconnect, HubStarts, Deliver, storeVars
<1>6. ASSUME NEW c \in Calls, AskSync(c) \/ AnswerSync(c) \/ ApplySync(c)
      PROVE  [StoreNext]_storeVars
  BY <1>6 DEF AskSync, AnswerSync, ApplySync, storeVars
<1>7. ASSUME NEW c \in Calls, AskAck(c) \/ ApplyAck(c) \/ RequestFails(c)
      PROVE  [StoreNext]_storeVars
  BY <1>7 DEF AskAck, ApplyAck, RequestFails, storeVars
<1>8. ASSUME NEW c \in Calls, AnswerAck(c) PROVE [StoreNext]_storeVars
  <2> DEFINE id == Head(call[c].todo)
  <2>1. CASE AckAtHub(id)
    <3>1. AckFirst(id) \/ AckAgain(id)
      BY <2>1 DEF AckAtHub
    <3>2. id \in Ids
      BY <3>1 DEF AckFirst, AckAgain, Known, StoreInv
    <3> QED BY <3>1, <3>2 DEF StoreNext
  <2>2. CASE UNCHANGED <<order, byId, wire>>
    BY <2>2 DEF storeVars
  <2> QED BY <1>8, <2>1, <2>2 DEF AnswerAck
<1>9. CASE UNCHANGED vars
  BY <1>9 DEF vars, storeVars
<1> QED BY <1>1, <1>3, <1>4, <1>5, <1>6, <1>7, <1>8, <1>9 DEF Next

(* In the running hub the two containers of the store stay in step          *)
(* (store/alertStore.ts), whatever its clients send and when it restarts.   *)
THEOREM SystemKeepsStoreInv == Spec => []StoreInv
<1>1. Init => StoreInv
  BY StoreInvInit DEF Init
<1>2. StoreInv /\ [Next]_vars => StoreInv'
  BY StepOfStore, StoreInvStep
<1> QED BY <1>1, <1>2, PTL DEF Spec

(* The system implements the store, for every bound and set of failures.    *)
THEOREM SystemImplementsStore == Spec => StoreSpec
<1>1. Init => StoreInit
  BY DEF Init
<1> QED BY <1>1, StepOfStore, SystemKeepsStoreInv, PTL DEF Spec, StoreSpec

(* The running hub neither forgets an acknowledgement nor replaces an alert *)
(* while it retains it.                                                     *)
THEOREM SystemRetains == Spec => RetainedAlertsAreStable
  BY SystemImplementsStore, RetainedStable

(* The running hub implements the abstract log of alerts.                   *)
THEOREM SystemImplementsLog == Spec => StoreIsLog
  BY SystemImplementsStore, StoreImplementsLog

(* What the running hub lists is exact.                                     *)
THEOREM SystemListIsExact == Spec => []ListIsExact
  BY SystemKeepsStoreInv, ListExact, PTL

-----------------------------------------------------------------------------
(* The bar: what it holds, what is under way to it, and what it has asked.  *)

Bound == IF Capacity > MaxItems THEN Capacity ELSE MaxItems

ItemsOK(its) ==
    /\ its = [id \in DOMAIN its |-> its[id]]
    /\ IsFiniteSet(DOMAIN its) /\ Cardinality(DOMAIN its) <= Bound
    /\ \A id \in DOMAIN its : its[id] \in StoredAlerts /\ its[id].alert.id = id

(* A snapshot is no longer than the ring; any other message is of one alert.*)
Messages ==
    [type : {"snapshot"}, items : {list \in Seq(StoredAlerts) : Len(list) <= Capacity}]
        \union [type : {"alert", "ack"}, items : {list \in Seq(StoredAlerts) : Len(list) = 1}]

Stages == {"sent", "answered"}
Requests ==
    {NoCall}
        \union [kind : {"sync"}, source : {"sync", "none"}, stage : Stages,
                answer : Seq(StoredAlerts)]
        \union [kind : {"ack"}, todo : Seq(Ids) \ {<<>>}, stage : Stages,
                answer : Seq(StoredAlerts)]

Servers ==
    /\ hub \in {"up", "down"} /\ link \in {"open", "closed"}
    /\ hub = "down" => link = "closed" /\ byId = [id \in {} |-> FALSE]
    /\ link = "closed" => wire = <<>>

SystemInv ==
    /\ StoreInv
    /\ Servers
    /\ wire \in Seq(Messages)
    /\ ItemsOK(items)
    /\ notified \subseteq Ids
    /\ call \in [Calls -> Requests]

LEMMA BoundFacts ==
    Bound \in Nat /\ MaxItems \in Nat /\ Capacity \in Nat /\ MaxItems <= Bound /\ Capacity <= Bound
  BY CapacityAssumption, SystemAssumption DEF Bound

(* One alert of the list with the least time stamp exists.                  *)
LEMMA OldestExists ==
    ASSUME NEW its, DOMAIN its # {},
           \A id \in DOMAIN its : its[id] \in StoredAlerts
    PROVE  Oldest(its) \in DOMAIN its
<1> DEFINE T == {its[id].alert.ts : id \in DOMAIN its}
<1>1. T \in SUBSET Nat /\ T # {}
  BY StampAssumption DEF StoredAlerts
<1>2. PICK m \in T : \A k \in T : m <= k
  <2> HIDE DEF T
  <2> QED BY <1>1, LeastNumber
<1>3. PICK id \in DOMAIN its : its[id].alert.ts = m
  BY <1>2
<1>4. \A i \in DOMAIN its : its[id].alert.ts <= its[i].alert.ts
  BY <1>2, <1>3
<1> QED BY <1>4 DEF Oldest

(* An upsert of the bar keeps its items within the bound.                   *)
LEMMA MergedOK ==
    ASSUME NEW its, ItemsOK(its), NEW s \in StoredAlerts
    PROVE  ItemsOK(Merged(its, s))
<1> DEFINE id0 == s.alert.id
           D == DOMAIN its \union {id0}
           more == [id \in D |-> IF id = id0 THEN s ELSE its[id]]
<1>1. /\ IsFiniteSet(DOMAIN its) /\ Cardinality(DOMAIN its) \in Nat
      /\ Cardinality(DOMAIN its) <= Bound
  BY FS_CardinalityType DEF ItemsOK
<1>2. /\ IsFiniteSet(D) /\ Cardinality(D) \in Nat
      /\ Cardinality(D) <= Cardinality(DOMAIN its) + 1
  <2> HIDE DEF id0
  <2> QED BY <1>1, FS_AddElement, FS_CardinalityType
<1>3. DOMAIN more = D /\ \A id \in D : more[id] \in StoredAlerts /\ more[id].alert.id = id
  BY DEF ItemsOK
<1>4. Merged(its, s) = Trimmed(more)
  BY DEF Merged
<1> HIDE DEF more
<1>5. CASE Cardinality(D) <= MaxItems
  <2>1. Merged(its, s) = more
    BY <1>3, <1>4, <1>5 DEF Trimmed
  <2>2. more = [id \in D |-> more[id]]
    BY DEF more
  <2>3. Cardinality(D) <= Bound
    BY <1>2, <1>5, BoundFacts
  <2> QED BY <1>2, <1>3, <2>1, <2>2, <2>3 DEF ItemsOK
<1>6. CASE ~ (Cardinality(D) <= MaxItems)
  <2> DEFINE out == Oldest(more)
             cut == [id \in D \ {out} |-> more[id]]
  <2>1. Merged(its, s) = cut
    BY <1>3, <1>4, <1>6 DEF Trimmed
  <2>2. out \in D
    <3>1. D # {}
      BY <1>3
    <3> QED BY <1>3, <3>1, OldestExists
  <2> HIDE DEF out, D
  <2>3. IsFiniteSet(D \ {out}) /\ Cardinality(D \ {out}) = Cardinality(D) - 1
    BY <1>2, <2>2, FS_RemoveElement
  <2>4. Cardinality(D \ {out}) <= Bound
    BY <1>1, <1>2, <2>3, BoundFacts
  <2>5. \A id \in D \ {out} : cut[id] \in StoredAlerts /\ cut[id].alert.id = id
    BY <1>3
  <2>6. DOMAIN cut = D \ {out} /\ cut = [id \in D \ {out} |-> cut[id]]
    OBVIOUS
  <2> HIDE DEF cut
  <2> QED BY <2>1, <2>3, <2>4, <2>5, <2>6 DEF ItemsOK
<1> QED BY <1>5, <1>6

UpsertStep(list, f, n) == IF n = 0 THEN items ELSE Merged(f[n - 1], list[n])

(* The recursion of AfterUpserts defines a function.                        *)
LEMMA UpsertsAreDefined ==
    ASSUME NEW list, NEW N \in Nat
    PROVE  \E f : f = [n \in 0 .. N |-> UpsertStep(list, f, n)]
<1> DEFINE P == {n \in 0 .. N : \E f : f = [m \in 0 .. n |-> UpsertStep(list, f, m)]}
<1>1. 0 \in P
  <2> DEFINE f == [m \in 0 .. 0 |-> items]
  <2>1. f = [m \in 0 .. 0 |-> UpsertStep(list, f, m)]
    BY DEF UpsertStep
  <2> HIDE DEF f
  <2> QED BY <2>1
<1>2. ASSUME NEW n \in 0 .. N - 1, n \in P PROVE n + 1 \in P
  <2>1. PICK f : f = [m \in 0 .. n |-> UpsertStep(list, f, m)]
    BY <1>2
  <2> DEFINE g == [m \in 0 .. n + 1 |-> IF m <= n THEN f[m] ELSE UpsertStep(list, f, n + 1)]
  <2>2. ASSUME NEW m \in 0 .. n + 1 PROVE g[m] = UpsertStep(list, g, m)
    <3>1. CASE m = 0
      BY <3>1, <2>1 DEF UpsertStep
    <3>2. CASE m # 0 /\ m <= n
      <4>1. f[m] = UpsertStep(list, f, m) /\ g[m] = f[m] /\ g[m - 1] = f[m - 1]
        BY <3>2, <2>1
      <4> QED BY <4>1 DEF UpsertStep
    <3>3. CASE m = n + 1
      <4>1. g[m] = UpsertStep(list, f, n + 1) /\ g[m - 1] = f[m - 1]
        BY <3>3
      <4> QED BY <4>1, <3>3 DEF UpsertStep
    <3> QED BY <3>1, <3>2, <3>3
  <2>3. g = [m \in 0 .. n + 1 |-> UpsertStep(list, g, m)]
    <3>1. g = [m \in 0 .. n + 1 |-> g[m]]
      OBVIOUS
    <3> HIDE DEF g
    <3> QED BY <2>2, <3>1
  <2> HIDE DEF g
  <2>4. n + 1 \in 0 .. N
    OBVIOUS
  <2> QED BY <2>3, <2>4
<1>3. \A n \in 0 .. N : n \in P
  <2> HIDE DEF P
  <2> QED BY <1>1, <1>2, Induction
<1>4. N \in P
  BY <1>3
<1> QED BY <1>4

(* Upserts of a whole list keep the items within the bound; a list of one   *)
(* is one upsert.                                                           *)
LEMMA UpsertsOK ==
    ASSUME ItemsOK(items), NEW list \in Seq(StoredAlerts)
    PROVE  /\ ItemsOK(AfterUpserts(list))
           /\ Len(list) = 1 => AfterUpserts(list) = Merged(items, list[1])
<1> DEFINE N == Len(list)
           f == CHOOSE f : f = [n \in 0 .. N |-> UpsertStep(list, f, n)]
           P == {n \in 0 .. N : ItemsOK(f[n])}
<1>0. N \in Nat /\ \A i \in 1 .. N : list[i] \in StoredAlerts
  OBVIOUS
<1>1. f = [n \in 0 .. N |-> UpsertStep(list, f, n)]
  BY <1>0, UpsertsAreDefined
<1>2. AfterUpserts(list) = f[N]
  BY DEF AfterUpserts, UpsertStep
<1> HIDE DEF f, N
<1>3. f[0] = items /\ \A n \in 1 .. N : f[n] = Merged(f[n - 1], list[n])
  BY <1>0, <1>1 DEF UpsertStep
<1>4. 0 \in P
  BY <1>0, <1>3
<1>5. \A n \in 0 .. N - 1 : n \in P => n + 1 \in P
  <2> SUFFICES ASSUME NEW n \in 0 .. N - 1, ItemsOK(f[n]) PROVE n + 1 \in P
    OBVIOUS
  <2>1. n + 1 \in 1 .. N /\ f[n + 1] = Merged(f[n], list[n + 1]) /\ list[n + 1] \in StoredAlerts
    BY <1>0, <1>3
  <2>2. ItemsOK(Merged(f[n], list[n + 1]))
    BY <2>1, MergedOK
  <2> QED BY <2>1, <2>2
<1>6. \A n \in 0 .. N : n \in P
  <2> HIDE DEF P
  <2> QED BY <1>0, <1>4, <1>5, Induction
<1>7. ItemsOK(f[N])
  BY <1>0, <1>6
<1>8. N = 1 => f[N] = Merged(items, list[1])
  BY <1>3
<1> QED BY <1>2, <1>7, <1>8 DEF N

LEMMA SystemInvInit == Init => SystemInv
<1> SUFFICES ASSUME Init PROVE SystemInv
  OBVIOUS
<1>1. StoreInv
  BY StoreInvInit DEF Init
<1>2. Servers
  BY DEF Init, StoreInit, Servers
<1>3. wire \in Seq(Messages) /\ notified \subseteq Ids
  BY DEF Init
<1>4. ItemsOK(items)
  <2>1. items = [id \in {} |-> FALSE] /\ DOMAIN items = {}
    BY DEF Init
  <2>2. IsFiniteSet({}) /\ Cardinality({}) = 0
    BY FS_EmptySet
  <2> QED BY <2>1, <2>2, BoundFacts DEF ItemsOK
<1>5. call \in [Calls -> Requests]
  BY DEF Init, Requests
<1> QED BY <1>1, <1>2, <1>3, <1>4, <1>5 DEF SystemInv

(* A broadcast of one alert keeps the wire typed, and closed if it was.     *)
LEMMA BroadcastOK ==
    ASSUME wire \in Seq(Messages), NEW t \in {"alert", "ack"}, NEW s \in StoredAlerts,
           Broadcast([type |-> t, items |-> <<s>>])
    PROVE  /\ wire' \in Seq(Messages)
           /\ link # "open" => wire' = wire
<1> DEFINE msg == [type |-> t, items |-> <<s>>]
<1>1. msg \in Messages
  <2>1. <<s>> \in Seq(StoredAlerts) /\ Len(<<s>>) = 1
    OBVIOUS
  <2> QED BY <2>1 DEF Messages
<1> HIDE DEF msg
<1>2. (link = "open" /\ wire' = Append(wire, msg)) \/ (link # "open" /\ wire' = wire)
  BY DEF Broadcast, msg
<1> QED BY <1>1, <1>2

(* A message leaves the bar's items within the bound.                       *)
LEMMA DeliverOK ==
    ASSUME SystemInv, Deliver
    PROVE  /\ ItemsOK(items') /\ notified' \subseteq Ids
           /\ wire' = Tail(wire) /\ wire' \in Seq(Messages)
<1> DEFINE msg == Head(wire)
           ids == {msg.items[i].alert.id : i \in DOMAIN msg.items}
           pick == [i \in DOMAIN msg.items |-> msg.items[i].alert.id]
<1>1. wire \in Seq(Messages) /\ wire # <<>> /\ wire' = Tail(wire)
  BY DEF Deliver, SystemInv
<1>2. msg \in Messages /\ wire' \in Seq(Messages)
  BY <1>1
<1>3. ItemsOK(items) /\ notified \subseteq Ids
  BY DEF SystemInv
<1>4. /\ msg.items \in Seq(StoredAlerts)
      /\ msg.type = "snapshot" => Len(msg.items) <= Capacity
  BY <1>2 DEF Messages
<1>5. DOMAIN msg.items = 1 .. Len(msg.items) /\ Len(msg.items) \in Nat
      /\ \A i \in DOMAIN msg.items : msg.items[i] \in StoredAlerts
  BY <1>4
<1>6. /\ msg.type = "snapshot" =>
            /\ notified' = notified
            /\ items' = [id \in ids |-> msg.items[CHOOSE i \in DOMAIN msg.items :
                                                    msg.items[i].alert.id = id]]
      /\ msg.type # "snapshot" =>
            Upsert(msg.items, IF msg.type = "alert" THEN "ws" ELSE "none")
  BY DEF Deliver
<1> HIDE DEF msg
<1>7. CASE msg.type = "snapshot"
  <2>1. \A id \in ids : LET i == CHOOSE i \in DOMAIN msg.items : msg.items[i].alert.id = id
                        IN  msg.items[i] \in StoredAlerts /\ msg.items[i].alert.id = id
    BY <1>5
  <2>2. DOMAIN items' = ids /\ items' = [id \in ids |-> items'[id]]
    BY <1>6, <1>7
  <2>3. \A id \in ids : items'[id] \in StoredAlerts /\ items'[id].alert.id = id
    <3> SUFFICES ASSUME NEW id \in ids
                 PROVE  items'[id] \in StoredAlerts /\ items'[id].alert.id = id
      OBVIOUS
    <3> DEFINE i == CHOOSE i \in DOMAIN msg.items : msg.items[i].alert.id = id
    <3>1. msg.items[i] \in StoredAlerts /\ msg.items[i].alert.id = id
      BY <2>1
    <3>2. items'[id] = msg.items[i]
      BY <1>6, <1>7
    <3> QED BY <3>1, <3>2
  <2>4. IsFiniteSet(ids) /\ Cardinality(ids) <= Len(msg.items)
    <3> DEFINE n == Len(msg.items)
    <3>0. n \in Nat /\ DOMAIN msg.items = 1 .. n
      BY <1>5
    <3> HIDE DEF n
    <3>1. IsFiniteSet(1 .. n) /\ Cardinality(1 .. n) = n
      BY <3>0, FS_Interval
    <3>2. pick \in Surjection(1 .. n, ids)
      BY <3>0 DEF Surjection
    <3> HIDE DEF pick, ids
    <3> QED BY <3>1, <3>2, FS_Surjection DEF n
  <2>5. Cardinality(ids) <= Bound
    <3>1. Cardinality(ids) \in Nat
      BY <2>4, FS_CardinalityType
    <3> QED BY <3>1, <2>4, <1>4, <1>5, <1>7, BoundFacts
  <2> HIDE DEF ids
  <2>6. ItemsOK(items')
    BY <2>2, <2>3, <2>4, <2>5 DEF ItemsOK
  <2> QED BY <2>6, <1>1, <1>2, <1>3, <1>6, <1>7
<1>8. CASE msg.type # "snapshot"
  <2>1. /\ items' = AfterUpserts(msg.items)
        /\ \A id \in notified' : id \in notified
              \/ \E i \in DOMAIN msg.items : msg.items[i].alert.id = id
    BY <1>6, <1>8 DEF Upsert
  <2>2. ItemsOK(AfterUpserts(msg.items))
    BY <1>3, <1>4, UpsertsOK
  <2>3. notified' \subseteq Ids
    BY <1>3, <1>5, <2>1 DEF StoredAlerts, Ids
  <2> QED BY <1>1, <1>2, <2>1, <2>2, <2>3
<1> QED BY <1>7, <1>8

(* So does the answer to a request.                                         *)
LEMMA UpsertOK ==
    ASSUME SystemInv, NEW list \in Seq(StoredAlerts), NEW source, Upsert(list, source)
    PROVE  ItemsOK(items') /\ notified' \subseteq Ids
<1>1. ItemsOK(items) /\ notified \subseteq Ids
  BY DEF SystemInv
<1>2. /\ items' = AfterUpserts(list)
      /\ \A id \in notified' : id \in notified \/ \E i \in DOMAIN list : list[i].alert.id = id
  BY DEF Upsert
<1>3. \A i \in DOMAIN list : list[i].alert.id \in Ids
  <2>1. \A i \in DOMAIN list : list[i] \in StoredAlerts
    OBVIOUS
  <2> QED BY <2>1 DEF StoredAlerts, Ids
<1> QED BY <1>1, <1>2, <1>3, UpsertsOK

SyncRequests == [kind : {"sync"}, source : {"sync", "none"}, stage : Stages,
                 answer : Seq(StoredAlerts)]
AckRequests == [kind : {"ack"}, todo : Seq(Ids) \ {<<>>}, stage : Stages,
                answer : Seq(StoredAlerts)]

(* The kind of a request tells its shape.                                   *)
LEMMA RequestKinds ==
    ASSUME SystemInv, NEW c \in Calls
    PROVE  /\ call[c] \in Requests
           /\ call[c].kind = "sync" => call[c] \in SyncRequests
           /\ call[c].kind = "ack" => call[c] \in AckRequests
           /\ SyncRequests \subseteq Requests /\ AckRequests \subseteq Requests
           /\ NoCall \in Requests
<1>1. call[c] \in Requests
  BY DEF SystemInv
<1>2. Requests = {NoCall} \union SyncRequests \union AckRequests
  BY DEF Requests, SyncRequests, AckRequests
<1>3. \A r \in SyncRequests : r.kind = "sync"
  BY DEF SyncRequests
<1>4. \A r \in AckRequests : r.kind = "ack"
  BY DEF AckRequests
<1>5. NoCall.kind = "none"
  BY DEF NoCall
<1> QED BY <1>1, <1>2, <1>3, <1>4, <1>5

(* The next request of an acknowledgement, if one is left.                  *)
LEMMA NextAckOK ==
    ASSUME SystemInv, NEW c \in Calls, call[c].kind = "ack"
    PROVE  NextAck(c) \in Requests
<1>1. call[c] \in AckRequests /\ AckRequests \subseteq Requests /\ NoCall \in Requests
  BY RequestKinds
<1>2. call[c].todo \in Seq(Ids) /\ call[c].todo # <<>>
  BY <1>1 DEF AckRequests
<1>3. CASE Len(call[c].todo) = 1
  BY <1>1, <1>3 DEF NextAck
<1>4. CASE Len(call[c].todo) # 1
  <2>1. Tail(call[c].todo) \in Seq(Ids) /\ Tail(call[c].todo) # <<>>
    <3> DEFINE todo == call[c].todo
    <3>1. todo \in Seq(Ids) /\ todo # <<>> /\ Len(todo) # 1
      BY <1>2, <1>4
    <3> HIDE DEF todo
    <3>2. Tail(todo) \in Seq(Ids) /\ Len(Tail(todo)) = Len(todo) - 1
      BY <3>1
    <3>3. Len(todo) \in Nat /\ Len(todo) # 0 /\ Len(<<>>) = 0
      BY <3>1
    <3>4. Tail(todo) # <<>>
      <4> DEFINE t == Tail(todo)
      <4>1. Len(t) # 0
        BY <3>1, <3>2, <3>3
      <4> HIDE DEF t
      <4>2. t # <<>>
        BY <4>1, <3>3
      <4> QED BY <4>2 DEF t
    <3> QED BY <3>2, <3>4 DEF todo
  <2>2. NextAck(c) = [call[c] EXCEPT !.todo = Tail(call[c].todo), !.stage = "sent",
                                     !.answer = <<>>]
    BY <1>4 DEF NextAck
  <2>3. <<>> \in Seq(StoredAlerts)
    OBVIOUS
  <2>4. NextAck(c) \in AckRequests
    BY <1>1, <2>1, <2>2, <2>3 DEF AckRequests, Stages
  <2> QED BY <1>1, <2>4
<1> QED BY <1>3, <1>4

(* The acknowledgement at the hub, whoever asked for it.                    *)
LEMMA AckAtHubOK ==
    ASSUME SystemInv, NEW id, AckAtHub(id), hub = "up"
    PROVE  /\ StoreInv' /\ wire' \in Seq(Messages) /\ (link # "open" => wire' = wire)
           /\ byId'[id] \in StoredAlerts
<1>1. AckFirst(id) \/ AckAgain(id)
  BY DEF AckAtHub
<1>2. id \in DOMAIN byId /\ id \in Ids
  BY <1>1 DEF AckFirst, AckAgain, Known, SystemInv, StoreInv
<1>3. StoreInv /\ wire \in Seq(Messages)
  BY DEF SystemInv
<1>4. StoreInv'
  BY <1>1, <1>2, <1>3, StoreInvStep DEF StoreNext
<1>5. DOMAIN byId' = DOMAIN byId
  BY <1>1 DEF AckFirst, AckAgain, storeVars
<1>6. byId'[id] \in StoredAlerts
  BY <1>2, <1>4, <1>5 DEF StoreInv
<1>7. Broadcast([type |-> "ack", items |-> <<byId'[id]>>])
  BY DEF AckAtHub
<1>8. PICK s : s = byId'[id] /\ Broadcast([type |-> "ack", items |-> <<s>>])
  BY <1>7
<1>9. wire' \in Seq(Messages) /\ (link # "open" => wire' = wire)
  BY <1>3, <1>6, <1>8, BroadcastOK
<1> QED BY <1>4, <1>6, <1>9

(* Every step of hub and bar keeps the types.                               *)
LEMMA SystemInvStep == SystemInv /\ [Next]_vars => SystemInv'
<1> SUFFICES ASSUME SystemInv, [Next]_vars PROVE SystemInv'
  OBVIOUS
<1>0. /\ StoreInv /\ Servers /\ wire \in Seq(Messages) /\ ItemsOK(items) /\ notified \subseteq Ids
      /\ call \in [Calls -> Requests]
      /\ StoreInv'
  BY StepOfStore, StoreInvStep DEF SystemInv
<1>1. ASSUME NEW a \in Alerts, Post(a) PROVE SystemInv'
  <2>1. UNCHANGED <<hub, link, items, notified, call>> /\ hub = "up"
    BY <1>1 DEF Post
  <2>2. Stored(a, FALSE) \in StoredAlerts
    BY DEF Stored, StoredAlerts
  <2>3. wire' \in Seq(Messages) /\ (link # "open" => wire' = wire)
    BY <1>0, <1>1, <2>2, BroadcastOK DEF Post
  <2>4. Servers'
    BY <1>0, <2>1, <2>3 DEF Servers
  <2> QED BY <1>0, <2>1, <2>3, <2>4 DEF SystemInv
<1>2. ASSUME NEW id \in Ids, OtherAcks(id) PROVE SystemInv'
  <2>1. UNCHANGED <<hub, link, items, notified, call>> /\ hub = "up" /\ AckAtHub(id)
    BY <1>2 DEF OtherAcks
  <2>2. wire' \in Seq(Messages) /\ (link # "open" => wire' = wire)
    BY <2>1, AckAtHubOK
  <2>3. Servers'
    BY <1>0, <2>1, <2>2 DEF Servers
  <2> QED BY <1>0, <2>1, <2>2, <2>3 DEF SystemInv
<1>3. CASE Connect
  <2>1. UNCHANGED <<order, byId, hub, items, notified, call>> /\ hub = "up" /\ link' = "open"
    BY <1>3 DEF Connect
  <2>2. [type |-> "snapshot", items |-> Snapshot] \in Messages
    <3>1. Snapshot = List(Capacity, 0, "any", FALSE)
      BY DEF Snapshot
    <3>2. AreFirst(Snapshot, Hits(0, "any", FALSE), Matching(0, "any", FALSE), Capacity)
      BY <1>0, <3>1, BoundFacts, ListFacts, Zenon
    <3>3. Snapshot \in Seq(StoredAlerts) /\ Len(Snapshot) <= Capacity
      <4>1. PICK hits : AreFirst(Snapshot, hits, Matching(0, "any", FALSE), Capacity)
        BY <3>2
      <4>2. hits \in Seq(Ids) /\ Capacity \in Nat
        BY <4>1, BoundFacts DEF AreFirst
      <4>3. Len(hits) \in Nat
        BY <4>2
      <4> QED BY <4>1, <4>2, <4>3 DEF AreFirst
    <3> QED BY <3>3 DEF Messages
  <2>3. wire' \in Seq(Messages)
    BY <1>3, <2>2 DEF Connect
  <2>4. Servers'
    BY <1>0, <2>1 DEF Servers
  <2> QED BY <1>0, <2>1, <2>3, <2>4 DEF SystemInv
<1>4. CASE Disconnect
  <2>1. /\ UNCHANGED <<order, byId, hub, items, notified, call>>
        /\ link' = "closed" /\ wire' = <<>>
    BY <1>4 DEF Disconnect
  <2>2. Servers' /\ wire' \in Seq(Messages)
    BY <1>0, <2>1 DEF Servers
  <2> QED BY <1>0, <2>1, <2>2 DEF SystemInv
<1>5. CASE HubStops
  <2>1. UNCHANGED <<items, notified, call>> /\ hub' = "down" /\ link' = "closed" /\ wire' = <<>>
    BY <1>5 DEF HubStops
  <2>2. byId' = [id \in {} |-> FALSE]
    BY <1>5 DEF HubStops, Lost
  <2>3. Servers' /\ wire' \in Seq(Messages)
    BY <2>1, <2>2 DEF Servers
  <2> QED BY <1>0, <2>1, <2>3 DEF SystemInv
<1>6. CASE HubStarts
  <2>1. UNCHANGED <<order, byId, link, wire, items, notified, call>> /\ hub' = "up"
    BY <1>6 DEF HubStarts
  <2>2. Servers'
    BY <1>0, <2>1 DEF Servers
  <2> QED BY <1>0, <2>1, <2>2 DEF SystemInv
<1>7. CASE Deliver
  <2>1. UNCHANGED <<order, byId, hub, link, call>> /\ wire # <<>>
    BY <1>7 DEF Deliver
  <2>2. ItemsOK(items') /\ notified' \subseteq Ids /\ wire' \in Seq(Messages)
    BY <1>7, DeliverOK
  <2>3. Servers'
    BY <1>0, <2>1 DEF Servers
  <2>4. ItemsOK(items)'
    BY <2>2 DEF ItemsOK
  <2> QED BY <1>0, <2>1, <2>2, <2>3, <2>4 DEF SystemInv
<1>8. ASSUME NEW c \in Calls, UNCHANGED <<order, byId, hub, link, wire, items, notified>>,
             NEW r \in Requests, call' = [call EXCEPT ![c] = r]
      PROVE  SystemInv'
  <2>1. call' \in [Calls -> Requests]
    BY <1>0, <1>8
  <2>2. Servers' /\ ItemsOK(items)'
    BY <1>0, <1>8 DEF Servers, ItemsOK
  <2> QED BY <1>0, <1>8, <2>1, <2>2 DEF SystemInv
<1>9. ASSUME NEW c \in Calls, AskSync(c) PROVE SystemInv'
  <2>1. PICK source \in {"sync", "none"} :
           call' = [call EXCEPT ![c] = [kind |-> "sync", source |-> source, stage |-> "sent",
                                        answer |-> <<>>]]
    BY <1>9 DEF AskSync
  <2>2. [kind |-> "sync", source |-> source, stage |-> "sent", answer |-> <<>>] \in Requests
    <3>1. <<>> \in Seq(StoredAlerts)
      OBVIOUS
    <3>2. [kind |-> "sync", source |-> source, stage |-> "sent", answer |-> <<>>] \in SyncRequests
      BY <3>1 DEF SyncRequests, Stages
    <3> QED BY <3>2, RequestKinds
  <2>3. UNCHANGED <<order, byId, hub, link, wire, items, notified>>
    BY <1>9 DEF AskSync
  <2> QED BY <1>8, <2>1, <2>2, <2>3
<1>10. ASSUME NEW c \in Calls, AnswerSync(c) PROVE SystemInv'
  <2> DEFINE list == List(MaxItems, 0, "any", FALSE)
             r == [call[c] EXCEPT !.stage = "answered", !.answer = list]
  <2>1. list \in Seq(StoredAlerts)
    <3>1. AreFirst(list, Hits(0, "any", FALSE), Matching(0, "any", FALSE), MaxItems)
      BY <1>0, BoundFacts, ListFacts, Zenon
    <3> QED BY <3>1 DEF AreFirst
  <2>2. /\ UNCHANGED <<order, byId, hub, link, wire, items, notified>>
        /\ call[c].kind = "sync" /\ call' = [call EXCEPT ![c] = r]
    BY <1>10 DEF AnswerSync
  <2> HIDE DEF list
  <2>3. r \in SyncRequests
    <3>1. call[c] \in SyncRequests
      BY <2>2, RequestKinds
    <3> QED BY <2>1, <3>1 DEF SyncRequests, Stages
  <2>4. r \in Requests
    BY <2>3, RequestKinds
  <2> HIDE DEF r
  <2> QED BY <1>8, <2>2, <2>4
<1>11. ASSUME NEW c \in Calls, NEW list \in Seq(StoredAlerts), NEW source, Upsert(list, source),
              UNCHANGED <<order, byId, hub, link, wire>>,
              NEW r \in Requests, call' = [call EXCEPT ![c] = r]
       PROVE  SystemInv'
  <2>1. ItemsOK(items') /\ notified' \subseteq Ids
    BY <1>11, UpsertOK
  <2>2. ItemsOK(items)'
    BY <2>1 DEF ItemsOK
  <2>3. call' \in [Calls -> Requests]
    BY <1>0, <1>11
  <2>4. Servers'
    BY <1>0, <1>11 DEF Servers
  <2> QED BY <1>0, <1>11, <2>1, <2>2, <2>3, <2>4 DEF SystemInv
<1>12. ASSUME NEW c \in Calls, ApplySync(c) PROVE SystemInv'
  <2>1. /\ call[c].kind = "sync" /\ Upsert(call[c].answer, call[c].source)
        /\ call' = [call EXCEPT ![c] = NoCall] /\ UNCHANGED <<order, byId, hub, link, wire>>
    BY <1>12 DEF ApplySync
  <2>2. call[c].answer \in Seq(StoredAlerts)
    <3>1. call[c] \in SyncRequests
      BY <2>1, RequestKinds
    <3> QED BY <3>1 DEF SyncRequests
  <2>3. NoCall \in Requests
    BY RequestKinds
  <2>4. PICK list, source : list = call[c].answer /\ Upsert(list, source)
    BY <2>1
  <2> QED BY <1>11, <2>1, <2>2, <2>3, <2>4
<1>13. ASSUME NEW c \in Calls, AskAck(c) PROVE SystemInv'
  <2>1. UNCHANGED <<order, byId, hub, link, wire, items, notified>>
    BY <1>13 DEF AskAck
  <2>2. PICK todo \in {<<id>> : id \in DOMAIN items} \union ByNewest(UnackedItems) :
           /\ todo # <<>>
           /\ call' = [call EXCEPT ![c] = [kind |-> "ack", todo |-> todo, stage |-> "sent",
                                           answer |-> <<>>]]
    BY <1>13 DEF AskAck
  <2>3. DOMAIN items \subseteq Ids
    BY <1>0 DEF ItemsOK, StoredAlerts, Ids
  <2>4. todo \in Seq(Ids)
    <3>1. CASE todo \in {<<id>> : id \in DOMAIN items}
      <4>1. PICK id \in DOMAIN items : todo = <<id>>
        BY <3>1
      <4>2. id \in Ids
        BY <2>3
      <4> QED BY <4>1, <4>2
    <3>2. CASE todo \in ByNewest(UnackedItems)
      <4>1. UnackedItems \in SUBSET DOMAIN items
        BY DEF UnackedItems
      <4>2. Cardinality(UnackedItems) \in Nat
        BY <4>1, <1>0, FS_Subset, FS_CardinalityType DEF ItemsOK
      <4>3. todo \in [1 .. Cardinality(UnackedItems) -> UnackedItems]
        BY <3>2 DEF ByNewest
      <4>4. todo \in [1 .. Cardinality(UnackedItems) -> Ids]
        BY <4>1, <4>3, <2>3
      <4> QED BY <4>2, <4>4, ArrayOf
    <3> QED BY <3>1, <3>2
  <2>5. [kind |-> "ack", todo |-> todo, stage |-> "sent", answer |-> <<>>] \in Requests
    <3>1. <<>> \in Seq(StoredAlerts)
      OBVIOUS
    <3>2. [kind |-> "ack", todo |-> todo, stage |-> "sent", answer |-> <<>>] \in AckRequests
      BY <2>2, <2>4, <3>1 DEF AckRequests, Stages
    <3> QED BY <3>2, RequestKinds
  <2> QED BY <1>8, <2>1, <2>2, <2>5
<1>14. ASSUME NEW c \in Calls, AnswerAck(c) PROVE SystemInv'
  <2> DEFINE id == Head(call[c].todo)
  <2>1. /\ UNCHANGED <<hub, link, items, notified>> /\ hub = "up"
        /\ call[c].kind = "ack"
    BY <1>14 DEF AnswerAck
  <2>2. call[c] \in AckRequests /\ AckRequests \subseteq Requests
    BY <2>1, RequestKinds
  <2>3. CASE AckAtHub(id)
             /\ call' = [call EXCEPT ![c].stage = "answered", ![c].answer = <<byId'[id]>>]
    <3>1. PICK i : i = id /\ AckAtHub(i)
      BY <2>3
    <3> HIDE DEF id
    <3>2. /\ wire' \in Seq(Messages) /\ (link # "open" => wire' = wire)
          /\ byId'[i] \in StoredAlerts
      BY <2>1, <3>1, AckAtHubOK
    <3> DEFINE r == [call[c] EXCEPT !.stage = "answered", !.answer = <<byId'[i]>>]
    <3>3. r \in AckRequests
      <4>1. <<byId'[i]>> \in Seq(StoredAlerts)
        BY <3>2
      <4> DEFINE ans == <<byId'[i]>>
      <4> HIDE DEF ans
      <4>2. ans \in Seq(StoredAlerts)
        BY <4>1 DEF ans
      <4>3. [call[c] EXCEPT !.stage = "answered", !.answer = ans] \in AckRequests
        BY <2>2, <4>2 DEF AckRequests, Stages
      <4> QED BY <4>3 DEF ans
    <3>4. call' = [call EXCEPT ![c] = r]
      BY <2>3, <3>1
    <3> HIDE DEF r
    <3>5. call' \in [Calls -> Requests]
      BY <1>0, <2>2, <3>3, <3>4
    <3>6. Servers'
      BY <1>0, <2>1, <3>2 DEF Servers
    <3> QED BY <1>0, <2>1, <3>2, <3>5, <3>6 DEF SystemInv
  <2>4. CASE /\ call' = [call EXCEPT ![c].stage = "answered"]
             /\ UNCHANGED <<order, byId, wire>>
    <3> DEFINE r == [call[c] EXCEPT !.stage = "answered"]
    <3>1. r \in AckRequests
      BY <2>2 DEF AckRequests, Stages
    <3>2. call' = [call EXCEPT ![c] = r]
      BY <2>4
    <3>3. r \in Requests
      BY <2>2, <3>1
    <3> HIDE DEF r
    <3> QED BY <1>8, <2>1, <2>4, <3>2, <3>3
  <2> QED BY <1>14, <2>3, <2>4 DEF AnswerAck
<1>15. ASSUME NEW c \in Calls, ApplyAck(c) PROVE SystemInv'
  <2>1. /\ call[c].kind = "ack" /\ Upsert(call[c].answer, "none")
        /\ call' = [call EXCEPT ![c] = NextAck(c)] /\ UNCHANGED <<order, byId, hub, link, wire>>
    BY <1>15 DEF ApplyAck
  <2>2. call[c].answer \in Seq(StoredAlerts)
    <3>1. call[c] \in AckRequests
      BY <2>1, RequestKinds
    <3> QED BY <3>1 DEF AckRequests
  <2>3. NextAck(c) \in Requests
    BY <2>1, NextAckOK
  <2>4. PICK list, r : list = call[c].answer /\ r = NextAck(c) /\ Upsert(list, "none")
                       /\ call' = [call EXCEPT ![c] = r]
    BY <2>1
  <2> QED BY <1>11, <2>1, <2>2, <2>3, <2>4
<1>16. ASSUME NEW c \in Calls, RequestFails(c) PROVE SystemInv'
  <2>1. UNCHANGED <<order, byId, hub, link, wire, items, notified>>
    BY <1>16 DEF RequestFails
  <2>2. PICK r : /\ r = IF call[c].kind = "ack" THEN NextAck(c) ELSE NoCall
                 /\ call' = [call EXCEPT ![c] = r]
    BY <1>16 DEF RequestFails
  <2>3. r \in Requests
    BY <2>2, NextAckOK, RequestKinds
  <2> QED BY <1>8, <2>1, <2>2, <2>3
<1>17. CASE UNCHANGED vars
  <2>1. UNCHANGED <<hub, link, wire, items, notified, call, order, byId>>
    BY <1>17 DEF vars
  <2>2. Servers' /\ ItemsOK(items)'
    BY <1>0, <2>1 DEF Servers, ItemsOK
  <2> QED BY <1>0, <2>1, <2>2 DEF SystemInv
<1> QED BY <1>1, <1>2, <1>3, <1>4, <1>5, <1>6, <1>7, <1>9, <1>10, <1>12, <1>13, <1>14, <1>15,
           <1>16, <1>17 DEF Next

THEOREM SystemInvariant == Spec => []SystemInv
  BY SystemInvInit, SystemInvStep, PTL DEF Spec

(* The servers, the socket and the bar are typed and bounded, whatever      *)
(* fails and however many requests are under way.                           *)
THEOREM SystemTypeOK == Spec => []TypeOK
<1>1. SystemInv => TypeOK
  BY DEF SystemInv, Servers, ItemsOK, Bound, TypeOK
<1> QED BY <1>1, SystemInvariant, PTL

-----------------------------------------------------------------------------
(* The socket alone. *)

Mentions(k, id) == \E i \in DOMAIN wire[k].items : wire[k].items[i].alert.id = id

Shown(id) == id \in DOMAIN items /\ items[id] = byId[id]

(* The last word on an alert: what the bar holds (k = 0) or the k-th        *)
(* message under way is as the hub has it, nothing after it says otherwise, *)
(* and no later snapshot could drop it.                                     *)
LastWord(id, k) ==
    /\ IF k = 0 THEN Shown(id) ELSE Mentions(k, id)
    /\ \A j \in 1 .. Len(wire) : \A i \in DOMAIN wire[j].items :
          j >= k /\ wire[j].items[i].alert.id = id => wire[j].items[i] = byId[id]
    /\ \A j \in 1 .. Len(wire) : j > k => wire[j].type # "snapshot"

LiveInv ==
    link = "open" => \A id \in DOMAIN byId : \E k \in 0 .. Len(wire) : LastWord(id, k)

(* Messages under way: of alerts, and of one alert unless it is a snapshot. *)
LEMMA WireFacts ==
    ASSUME SystemInv
    PROVE  /\ Len(wire) \in Nat
           /\ \A k \in 1 .. Len(wire) :
                 /\ wire[k] \in Messages
                 /\ wire[k].items \in Seq(StoredAlerts)
                 /\ wire[k].type # "snapshot" => Len(wire[k].items) = 1
<1>1. Len(wire) \in Nat /\ \A k \in 1 .. Len(wire) : wire[k] \in Messages
  BY DEF SystemInv
<1>2. \A m \in Messages : /\ m.items \in Seq(StoredAlerts)
                          /\ m.type # "snapshot" => Len(m.items) = 1
  BY DEF Messages
<1> QED BY <1>1, <1>2

(* A change that is broadcast is the last word on its alert.                *)
LEMMA BroadcastIsLastWord ==
    ASSUME SystemInv, LiveInv, link = "open", NEW t \in {"alert", "ack"}, NEW id0,
           wire' = Append(wire, [type |-> t, items |-> <<byId'[id0]>>]),
           byId'[id0].alert.id = id0, items' = items,
           \A id \in DOMAIN byId' \ {id0} : id \in DOMAIN byId /\ byId'[id] = byId[id]
    PROVE  LiveInv'
<1>0. PICK L : L = Len(wire)
  OBVIOUS
<1> DEFINE msg == [type |-> t, items |-> <<byId'[id0]>>]
<1>1. L \in Nat /\ wire \in Seq(Messages)
  BY <1>0, WireFacts DEF SystemInv
<1>2. /\ msg.type # "snapshot" /\ DOMAIN msg.items = {1} /\ msg.items[1] = byId'[id0]
  OBVIOUS
<1> HIDE DEF msg
<1>3. /\ Len(wire') = L + 1 /\ wire'[L + 1] = msg
      /\ \A j \in 1 .. L : wire'[j] = wire[j]
  BY <1>0, <1>1 DEF msg
<1> SUFFICES ASSUME NEW id \in DOMAIN byId' PROVE \E k \in 0 .. Len(wire') : LastWord(id, k)'
  BY DEF LiveInv
<1>4. CASE id = id0
  <2>1. Mentions(L + 1, id)'
    BY <1>2, <1>3, <1>4 DEF Mentions
  <2>2. \A j \in 1 .. L + 1 : j >= L + 1 => j = L + 1
    BY <1>1
  <2>3. LastWord(id, L + 1)'
    BY <1>1, <1>2, <1>3, <1>4, <2>1, <2>2 DEF LastWord
  <2>4. L + 1 \in 0 .. L + 1
    BY <1>1
  <2> QED BY <2>3, <2>4, <1>3
<1>5. CASE id # id0
  <2>1. id \in DOMAIN byId /\ byId'[id] = byId[id]
    BY <1>5
  <2>2. PICK k \in 0 .. L : LastWord(id, k)
    BY <1>0, <2>1 DEF LiveInv
  <2>3. IF k = 0 THEN Shown(id)' ELSE Mentions(k, id)'
    <3>1. CASE k = 0
      BY <3>1, <2>1, <2>2 DEF LastWord, Shown
    <3>2. CASE k # 0
      <4>1. Mentions(k, id) /\ k \in 1 .. L
        BY <3>2, <2>2, <1>1 DEF LastWord
      <4> QED BY <3>2, <4>1, <1>3 DEF Mentions
    <3> QED BY <3>1, <3>2
  <2>4. ASSUME NEW j \in 1 .. L + 1, NEW i \in DOMAIN wire'[j].items, j >= k,
               wire'[j].items[i].alert.id = id
        PROVE  wire'[j].items[i] = byId'[id]
    <3>1. j # L + 1
      BY <2>4, <1>2, <1>3, <1>5
    <3>2. j \in 1 .. L /\ wire'[j] = wire[j]
      BY <3>1, <1>1, <1>3
    <3> QED BY <3>2, <2>1, <2>2, <2>4, <1>0 DEF LastWord
  <2>5. ASSUME NEW j \in 1 .. L + 1, j > k PROVE wire'[j].type # "snapshot"
    <3>1. CASE j = L + 1
      BY <3>1, <1>2, <1>3
    <3>2. CASE j # L + 1
      <4>1. j \in 1 .. L /\ wire'[j] = wire[j]
        BY <3>2, <1>1, <1>3
      <4> QED BY <4>1, <2>2, <2>5, <1>0 DEF LastWord
    <3> QED BY <3>1, <3>2
  <2>6. LastWord(id, k)'
    BY <2>3, <2>4, <2>5, <1>3 DEF LastWord
  <2>7. k \in 0 .. L + 1
    BY <1>1
  <2> QED BY <2>6, <2>7, <1>3
<1> QED BY <1>4, <1>5

(* A snapshot holds every alert of the store as it is.                      *)
LEMMA SnapshotIsWhole ==
    ASSUME StoreInv
    PROVE  /\ \A i \in DOMAIN Snapshot : LET s == Snapshot[i] IN s = byId[s.alert.id]
           /\ \A id \in DOMAIN byId : \E i \in DOMAIN Snapshot : Snapshot[i].alert.id = id
<1> DEFINE M == Matching(0, "any", FALSE)
           hits == Hits(0, "any", FALSE)
<1>1. M = DOMAIN byId
  BY DEF Matching, Matches
<1>2. Snapshot = List(Capacity, 0, "any", FALSE)
  BY DEF Snapshot
<1>3. AreFirst(Snapshot, hits, M, Capacity)
  BY <1>2, BoundFacts, ListFacts, Zenon
<1>4. PICK at : IsFilter(hits, NewestFirst, M, at)
  BY NewestFirstFacts, FilterFacts DEF Hits
<1> HIDE DEF M, hits
<1>5. /\ hits \in Seq(Ids) /\ Len(hits) \in Nat /\ Len(hits) <= Capacity
      /\ Capacity \in Nat /\ Snapshot \in Seq(StoredAlerts)
  <2>1. hits \in Seq(Ids) /\ Len(hits) <= Len(order) /\ Snapshot \in Seq(StoredAlerts)
    BY <1>3 DEF AreFirst
  <2>2. Len(order) \in Nat /\ Len(order) <= Capacity
    BY DEF StoreInv
  <2>3. Len(hits) \in Nat
    BY <2>1
  <2> QED BY <2>1, <2>2, <2>3, BoundFacts
<1>6. Len(Snapshot) = Len(hits) /\ DOMAIN Snapshot = 1 .. Len(hits)
  <2>1. Len(Snapshot) = Len(hits)
    BY <1>3, <1>5 DEF AreFirst
  <2> QED BY <2>1, <1>5
<1>7. \A i \in 1 .. Len(hits) : Snapshot[i] = byId[hits[i]] /\ Snapshot[i].alert.id = hits[i]
  BY <1>3, <1>6 DEF AreFirst
<1>8. ASSUME NEW id \in DOMAIN byId PROVE \E i \in DOMAIN Snapshot : Snapshot[i].alert.id = id
  <2>1. PICK n \in 1 .. Len(order) : NewestFirst[n] = id
    BY NewestFirstFacts
  <2>2. PICK k \in 1 .. Len(hits) : at[k] = n
    BY <1>1, <1>4, <2>1, NewestFirstFacts DEF IsFilter
  <2>3. hits[k] = id
    BY <1>4, <2>1, <2>2 DEF IsFilter
  <2> QED BY <2>3, <1>6, <1>7
<1> QED BY <1>6, <1>7, <1>8

(* With room for every id, an upsert shows the alert and drops no other.    *)
LEMMA RoomForAll ==
    ASSUME IsFiniteSet(Ids), Cardinality(Ids) <= MaxItems, ItemsOK(items), NEW s \in StoredAlerts
    PROVE  Merged(items, s) = [id \in DOMAIN items \union {s.alert.id} |->
                                  IF id = s.alert.id THEN s ELSE items[id]]
<1> DEFINE D == DOMAIN items \union {s.alert.id}
           more == [id \in D |-> IF id = s.alert.id THEN s ELSE items[id]]
<1>1. D \in SUBSET Ids
  BY DEF ItemsOK, StoredAlerts, Ids
<1>2. Cardinality(D) <= MaxItems
  <2> HIDE DEF D
  <2>1. Cardinality(D) <= Cardinality(Ids) /\ IsFiniteSet(D)
    BY <1>1, FS_Subset
  <2>2. Cardinality(D) \in Nat /\ Cardinality(Ids) \in Nat
    BY <2>1, FS_CardinalityType
  <2> QED BY <2>1, <2>2, BoundFacts
<1>3. DOMAIN more = D /\ Merged(items, s) = Trimmed(more)
  BY DEF Merged
<1> HIDE DEF more, D
<1>4. Trimmed(more) = more
  BY <1>2, <1>3 DEF Trimmed
<1> QED BY <1>3, <1>4 DEF more, D

(* The message that arrives was the last word, or another is still under way*)
(* or what the bar holds still is.                                          *)
LEMMA DeliverKeepsLive ==
    ASSUME IsFiniteSet(Ids), Cardinality(Ids) <= MaxItems, SystemInv, LiveInv, Deliver
    PROVE  LiveInv'
<1> DEFINE L == Len(wire)
           msg == Head(wire)
           ids == {msg.items[i].alert.id : i \in DOMAIN msg.items}
<1>1. /\ wire # <<>> /\ wire' = Tail(wire) /\ UNCHANGED <<byId, link>> /\ msg = wire[1]
  BY DEF Deliver, SystemInv
<1>2. /\ L \in Nat /\ L >= 1 /\ Len(wire') = L - 1
      /\ \A j \in 1 .. L - 1 : wire'[j] = wire[j + 1]
  <2>1. wire \in Seq(Messages)
    BY DEF SystemInv
  <2>2. L \in Nat /\ L # 0
    BY <2>1, <1>1
  <2>3. Len(Tail(wire)) = L - 1 /\ \A j \in 1 .. L - 1 : Tail(wire)[j] = wire[j + 1]
    BY <2>1, <1>1
  <2> QED BY <2>2, <2>3, <1>1
<1>3. /\ msg.items \in Seq(StoredAlerts) /\ (msg.type # "snapshot" => Len(msg.items) = 1)
  BY <1>1, <1>2, WireFacts
<1>4. /\ msg.type = "snapshot" =>
            items' = [id \in ids |-> msg.items[CHOOSE i \in DOMAIN msg.items :
                                                 msg.items[i].alert.id = id]]
      /\ msg.type # "snapshot" => items' = AfterUpserts(msg.items)
  BY DEF Deliver, Upsert
<1> SUFFICES ASSUME link = "open", NEW id \in DOMAIN byId
             PROVE  \E k \in 0 .. L - 1 : LastWord(id, k)'
  BY <1>1, <1>2 DEF LiveInv
<1>5. PICK k \in 0 .. L : LastWord(id, k)
  BY DEF LiveInv
<1> HIDE DEF L, msg
<1>6. /\ k = 0 => Shown(id)
      /\ k # 0 => Mentions(k, id)
      /\ \A j \in 1 .. L : \A i \in DOMAIN wire[j].items :
            j >= k /\ wire[j].items[i].alert.id = id => wire[j].items[i] = byId[id]
      /\ \A j \in 1 .. L : j > k => wire[j].type # "snapshot"
  BY <1>5 DEF LastWord, L
<1>7. ASSUME NEW n \in 0 .. L - 1, k <= n + 1, n = 0 => Shown(id)', n # 0 => Mentions(n + 1, id)
      PROVE  \E m \in 0 .. L - 1 : LastWord(id, m)'
  <2>1. n # 0 => Mentions(n, id)'
    <3> SUFFICES ASSUME n # 0 PROVE Mentions(n, id)'
      OBVIOUS
    <3>1. wire'[n] = wire[n + 1]
      BY <1>2
    <3> QED BY <3>1, <1>7 DEF Mentions
  <2>2. \A j \in 1 .. L - 1 : /\ j + 1 \in 1 .. L /\ wire'[j] = wire[j + 1]
                              /\ j >= n => j + 1 >= k
                              /\ j > n => j + 1 > k
    BY <1>2, <1>7
  <2>3. \A j \in 1 .. L - 1 : \A i \in DOMAIN wire'[j].items :
           j >= n /\ wire'[j].items[i].alert.id = id => wire'[j].items[i] = byId'[id]
    BY <1>1, <1>6, <2>2
  <2>4. \A j \in 1 .. L - 1 : j > n => wire'[j].type # "snapshot"
    BY <1>6, <2>2
  <2>5. IF n = 0 THEN Shown(id)' ELSE Mentions(n, id)'
    BY <1>7, <2>1
  <2>6. LastWord(id, n)'
    BY <1>2, <2>3, <2>4, <2>5 DEF LastWord
  <2> QED BY <2>6
<1>8. CASE k >= 2
  <2>1. k - 1 \in 0 .. L - 1 /\ k <= (k - 1) + 1 /\ k - 1 # 0 /\ (k - 1) + 1 = k /\ k # 0
    BY <1>2, <1>8
  <2>2. Mentions((k - 1) + 1, id)
    BY <2>1, <1>6
  <2> QED BY <2>1, <2>2, <1>7
<1>9. CASE k < 2
  <2>1. \A i \in DOMAIN msg.items : msg.items[i].alert.id = id => msg.items[i] = byId[id]
    <3>1. 1 \in 1 .. L /\ 1 >= k
      BY <1>2, <1>9
    <3> QED BY <3>1, <1>1, <1>6
  <2>2. CASE msg.type = "snapshot"
    <3>1. k = 1
      BY <2>2, <1>1, <1>2, <1>6, <1>9
    <3>2. PICK i0 \in DOMAIN msg.items : msg.items[i0].alert.id = id
      BY <3>1, <1>1, <1>6 DEF Mentions
    <3> DEFINE i1 == CHOOSE i \in DOMAIN msg.items : msg.items[i].alert.id = id
    <3>3. i1 \in DOMAIN msg.items /\ msg.items[i1].alert.id = id
      BY <3>2
    <3>4. id \in DOMAIN items' /\ items'[id] = msg.items[i1]
      <4>1. id \in ids
        BY <3>2
      <4> QED BY <2>2, <4>1, <1>4
    <3>5. Shown(id)'
      <4> HIDE DEF i1
      <4> QED BY <2>1, <3>3, <3>4, <1>1 DEF Shown
    <3> QED BY <3>5, <1>2, <1>7, <1>9
  <2>3. CASE msg.type # "snapshot"
    <3> DEFINE s == msg.items[1]
    <3>1. s \in StoredAlerts /\ ItemsOK(items) /\ DOMAIN msg.items = {1}
      BY <1>3, <2>3 DEF SystemInv
    <3>2. items' = Merged(items, s)
      BY <1>3, <1>4, <2>3, <3>1, UpsertsOK
    <3> HIDE DEF s
    <3>3. items' = [i \in DOMAIN items \union {s.alert.id} |-> IF i = s.alert.id THEN s ELSE items[i]]
      BY <3>1, <3>2, RoomForAll
    <3>4. s.alert.id = id => s = byId[id]
      BY <2>1, <3>1 DEF s
    <3>5. CASE s.alert.id = id
      <4>1. Shown(id)'
        BY <3>3, <3>4, <3>5, <1>1 DEF Shown
      <4> QED BY <4>1, <1>2, <1>7, <1>9
    <3>6. CASE s.alert.id # id
      <4>1. k = 0
        <5>1. ~ Mentions(1, id)
          BY <3>1, <3>6, <1>1 DEF Mentions, s
        <5> QED BY <5>1, <1>2, <1>6, <1>9
      <4>2. Shown(id)'
        BY <4>1, <3>3, <3>6, <1>1, <1>6 DEF Shown
      <4> QED BY <4>2, <1>2, <1>7, <1>9
    <3> QED BY <3>5, <3>6
  <2> QED BY <2>2, <2>3
<1> QED BY <1>2, <1>8, <1>9

LEMMA LiveInvStep ==
    ASSUME Calls = {}, IsFiniteSet(Ids), Cardinality(Ids) <= MaxItems
    PROVE  SystemInv /\ LiveInv /\ [Next]_vars => LiveInv'
<1> SUFFICES ASSUME SystemInv, LiveInv, [Next]_vars PROVE LiveInv'
  OBVIOUS
<1>1. ASSUME NEW a \in Alerts, Post(a) PROVE LiveInv'
  <2>1. UNCHANGED <<link, items>>
    BY <1>1 DEF Post
  <2>2. CASE UpsertKnown(a) /\ UNCHANGED wire
    BY <2>1, <2>2 DEF UpsertKnown, storeVars, LiveInv, LastWord, Shown, Mentions
  <2>3. CASE UpsertNew(a) /\ Broadcast([type |-> "alert", items |-> <<Stored(a, FALSE)>>])
    <3>1. /\ byId'[a.id] = Stored(a, FALSE)
          /\ \A id \in DOMAIN byId' \ {a.id} : id \in DOMAIN byId /\ byId'[id] = byId[id]
      BY <2>3 DEF UpsertNew
    <3>2. byId'[a.id].alert.id = a.id
      BY <3>1 DEF Stored
    <3>3. CASE link = "open"
      <4>1. wire' = Append(wire, [type |-> "alert", items |-> <<byId'[a.id]>>])
        BY <2>3, <3>1, <3>3 DEF Broadcast
      <4>2. PICK id0 : id0 = a.id
        OBVIOUS
      <4>3. /\ wire' = Append(wire, [type |-> "alert", items |-> <<byId'[id0]>>])
            /\ byId'[id0].alert.id = id0 /\ items' = items
            /\ \A id \in DOMAIN byId' \ {id0} : id \in DOMAIN byId /\ byId'[id] = byId[id]
        BY <2>1, <3>1, <3>2, <4>1, <4>2
      <4> QED BY <3>3, <4>3, BroadcastIsLastWord
    <3>4. CASE link # "open"
      BY <2>1, <3>4 DEF LiveInv
    <3> QED BY <3>3, <3>4
  <2> QED BY <1>1, <2>2, <2>3 DEF Post
<1>2. ASSUME NEW id \in Ids, OtherAcks(id) PROVE LiveInv'
  <2>1. /\ UNCHANGED <<link, items>> /\ (AckFirst(id) \/ AckAgain(id))
        /\ Broadcast([type |-> "ack", items |-> <<byId'[id]>>])
    BY <1>2 DEF OtherAcks, AckAtHub
  <2>2. id \in DOMAIN byId /\ StoreInv
    BY <2>1 DEF AckFirst, AckAgain, Known, SystemInv
  <2>3. /\ DOMAIN byId' = DOMAIN byId
        /\ \A i \in DOMAIN byId \ {id} : byId'[i] = byId[i]
    BY <2>1 DEF AckFirst, AckAgain, storeVars
  <2>4. byId'[id].alert.id = id
    <3>1. StoreInv'
      BY <2>1, <2>2, StoreInvStep DEF StoreNext
    <3> QED BY <3>1, <2>2, <2>3 DEF StoreInv
  <2>5. CASE link = "open"
    <3>1. wire' = Append(wire, [type |-> "ack", items |-> <<byId'[id]>>])
      BY <2>1, <2>5 DEF Broadcast
    <3> QED BY <2>1, <2>3, <2>4, <2>5, <3>1, BroadcastIsLastWord
  <2>6. CASE link # "open"
    BY <2>1, <2>6 DEF LiveInv
  <2> QED BY <2>5, <2>6
<1>3. CASE Connect
  <2>1. wire' = <<[type |-> "snapshot", items |-> Snapshot]>> /\ byId' = byId
    BY <1>3 DEF Connect
  <2>2. StoreInv
    BY DEF SystemInv
  <2>3. Len(wire') = 1 /\ wire'[1].items = Snapshot
    BY <2>1
  <2> SUFFICES ASSUME NEW id \in DOMAIN byId' PROVE LastWord(id, 1)'
    BY <2>3 DEF LiveInv
  <2>4. Mentions(1, id)'
    BY <2>1, <2>2, <2>3, SnapshotIsWhole DEF Mentions
  <2>5. \A i \in DOMAIN wire'[1].items :
           wire'[1].items[i].alert.id = id => wire'[1].items[i] = byId'[id]
    BY <2>1, <2>2, <2>3, SnapshotIsWhole
  <2>6. \A j \in 1 .. Len(wire') : j = 1
    BY <2>3
  <2> QED BY <2>4, <2>5, <2>6 DEF LastWord
<1>4. CASE Disconnect \/ HubStops
  BY <1>4 DEF Disconnect, HubStops, LiveInv
<1>5. CASE HubStarts \/ UNCHANGED vars
  BY <1>5 DEF HubStarts, vars, LiveInv, LastWord, Shown, Mentions
<1>6. CASE Deliver
  BY <1>6, DeliverKeepsLive
<1> QED BY <1>1, <1>2, <1>3, <1>4, <1>5, <1>6 DEF Next

(* The socket alone keeps the bar's view exact, whatever the hub is sent,   *)
(* however often it restarts and the socket is lost: if the bar makes no    *)
(* requests of its own, whose answers may be old, and has room for all ids, *)
(* so that MAX_ITEMS makes it drop none.                                    *)
THEOREM LiveViewTheorem ==
    ASSUME Calls = {}, IsFiniteSet(Ids), Cardinality(Ids) <= MaxItems
    PROVE  Spec => []LiveViewIsCurrent
<1>1. Init => LiveInv
  BY DEF Init, LiveInv
<1>2. SystemInv /\ LiveInv /\ [Next]_vars => LiveInv'
  BY LiveInvStep
<1>3. SystemInv /\ LiveInv => LiveViewIsCurrent
  <2> SUFFICES ASSUME LiveInv, link = "open", wire = <<>>, NEW id \in DOMAIN byId PROVE Shown(id)
    BY DEF LiveViewIsCurrent, Shown
  <2>1. Len(wire) = 0
    OBVIOUS
  <2>2. LastWord(id, 0)
    BY <2>1 DEF LiveInv
  <2> QED BY <2>2 DEF LastWord
<1> QED BY <1>1, <1>2, <1>3, SystemInvariant, PTL DEF Spec
=============================================================================
