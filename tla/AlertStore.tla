----------------------------- MODULE AlertStore -----------------------------
(***************************************************************************)
(* The alert memory of alert-hub (apps/alert-hub/src/store/alertStore.ts): *)
(* a map from alert id to alert and the order in which the ids arrived.    *)
(* Both containers change in every upsert, and the code keeps them in step *)
(* by hand.                                                                *)
(*                                                                         *)
(* An alert is a record [id, sev, ts].  Two alerts may carry one id: a     *)
(* producer that sets the id itself can send it again with other contents. *)
(* The time and the author of an acknowledgement are abstracted away.      *)
(***************************************************************************)
EXTENDS ArrayFilter, FiniteSets

CONSTANTS Alerts,   \* the alerts that producers may post
          Capacity  \* ALERT_HUB_RING_SIZE, clamped to at least 1 by the config

\* loadConfig clamps the ring size to 1..5000.
ASSUME CapacityAssumption == Capacity \in Nat \ {0}

VARIABLES
    order, \* ids in arrival order, oldest first
    byId   \* id -> stored alert, a function whose domain is the ids held

storeVars == <<order, byId>>

Ids == {a.id : a \in Alerts}

Stored(a, acked) == [alert |-> a, acked |-> acked]

StoredAlerts == [alert : Alerts, acked : BOOLEAN]

StoreInit ==
    /\ order = <<>>
    /\ byId = [id \in {} |-> FALSE]

-----------------------------------------------------------------------------
(* upsert: a known id is answered with what is stored, a new one evicts the *)
(* head of the ring when it is full and is then entered un-acknowledged.    *)

Known(id) == id \in DOMAIN byId

FullOneLate == Len(order) > Capacity     \* mutant: off by one

Full == Len(order) >= Capacity

UpsertNew(a) ==
    /\ ~ Known(a.id)
    /\ order' = Append(IF Full THEN Tail(order) ELSE order, a.id)
    /\ LET dropped == IF Full THEN {Head(order)} ELSE {}
       IN  byId' = [id \in (DOMAIN byId \ dropped) \union {a.id} |->
                       IF id = a.id THEN Stored(a, FALSE) ELSE byId[id]]

UpsertRefreshes(a) ==                    \* mutant: the known alert is replaced
    /\ Known(a.id)
    /\ byId' = [byId EXCEPT ![a.id] = Stored(a, FALSE)]
    /\ UNCHANGED order

UpsertMovesUp(a) ==                      \* mutant: a repeated post rejuvenates
    /\ Known(a.id)
    /\ order' = Append(Filter(order, Ids \ {a.id}), a.id)
    /\ UNCHANGED byId

UpsertKnown(a) ==
    /\ Known(a.id)
    /\ UNCHANGED storeVars

(* ack: unknown ids are refused, a second ack returns what is stored. *)
AckFirst(id) ==
    /\ Known(id)
    /\ ~ byId[id].acked
    /\ byId' = [byId EXCEPT ![id].acked = TRUE]
    /\ UNCHANGED order

AckAgain(id) ==
    /\ Known(id)
    /\ byId[id].acked
    /\ UNCHANGED storeVars

(* The store is memory only: it ends with the process. *)
Lost ==
    /\ order' = <<>>
    /\ byId' = [id \in {} |-> FALSE]

StoreNext ==
    \/ \E a \in Alerts : UpsertNew(a) \/ UpsertKnown(a)
    \/ \E id \in Ids : AckFirst(id) \/ AckAgain(id)
    \/ Lost

StoreSpec == StoreInit /\ [][StoreNext]_storeVars

-----------------------------------------------------------------------------
(* list: newest first, only ids the map still holds, filtered, and cut at   *)
(* limit.  A filter of 0 or "any" is an option the caller left out.         *)

Matches(s, since, sev, unacked) ==
    /\ since # 0 => s.alert.ts >= since
    /\ sev # "any" => s.alert.sev = sev
    /\ unacked => ~ s.acked

Matching(since, sev, unacked) ==
    {id \in DOMAIN byId : Matches(byId[id], since, sev, unacked)}

NewestFirst == [i \in 1 .. Len(order) |-> order[Len(order) + 1 - i]]

ListCutFirst(limit, since, sev, unacked) ==  \* mutant: limit before the filters
    LET size == IF Len(order) < limit THEN Len(order) ELSE limit
        hits == Filter(SubSeq(NewestFirst, 1, size), Matching(since, sev, unacked))
    IN  [i \in 1 .. Len(hits) |-> byId[hits[i]]]

List(limit, since, sev, unacked) ==
    LET hits == Filter(NewestFirst, Matching(since, sev, unacked))
        size == IF Len(hits) < limit THEN Len(hits) ELSE limit
    IN  [i \in 1 .. size |-> byId[hits[i]]]

-----------------------------------------------------------------------------
(* The two containers describe the same set of alerts: no id is in the ring *)
(* twice, the map holds exactly the ids of the ring, each under its own id, *)
(* and the ring never exceeds its capacity.  Type invariant of the store.   *)
StoreInv ==
    /\ order \in Seq(Ids)
    /\ Len(order) <= Capacity
    /\ \A i, j \in 1 .. Len(order) : order[i] = order[j] => i = j
    /\ DOMAIN byId = {order[i] : i \in 1 .. Len(order)}
    /\ \A id \in DOMAIN byId : byId[id] \in StoredAlerts /\ byId[id].alert.id = id

(* While the hub retains an alert it never forgets an acknowledgement and   *)
(* never replaces the contents it stored first, whatever is posted under    *)
(* that id (store/alertStore.ts: upsert returns the existing alert).        *)
RetainedAlertsAreStable ==
    [][\A id \in DOMAIN byId \intersect DOMAIN byId' :
          /\ byId[id].acked => byId'[id].acked
          /\ byId'[id].alert = byId[id].alert]_storeVars

(* The ring and the map together are the bounded log of module AlertLog.    *)
Log == INSTANCE AlertLog
          WITH LogCapacity <- Capacity,
               log <- [i \in 1 .. Len(order) |-> byId[order[i]]]

(* Every step of the store is a step of the log or changes nothing in it.   *)
StoreIsLog == Log!Spec

(* Whatever the limit and the filters, list() answers with distinct alerts  *)
(* of the store, newest first, and leaves none out that matches unless the  *)
(* limit cut it off.                                                        *)
ListIsExact ==
    \A limit \in 1 .. Capacity, since \in {0} \union {a.ts : a \in Alerts},
       sev \in {"any"} \union {a.sev : a \in Alerts}, unacked \in BOOLEAN :
        LET out == List(limit, since, sev, unacked)
            want == Matching(since, sev, unacked)
            Pos(id) == CHOOSE i \in 1 .. Len(order) : order[i] = id
            got == {out[i].alert.id : i \in DOMAIN out}
        IN  /\ got \subseteq want
            /\ Cardinality(got) = Len(out)
            /\ Len(out) < limit => got = want
            /\ \A i, j \in DOMAIN out : i < j => Pos(out[i].alert.id) > Pos(out[j].alert.id)
            /\ \A id \in want \ got, i \in DOMAIN out : Pos(id) < Pos(out[i].alert.id)
=============================================================================
