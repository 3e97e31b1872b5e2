----------------------------- MODULE AlertSystem -----------------------------
(***************************************************************************)
(* alert-hub and one alert-bar: the store of module AlertStore behind the  *)
(* hub's HTTP and WebSocket servers, and the menu bar program that follows *)
(* it in two ways at once - the socket, which starts with a snapshot, and  *)
(* a periodic GET.  Acknowledgements travel by PUT.  The two ways are not  *)
(* ordered with each other, and either end may lose the connection.        *)
(*                                                                         *)
(* Abstractions.  A request in flight is a call: sent, then answered at    *)
(* the hub, then applied by the bar.  The two high severities are one.     *)
(* Alerts of one time stamp are evicted in any order.                      *)
(***************************************************************************)
EXTENDS AlertStore

CONSTANTS
    MaxItems,  \* MAX_ITEMS of the bar, and the limit of its GET
    Startup,   \* startupMs - 5000: older alerts are history to the bar
    Calls,     \* bound: requests of the bar in flight at a time
    MaxWire,   \* bound: messages under way on the socket
    Failures   \* what may fail

ASSUME SystemAssumption ==
    /\ MaxItems \in Nat \ {0} /\ Startup \in Nat /\ MaxWire \in Nat \ {0}
    /\ Failures \subseteq {"socket", "hub", "request"}

\* ts_ms is a number: the producer's, or the hub's clock.
ASSUME StampAssumption == \A a \in Alerts : a.ts \in Nat

VARIABLES
    hub,       \* "up" or "down"
    link,      \* the socket: "open" or "closed"
    wire,      \* messages the hub sent on it that have not arrived
    items,     \* itemsById
    notified,  \* notifiedIds
    call       \* the bar's requests

barVars == <<items, notified>>
vars == <<order, byId, hub, link, wire, items, notified, call>>

NoCall == [kind |-> "none"]
Free(c) == call[c].kind = "none"

Init ==
    /\ StoreInit
    /\ hub = "up" /\ link = "closed" /\ wire = <<>>
    /\ items = [id \in {} |-> FALSE] /\ notified = {}
    /\ call = [c \in Calls |-> NoCall]

-----------------------------------------------------------------------------
(* The hub. *)

(* Mutant: it is sent whether a client is connected or not. *)
BroadcastAnyway(msg) == Len(wire) < MaxWire /\ wire' = Append(wire, msg)

(* HubWsServer.broadcast: only a client that is connected gets it.          *)
Broadcast(msg) ==
    IF link = "open"
    THEN Len(wire) < MaxWire /\ wire' = Append(wire, msg)
    ELSE UNCHANGED wire

(* ingestPayload: what is not new is not broadcast.                         *)
Post(a) ==
    /\ hub = "up"
    /\ \/ /\ UpsertNew(a)
          /\ Broadcast([type |-> "alert", items |-> <<Stored(a, FALSE)>>])
       \/ /\ UpsertKnown(a)
          /\ UNCHANGED wire
    /\ UNCHANGED <<hub, link, items, notified, call>>

(* PUT /alerts/:id/ack of a known id, whoever sends it.                     *)
AckAtHub(id) ==
    /\ AckFirst(id) \/ AckAgain(id)
    /\ Broadcast([type |-> "ack", items |-> <<byId'[id]>>])

OtherAcks(id) ==
    /\ hub = "up" /\ AckAtHub(id)
    /\ UNCHANGED <<hub, link, items, notified, call>>

(* Mutant: the snapshot leaves the oldest alert out. *)
ShortSnapshot == List(Capacity - 1, 0, "any", FALSE)
Snapshot == List(Capacity, 0, "any", FALSE)

(* The bar's reconnect timer, and the hub's connection handler.             *)
Connect ==
    /\ hub = "up" /\ link = "closed"
    /\ link' = "open"
    /\ wire' = <<[type |-> "snapshot", items |-> Snapshot]>>
    /\ UNCHANGED <<order, byId, hub, items, notified, call>>

Disconnect ==
    /\ "socket" \in Failures /\ link = "open"
    /\ link' = "closed" /\ wire' = <<>>
    /\ UNCHANGED <<order, byId, hub, items, notified, call>>

(* Nothing of the store survives.                                           *)
HubStops ==
    /\ "hub" \in Failures /\ hub = "up"
    /\ hub' = "down" /\ link' = "closed" /\ wire' = <<>>
    /\ Lost
    /\ UNCHANGED <<items, notified, call>>

HubStarts ==
    /\ hub = "down" /\ hub' = "up"
    /\ UNCHANGED <<order, byId, link, wire, items, notified, call>>

-----------------------------------------------------------------------------
(* The bar. *)

(* Mutant: the synchronisation does not notify. *)
NotifiesLive(s, source) ==
    source = "ws" /\ ~ s.acked /\ s.alert.sev = "high"

(* maybeNotify, but for the ids already notified.                           *)
Notifies(s, source) ==
    /\ source # "none"
    /\ ~ s.acked /\ s.alert.sev = "high"
    /\ source = "sync" => s.alert.ts >= Startup

Oldest(its) == CHOOSE id \in DOMAIN its :
                  \A i \in DOMAIN its : its[id].alert.ts <= its[i].alert.ts

Trimmed(its) ==
    IF Cardinality(DOMAIN its) <= MaxItems THEN its
    ELSE [id \in DOMAIN its \ {Oldest(its)} |-> its[id]]

(* Mutant: what the bar has wins over what it is told. *)
KeepsOld(its, s) ==
    Trimmed([id \in DOMAIN its \union {s.alert.id} |->
                IF id \in DOMAIN its THEN its[id] ELSE s])

(* upsert on itemsById: what it is told wins; one alert too many goes.      *)
Merged(its, s) ==
    Trimmed([id \in DOMAIN its \union {s.alert.id} |->
                IF id = s.alert.id THEN s ELSE its[id]])

(* The items after every alert of a list was upserted, in its order.        *)
AfterUpserts(list) ==
    LET its[n \in 0 .. Len(list)] == IF n = 0 THEN items ELSE Merged(its[n - 1], list[n])
    IN  its[Len(list)]

Upsert(list, source) ==
    /\ items' = AfterUpserts(list)
    /\ notified' = notified \union
          {list[i].alert.id : i \in {j \in DOMAIN list : Notifies(list[j], source)}}

(* onWsEvent *)
Deliver ==
    /\ wire # <<>>
    /\ LET msg == Head(wire)
       IN  IF msg.type = "snapshot"
           THEN /\ items' = [id \in {msg.items[i].alert.id : i \in DOMAIN msg.items} |->
                               msg.items[CHOOSE i \in DOMAIN msg.items :
                                           msg.items[i].alert.id = id]]
                /\ UNCHANGED notified
           ELSE Upsert(msg.items, IF msg.type = "alert" THEN "ws" ELSE "none")
    /\ wire' = Tail(wire)
    /\ UNCHANGED <<order, byId, hub, link, call>>

(* syncFromHub: at the start without notifications, later with them.        *)
AskSync(c) ==
    /\ Free(c)
    /\ \E source \in {"sync", "none"} :
         /\ source = "none" => items = [id \in {} |-> FALSE]
         /\ call' = [call EXCEPT ![c] = [kind |-> "sync", source |-> source, stage |-> "sent",
                                         answer |-> <<>>]]
    /\ UNCHANGED <<order, byId, hub, link, wire, items, notified>>

AnswerSync(c) ==
    /\ hub = "up" /\ call[c].kind = "sync" /\ call[c].stage = "sent"
    /\ call' = [call EXCEPT ![c].stage = "answered",
                            ![c].answer = List(MaxItems, 0, "any", FALSE)]
    /\ UNCHANGED <<order, byId, hub, link, wire, items, notified>>

ApplySync(c) ==
    /\ call[c].kind = "sync" /\ call[c].stage = "answered"
    /\ Upsert(call[c].answer, call[c].source)
    /\ call' = [call EXCEPT ![c] = NoCall]
    /\ UNCHANGED <<order, byId, hub, link, wire>>

(* ackAlert of one item, or of every unacked one, newest first              *)
(* (ackAllUnacked).                                                         *)
UnackedItems == {id \in DOMAIN items : ~ items[id].acked}
ByNewest(ids) ==
    {seq \in [1 .. Cardinality(ids) -> ids] :
        \A i, j \in DOMAIN seq :
            i < j => seq[i] # seq[j] /\ items[seq[i]].alert.ts >= items[seq[j]].alert.ts}

AskAck(c) ==
    /\ Free(c)
    /\ \E todo \in {<<id>> : id \in DOMAIN items} \union ByNewest(UnackedItems) :
         /\ todo # <<>>
         /\ call' = [call EXCEPT ![c] = [kind |-> "ack", todo |-> todo, stage |-> "sent",
                                         answer |-> <<>>]]
    /\ UNCHANGED <<order, byId, hub, link, wire, items, notified>>

(* An id that the hub does not hold (any more) is answered with 404.        *)
AnswerAck(c) ==
    /\ hub = "up" /\ call[c].kind = "ack" /\ call[c].stage = "sent"
    /\ LET id == Head(call[c].todo)
       IN  \/ /\ AckAtHub(id)
              /\ call' = [call EXCEPT ![c].stage = "answered", ![c].answer = <<byId'[id]>>]
           \/ /\ ~ Known(id)
              /\ call' = [call EXCEPT ![c].stage = "answered"]
              /\ UNCHANGED <<order, byId, wire>>
    /\ UNCHANGED <<hub, link, items, notified>>

NextAck(c) ==
    IF Len(call[c].todo) = 1 THEN NoCall
    ELSE [call[c] EXCEPT !.todo = Tail(@), !.stage = "sent", !.answer = <<>>]

ApplyAck(c) ==
    /\ call[c].kind = "ack" /\ call[c].stage = "answered"
    /\ Upsert(call[c].answer, "none")
    /\ call' = [call EXCEPT ![c] = NextAck(c)]
    /\ UNCHANGED <<order, byId, hub, link, wire>>

(* A request or its answer is lost: the next one is tried all the same.     *)
RequestFails(c) ==
    /\ ~ Free(c) /\ ("request" \in Failures \/ hub = "down")
    /\ call' = [call EXCEPT ![c] = IF call[c].kind = "ack" THEN NextAck(c) ELSE NoCall]
    /\ UNCHANGED <<order, byId, hub, link, wire, items, notified>>

Next ==
    \/ Connect \/ Disconnect \/ HubStops \/ HubStarts \/ Deliver
    \/ \E a \in Alerts : Post(a)
    \/ \E id \in Ids : OtherAcks(id)
    \/ \E c \in Calls :
         \/ AskSync(c) \/ AnswerSync(c) \/ ApplySync(c)
         \/ AskAck(c) \/ AnswerAck(c) \/ ApplyAck(c) \/ RequestFails(c)

Spec == Init /\ [][Next]_vars

(* The bar reconnects, the hub is started again, messages on an open socket *)
(* arrive, and the interval asks again and again; a user need not act.      *)
(* A request does not fail for ever.                                        *)
Fairness ==
    /\ WF_vars(HubStarts) /\ WF_vars(Connect) /\ WF_vars(Deliver)
    /\ \A c \in Calls :
         /\ SF_vars(AskSync(c)) /\ SF_vars(AnswerSync(c)) /\ SF_vars(ApplySync(c))
         /\ SF_vars(AnswerAck(c)) /\ SF_vars(ApplyAck(c)) /\ WF_vars(RequestFails(c))

FairSpec == Spec /\ Fairness

-----------------------------------------------------------------------------
(* Types: nothing is under way on a closed socket, the store is empty while *)
(* the hub is down, and what the bar shows is bounded: by MAX_ITEMS unless  *)
(* the hub's ring is larger, because a snapshot is taken over whole.        *)
TypeOK ==
    /\ hub \in {"up", "down"} /\ link \in {"open", "closed"}
    /\ hub = "down" => link = "closed" /\ byId = [id \in {} |-> FALSE]
    /\ link = "closed" => wire = <<>>
    /\ IsFiniteSet(DOMAIN items)
    /\ Cardinality(DOMAIN items) <= IF Capacity > MaxItems THEN Capacity ELSE MaxItems
    /\ \A id \in DOMAIN items : items[id] \in StoredAlerts /\ items[id].alert.id = id
    /\ notified \subseteq Ids

(* The socket alone keeps the bar's view of the hub exact: once everything  *)
(* the hub sent has arrived, every alert the hub holds is shown as the hub  *)
(* has it, across reconnections and restarts (a snapshot first, then every  *)
(* change, in order).                                                       *)
LiveViewIsCurrent ==
    link = "open" /\ wire = <<>> =>
        \A id \in DOMAIN byId : id \in DOMAIN items /\ items[id] = byId[id]

(* A fresh high alert is notified, or acknowledged, or pushed out of the    *)
(* hub first, although the socket may lose it: the periodic GET is there to *)
(* catch what the socket lost.                                              *)
HighAlertsAreNotified ==
    \A id \in Ids :
        id \in DOMAIN byId /\ ~ byId[id].acked
            /\ byId[id].alert.sev = "high" /\ byId[id].alert.ts >= Startup
        ~> id \in notified \/ id \notin DOMAIN byId \/ byId[id].acked

(* When the hub's alerts stop changing, what the bar shows of them becomes  *)
(* right and stays right, although an answer to an old GET may undo an      *)
(* acknowledgement in between.                                              *)
HubSilent == <>[][UNCHANGED <<hub, link, order, byId>>]_vars
ShownAsStored ==
    \A id \in DOMAIN byId \intersect DOMAIN items : items[id] = byId[id]
ViewConverges == HubSilent => <>[]ShownAsStored
=============================================================================
