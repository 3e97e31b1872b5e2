----------------------------- MODULE BasisOrder -----------------------------
(***************************************************************************)
(* The two-legged order session of basis-cli: OrderManager                 *)
(* (apps/basis-cli/src/order/orderManager.ts) with the keys and screens    *)
(* that call it and the two exchanges it places orders on.                 *)
(*                                                                         *)
(* JavaScript runs one callback at a time, so every stretch of code between*)
(* two awaits is one action.  A call that awaits an exchange is a task; the*)
(* tasks in flight interleave with keys, timers and fills in any order.    *)
(*                                                                         *)
(* Abstractions.  Prices, sides and symbols are left out: one symbol, both *)
(* legs of one quantity Qty.  The 500 ms, 1500 ms and 2000 ms timers whose *)
(* order matters count down in ticks of 500 ms; the poll interval, the     *)
(* order timeout and the grace period may elapse at any time while armed.  *)
(* A status request is answered with the status at the moment it left or   *)
(* at the moment its answer arrives.  Order ids that are dead and that     *)
(* nothing refers to are used again, which renames orders and no more.     *)
(***************************************************************************)
EXTENDS Naturals, Integers, Sequences, FiniteSets

CONSTANTS
    Ex,         \* the two exchanges
    Tasks,      \* bound: calls that may be in flight at a time
    MaxOrders,  \* bound: live or referenced orders per exchange, which
                \*   refuses a placement beyond it
    Qty,        \* the units an order is filled in
    MaxAmend,   \* MAX_AMEND_COUNT
    Prompt,     \* exchanges answer before the next key, timer or poll
    MaxTimers,  \* bound: one-shot timers in flight when a call begins
    Feeds,      \* what the price feed may turn to
    Faults,     \* what may go wrong in a call to an exchange
    Keys        \* what the user does

ASSUME BasisAssumption ==
    /\ IsFiniteSet(Ex) /\ Cardinality(Ex) = 2
    /\ IsFiniteSet(Tasks) /\ Tasks # {}
    /\ MaxOrders \in Nat \ {0} /\ Qty \in Nat \ {0} /\ MaxAmend \in Nat
    /\ MaxTimers \in Nat /\ Prompt \in BOOLEAN
    /\ Feeds \subseteq {"stale", "usable"}
    /\ Faults \subseteq {"place refused", "place lost", "cancel refused",
                         "cancel failed", "cancel lost", "query failed"}
    /\ Keys \subseteq {"enter", "amend", "cancel", "back", "quit"}

VARIABLES
    phase,     \* state.phase
    leg,       \* state.binanceLeg and state.okxLeg
    params,    \* activeParams is not null
    polling,   \* the interval pollTimer holds, and those it lost track of
    timeout,   \* likewise for timeoutTimer
    timers,    \* one-shot timers in flight, in the order they were set
    task,      \* the calls in flight
    feed,      \* price feed: no snapshot, stale (or NATS down), or usable
    screen,    \* DASHBOARD or SYMBOL_SELECT
    process,   \* running, closing (shutdown awaited) or exited
    orders,    \* the orders of each exchange
    misread    \* history: the legs that say filled because the answer to
               \*   a question about another order was applied to them

vars == <<phase, leg, misread, params, polling, timeout, timers, task, feed, screen,
          process, orders>>

Phases == {"IDLE", "PLACING", "MONITORING", "FILLED", "CANCELLED", "TIMEOUT"}
Statuses == {"new", "partial", "filled", "canceled"}
OrderIds == 1 .. MaxOrders
Other(ex) == CHOOSE e \in Ex : e # ex

NoLeg == [id |-> 0, status |-> "none", amends |-> 0, old |-> FALSE]
NewLeg(id, status) == [id |-> id, status |-> status, amends |-> 0, old |-> FALSE]
NoTask == [kind |-> "none"]
IsFinal(status) == status \in {"filled", "canceled"}

-----------------------------------------------------------------------------
(* The exchanges. *)

StatusOf(o) == CASE o.exec = Qty -> "filled"
                 [] o.exec < Qty /\ ~ o.open -> "canceled"
                 [] o.exec > 0 /\ o.exec < Qty /\ o.open -> "partial"
                 [] OTHER -> "new"

Status(ex, id) == StatusOf(orders[ex][id])
OpenIds(ex) == {id \in OrderIds : orders[ex][id].open}

(* The order ids that the program still holds. *)
HeldBy(t, ex) ==
    CASE t.kind = "exec"    -> {t.at[ex]}
      [] t.kind = "poll"    -> {t.asked[ex]}
      [] t.kind = "protect" -> IF t.ex = ex /\ t.stage = "cancel" THEN {t.id} ELSE {}
      [] t.kind = "cancel"  -> {t.wait[ex]}
      [] t.kind = "recover" -> t.seen[ex]
      [] OTHER              -> {}

Held(ex) == {leg[ex].id} \union UNION {HeldBy(task[t], ex) : t \in Tasks}
FreeIds(ex) == OrderIds \ (OpenIds(ex) \union Held(ex))
FreshId(ex) == CHOOSE id \in FreeIds(ex) : \A i \in FreeIds(ex) : id <= i

MayRefuse(ex) == "place refused" \in Faults \/ FreeIds(ex) = {}

WithOrder(ex, id, o) == [orders EXCEPT ![ex][id] = o]
Working == [open |-> TRUE, exec |-> 0]
Executed == [open |-> FALSE, exec |-> Qty]

(* What a cancel request may do: take effect or find the order gone, be     *)
(* refused though the order is live (ok: false, no exception), or end in an *)
(* exception before or after taking effect.                                 *)
CancelOutcomes(ex, id) ==
    {[effect |-> TRUE, thrown |-> FALSE]}
    \union (IF "cancel refused" \in Faults THEN {[effect |-> FALSE, thrown |-> FALSE]} ELSE {})
    \union (IF "cancel failed" \in Faults THEN {[effect |-> FALSE, thrown |-> TRUE]} ELSE {})
    \union (IF "cancel lost" \in Faults THEN {[effect |-> TRUE, thrown |-> TRUE]} ELSE {})

AfterCancel(ex, id, out) ==
    IF out.effect THEN [orders EXCEPT ![ex][id].open = FALSE] ELSE orders

-----------------------------------------------------------------------------
(* Tasks and timers. *)

Idle(t) == task[t].kind = "none"
Settled == \A t \in Tasks : Idle(t)
Slot == CHOOSE t \in Tasks : Idle(t)
HasSlot == \E t \in Tasks : Idle(t)
MayBegin == HasSlot /\ Len(timers) <= MaxTimers
Begin(r) == [task EXCEPT ![Slot] = r]
End(t) == [task EXCEPT ![t] = NoTask]

(* Mutant: calls keep writing to the legs of the session they left. *)
DetachNothing(tk, exs) == tk

(* The leg objects of the exchanges in exs are replaced or dropped: a task  *)
(* that still writes to one of them writes to an object nobody reads.       *)
Detach(tk, exs) ==
    [t \in Tasks |->
        CASE tk[t].kind = "protect" /\ tk[t].ex \in exs -> [tk[t] EXCEPT !.mine = FALSE]
          [] tk[t].kind = "cancel" -> [tk[t] EXCEPT !.mine = @ \ exs]
          [] OTHER -> tk[t]]

StoppedPolling == [polling EXCEPT !.own = FALSE]
StartedPolling(p) == [own |-> TRUE, leaked |-> p.leaked \/ p.own]
StoppedTimeout == [timeout EXCEPT !.own = FALSE]
(* Mutant: the order timeout is not set. *)
ForgottenTimeout == timeout

StartedTimeout ==
    [own |-> TRUE, leaked |-> timeout.leaked + (IF timeout.own THEN 1 ELSE 0)]

Timer(act, left) == [act |-> act, left |-> left]
DueTimers == {i \in DOMAIN timers : timers[i].left = 0}
Without(seq, i) == SubSeq(seq, 1, i - 1) \o SubSeq(seq, i + 1, Len(seq))

CancelSettled(t) == task[t].kind = "cancel" /\ \A ex \in Ex : task[t].wait[ex] = 0

(* The event loop takes no new stimulus between the last answer to          *)
(* cancelAll and what its caller does next; a new stimulus may arrive when. *)
Running == process # "exited"
Free == Running /\ ~ \E t \in Tasks : CancelSettled(t) /\ task[t].why # "quit"
Quiet == Free /\ (Prompt => Settled)
UserMayAct == Quiet /\ (Prompt => DueTimers = {})

-----------------------------------------------------------------------------
Init ==
    /\ phase = "IDLE"
    /\ leg = [ex \in Ex |-> NoLeg]
    /\ misread = {}
    /\ params = FALSE
    /\ polling = [own |-> FALSE, leaked |-> FALSE]
    /\ timeout = [own |-> FALSE, leaked |-> 0]
    /\ timers = <<>>
    /\ task = [t \in Tasks |-> NoTask]
    /\ feed = "none"
    /\ screen = "SYMBOL_SELECT"
    /\ process = "running"
    /\ orders = [ex \in Ex |-> [id \in OrderIds |-> [open |-> FALSE, exec |-> 0]]]

(* execute(): the guards, up to the first await.                           *)
MayExecute == phase = "IDLE" /\ feed = "usable"

Execute(timersLeft) ==
    IF MayExecute
    THEN /\ HasSlot
         /\ phase' = "PLACING"
         /\ params' = TRUE
         /\ task' = Begin([kind |-> "exec", stage |-> "price", at |-> [ex \in Ex |-> 0]])
         /\ timers' = timersLeft
         /\ UNCHANGED <<leg, misread, polling, timeout, feed, screen, process, orders>>
    ELSE /\ timers' = timersLeft
         /\ UNCHANGED <<phase, leg, misread, params, polling, timeout, task, feed, screen,
                        process, orders>>

UserExecute ==
    /\ "enter" \in Keys /\ UserMayAct
    /\ screen = "DASHBOARD"
    /\ MayExecute /\ MayBegin
    /\ Execute(timers)

(* Prices and quantities are known: both placements are sent.              *)
ExecPriced(t) ==
    /\ Free /\ task[t].kind = "exec" /\ task[t].stage = "price"
    /\ task' = [task EXCEPT ![t].stage = "place"]
    /\ UNCHANGED <<phase, leg, misread, params, polling, timeout, timers, feed, screen,
                   process, orders>>

(* Mutant: the error of a pricing call leaves the phase alone. *)
UnpricedStaysPlacing(t) ==
    /\ Free /\ task[t].kind = "exec" /\ task[t].stage = "price"
    /\ "query failed" \in Faults
    /\ task' = End(t)
    /\ UNCHANGED <<phase, leg, misread, params, polling, timeout, timers, feed, screen,
                   process, orders>>

(* One of the pricing calls rejects.                                       *)
ExecUnpriced(t) ==
    /\ Free /\ task[t].kind = "exec" /\ task[t].stage = "price"
    /\ "query failed" \in Faults
    /\ phase' = "IDLE"
    /\ task' = End(t)
    /\ UNCHANGED <<leg, misread, params, polling, timeout, timers, feed, screen, process, orders>>

(* A placement reaches its exchange, and its answer is on the way back: an  *)
(* id (> 0), or -1 for an exception, which a lost answer is as well.        *)
PlacementLands(t, ex) ==
    /\ task[t].kind = "exec" /\ task[t].stage \in {"place", "dead"} /\ task[t].at[ex] = 0
    /\ \/ /\ FreeIds(ex) # {}
          /\ task' = [task EXCEPT ![t].at[ex] = FreshId(ex)]
          /\ orders' = WithOrder(ex, FreshId(ex), Working)
       \/ /\ MayRefuse(ex)
          /\ task' = [task EXCEPT ![t].at[ex] = -1]
          /\ UNCHANGED orders
       \/ /\ "place lost" \in Faults /\ FreeIds(ex) # {}
          /\ task' = [task EXCEPT ![t].at[ex] = -1]
          /\ orders' = WithOrder(ex, FreshId(ex), Working)
    /\ UNCHANGED <<phase, leg, misread, params, polling, timeout, timers, feed, screen, process>>

(* Promise.all resolved: both legs are recorded and watched.               *)
ExecPlaced(t) ==
    /\ Free /\ task[t].kind = "exec" /\ task[t].stage = "place"
    /\ \A ex \in Ex : task[t].at[ex] > 0
    /\ leg' = [ex \in Ex |-> NewLeg(task[t].at[ex], "new")]
    /\ misread' = {}
    /\ phase' = "MONITORING"
    /\ polling' = StartedPolling(polling)
    /\ timeout.leaked <= MaxTimers
    /\ timeout' = StartedTimeout
    /\ task' = Detach(End(t), Ex)
    /\ UNCHANGED <<params, timers, feed, screen, process, orders>>

(* Promise.all rejected: the session is over, though the other placement    *)
(* may still be on its way ("dead": nobody awaits it any more).             *)
ExecRejected(t) ==
    /\ Free /\ task[t].kind = "exec" /\ task[t].stage = "place"
    /\ \E ex \in Ex : task[t].at[ex] = -1
    /\ phase' = "IDLE"
    /\ task' = IF \E ex \in Ex : task[t].at[ex] = 0
               THEN [task EXCEPT ![t].stage = "dead"] ELSE End(t)
    /\ UNCHANGED <<leg, misread, params, polling, timeout, timers, feed, screen, process, orders>>

DeadExecEnds(t) ==
    /\ task[t].kind = "exec" /\ task[t].stage = "dead"
    /\ \A ex \in Ex : task[t].at[ex] # 0
    /\ task' = End(t)
    /\ UNCHANGED <<phase, leg, misread, params, polling, timeout, timers, feed, screen,
                   process, orders>>

-----------------------------------------------------------------------------
(* cancelAll(), and the awaits that follow it in onTimeout and amendAll.    *)

(* Mutant: the second leg is cancelled only if the first is not. *)
OneLegToCancel ==
    LET live == {ex \in Ex : leg[ex].id > 0 /\ ~ IsFinal(leg[ex].status)}
        one == IF live = {} THEN {} ELSE {CHOOSE ex \in live : TRUE}
    IN  [ex \in Ex |-> IF ex \in one THEN leg[ex].id ELSE 0]

LegsToCancel ==
    [ex \in Ex |-> IF leg[ex].id > 0 /\ ~ IsFinal(leg[ex].status) THEN leg[ex].id ELSE 0]

CancelTask(why) == [kind |-> "cancel", why |-> why, wait |-> LegsToCancel, mine |-> Ex]

StartCancel(why, timeout1) ==
    /\ MayBegin
    /\ polling' = StoppedPolling
    /\ timeout' = [timeout1 EXCEPT !.own = FALSE]
    /\ task' = Begin(CancelTask(why))
    /\ UNCHANGED <<phase, leg, misread, params, timers, feed, screen, orders>>

UserCancel ==
    /\ "cancel" \in Keys /\ UserMayAct /\ screen = "DASHBOARD"
    /\ phase = "MONITORING"
    /\ StartCancel("key", timeout)
    /\ UNCHANGED process

UserAmend ==
    /\ "amend" \in Keys /\ UserMayAct /\ screen = "DASHBOARD"
    /\ phase = "MONITORING" /\ feed # "none"
    /\ StartCancel("amend", timeout)
    /\ UNCHANGED process

FiredTimeout ==
    {to \in {[timeout EXCEPT !.own = FALSE],
             [timeout EXCEPT !.leaked = IF @ = 0 THEN 0 ELSE @ - 1]} : to # timeout}

(* onTimeout: outside MONITORING there is nothing to cancel, but the phase  *)
(* is set all the same.                                                     *)
TimeoutFires ==
    /\ Quiet
    /\ \E left \in FiredTimeout :
        /\ \/ /\ phase = "MONITORING"
              /\ StartCancel("timeout", left)
           \/ /\ phase # "MONITORING" /\ Len(timers) <= MaxTimers
              /\ timeout' = left
              /\ phase' = "TIMEOUT"
              /\ timers' = Append(timers, Timer("idle", 3))
              /\ UNCHANGED <<leg, misread, params, polling, task, feed, screen, orders>>
    /\ UNCHANGED process

(* cancelLeg: the leg object is marked canceled unless the call throws.     *)
CancelLands(t, ex) ==
    /\ Free /\ task[t].kind = "cancel" /\ task[t].wait[ex] > 0
    /\ \E out \in CancelOutcomes(ex, task[t].wait[ex]) :
        /\ orders' = AfterCancel(ex, task[t].wait[ex], out)
        /\ \/ /\ ~ out.thrown /\ ex \in task[t].mine
              /\ leg' = [leg EXCEPT ![ex].status = "canceled"]
              /\ misread' = misread \ {ex}
           \/ /\ out.thrown \/ ex \notin task[t].mine
              /\ UNCHANGED <<leg, misread>>
    /\ task' = [task EXCEPT ![t].wait[ex] = 0]
    /\ UNCHANGED <<phase, params, polling, timeout, timers, feed, screen, process>>

CancelledByKey(t) ==
    /\ Running /\ CancelSettled(t) /\ task[t].why = "key"
    /\ phase' = "CANCELLED"
    /\ timers' = Append(timers, Timer("idle", 3))
    /\ task' = End(t)
    /\ UNCHANGED <<leg, misread, params, polling, timeout, feed, screen, process, orders>>

CancelledForAmend(t) ==
    /\ Running /\ CancelSettled(t) /\ task[t].why = "amend"
    /\ phase' = "CANCELLED"
    /\ timers' = timers \o <<Timer("idle", 3), Timer("execute", 1)>>
    /\ task' = End(t)
    /\ UNCHANGED <<leg, misread, params, polling, timeout, feed, screen, process, orders>>

CancelledByTimeout(t) ==
    /\ Running /\ CancelSettled(t) /\ task[t].why = "timeout"
    /\ phase' = "TIMEOUT"
    /\ timers' = timers \o <<Timer("idle", 3), Timer("idle", 3)>>
    /\ task' = End(t)
    /\ UNCHANGED <<leg, misread, params, polling, timeout, feed, screen, process, orders>>

(* The one-shot timers: back to IDLE, or the second half of amendAll.       *)
ReturnToIdle ==
    /\ Quiet
    /\ \E i \in DueTimers :
        /\ timers[i].act = "idle"
        /\ timers' = Without(timers, i)
    /\ phase' = "IDLE"
    /\ UNCHANGED <<leg, misread, params, polling, timeout, task, feed, screen, process, orders>>

ReExecute ==
    /\ Quiet
    /\ \E i \in DueTimers :
        /\ timers[i].act = "execute"
        /\ Execute(Without(timers, i))

Tick ==
    /\ Quiet /\ timers # <<>> /\ DueTimers = {}
    /\ timers' = [i \in DOMAIN timers |-> [timers[i] EXCEPT !.left = @ - 1]]
    /\ UNCHANGED <<phase, leg, misread, params, polling, timeout, task, feed, screen,
                   process, orders>>

-----------------------------------------------------------------------------
(* poll() *)

PollStart ==
    /\ Quiet /\ MayBegin
    /\ polling.own \/ polling.leaked
    /\ phase = "MONITORING" /\ \E ex \in Ex : leg[ex].id > 0
    /\ task' = Begin([kind |-> "poll", asked |-> [ex \in Ex |-> leg[ex].id],
                      seen |-> [ex \in Ex |-> IF leg[ex].id > 0
                                              THEN Status(ex, leg[ex].id) ELSE "none"]])
    /\ UNCHANGED <<phase, leg, misread, params, polling, timeout, timers, feed, screen,
                   process, orders>>

PollFailed(t) ==
    /\ Free /\ task[t].kind = "poll" /\ "query failed" \in Faults
    /\ task' = End(t)
    /\ UNCHANGED <<phase, leg, misread, params, polling, timeout, timers, feed, screen,
                   process, orders>>

Answers(t, ex) ==
    IF task[t].asked[ex] = 0 THEN {"none"}
    ELSE {task[t].seen[ex], Status(ex, task[t].asked[ex])}

(* updateLeg for both legs; the legs are those of now, not of the question. *)
Updated(ans) ==
    [ex \in Ex |-> IF leg[ex].id = 0 \/ ans[ex] = "none" THEN leg[ex]
                   ELSE [leg[ex] EXCEPT !.status = ans[ex]]]

Misread(t, ans) ==
    {ex \in Ex : IF leg[ex].id = 0 \/ ans[ex] = "none" THEN ex \in misread
                 ELSE ans[ex] = "filled" /\ task[t].asked[ex] # leg[ex].id}

(* Mutant: a cancelled leg counts as filled. *)
BothFinal(lg) == \A ex \in Ex : IsFinal(lg[ex].status)

BothFilled(lg) == \A ex \in Ex : lg[ex].status = "filled"

(* checkSingleLegFill: one leg filled, the other not, grace period over.    *)
Exposed(lg, ex) ==
    /\ lg[ex].id > 0 /\ lg[ex].status # "filled"
    /\ lg[Other(ex)].status = "filled" /\ lg[Other(ex)].old

(* Mutant: the amends are counted one short. *)
MarketTooEarly(lg, ex) ==
    [kind |-> "protect", ex |-> ex, id |-> lg[ex].id, stage |-> "cancel",
     market |-> lg[ex].amends + 1 >= MaxAmend, mine |-> TRUE]
ProtectTask(lg, ex) ==
    [kind |-> "protect", ex |-> ex, id |-> lg[ex].id, stage |-> "cancel",
     market |-> lg[ex].amends >= MaxAmend, mine |-> TRUE]

PollAnswered(t) ==
    /\ Free /\ task[t].kind = "poll"
    /\ \E ans \in [Ex -> Statuses \union {"none"}] :
        /\ \A ex \in Ex : ans[ex] \in Answers(t, ex)
        /\ leg' = Updated(ans)
        /\ misread' = Misread(t, ans)
        /\ \/ /\ BothFilled(leg')
              /\ polling' = StoppedPolling
              /\ timeout' = StoppedTimeout
              /\ phase' = "FILLED"
              /\ timers' = Append(timers, Timer("idle", 4))
              /\ task' = End(t)
           \/ /\ ~ BothFilled(leg')
              /\ task' = IF params /\ \E ex \in Ex : Exposed(leg', ex)
                         THEN [task EXCEPT ![t] =
                                 ProtectTask(leg', CHOOSE ex \in Ex : Exposed(leg', ex))]
                         ELSE End(t)
              /\ UNCHANGED <<phase, polling, timeout, timers>>
    /\ UNCHANGED <<params, feed, screen, process, orders>>

(* Single-leg protection: cancel the pending order, then place it again or, *)
(* when the amends are used up, take the market.                            *)
(* Mutant: the pending order is not cancelled first. *)
ProtectSkipsCancel(t) ==
    /\ Free /\ task[t].kind = "protect" /\ task[t].stage = "cancel"
    /\ task' = IF ~ task[t].market /\ feed = "none"
               THEN End(t) ELSE [task EXCEPT ![t].stage = "place"]
    /\ UNCHANGED <<phase, leg, misread, params, polling, timeout, timers, feed, screen,
                   process, orders>>

ProtectCancels(t) ==
    /\ Free /\ task[t].kind = "protect" /\ task[t].stage = "cancel"
    /\ \E out \in CancelOutcomes(task[t].ex, task[t].id) :
        /\ orders' = AfterCancel(task[t].ex, task[t].id, out)
        /\ task' = IF out.thrown \/ (~ task[t].market /\ feed = "none")
                   THEN End(t) ELSE [task EXCEPT ![t].stage = "place"]
    /\ UNCHANGED <<phase, leg, misread, params, polling, timeout, timers, feed, screen, process>>

Replaced(t, id) ==
    IF ~ task[t].mine THEN leg
    ELSE LET ex == task[t].ex
         IN  [leg EXCEPT ![ex] =
                IF task[t].market
                THEN [leg[ex] EXCEPT !.id = id, !.status = "filled"]
                ELSE [NewLeg(id, "new") EXCEPT !.amends = leg[ex].amends + 1]]

ProtectPlaces(t) ==
    /\ Free /\ task[t].kind = "protect" /\ task[t].stage = "place"
    /\ LET ex == task[t].ex
           o == IF task[t].market THEN Executed ELSE Working
       IN  \/ /\ FreeIds(ex) # {}
              /\ orders' = WithOrder(ex, FreshId(ex), o)
              /\ leg' = Replaced(t, FreshId(ex))
              /\ misread' = IF task[t].mine THEN misread \ {ex} ELSE misread
           \/ /\ "place lost" \in Faults /\ FreeIds(ex) # {}
              /\ orders' = WithOrder(ex, FreshId(ex), o)
              /\ UNCHANGED <<leg, misread>>
           \/ /\ MayRefuse(ex)
              /\ UNCHANGED <<orders, leg, misread>>
    /\ task' = End(t)
    /\ UNCHANGED <<phase, params, polling, timeout, timers, feed, screen, process>>

-----------------------------------------------------------------------------
(* Screens: selectSymbol calls recoverOpenOrders, goBack calls reset.       *)

UserSelect ==
    /\ UserMayAct /\ MayBegin
    /\ screen = "SYMBOL_SELECT"
    /\ screen' = "DASHBOARD"
    /\ feed' = "none"
    /\ polling' = StoppedPolling
    /\ timeout' = StoppedTimeout
    /\ leg' = [ex \in Ex |-> NoLeg]
    /\ misread' = {}
    /\ params' = TRUE
    /\ task' = Detach(Begin([kind |-> "recover", seen |-> [ex \in Ex |-> OpenIds(ex)]]), Ex)
    /\ UNCHANGED <<phase, timers, process, orders>>

(* What one exchange's answer does to its leg: the latest open order (any   *)
(* of them: update times are not modelled), none, or the leg of now when    *)
(* the query failed.                                                        *)
RecoveredLegs(t, ex) ==
    LET seen == task[t].seen[ex]
        now == OpenIds(ex)
    IN  {NewLeg(id, IF orders[ex][id].open THEN Status(ex, id) ELSE "new") : id \in seen \union now}
        \union (IF seen = {} \/ now = {} THEN {NoLeg} ELSE {})
        \union (IF "query failed" \in Faults THEN {leg[ex]} ELSE {})

Recovered(t) ==
    /\ Free /\ task[t].kind = "recover"
    /\ \E lg \in [Ex -> UNION {RecoveredLegs(t, ex) : ex \in Ex}] :
        /\ \A ex \in Ex : lg[ex] \in RecoveredLegs(t, ex)
        /\ leg' = lg
    /\ misread' = {ex \in misread : leg'[ex] = leg[ex]}
    /\ task' = Detach(End(t), {ex \in Ex : leg'[ex] # leg[ex]})
    /\ \/ /\ \E ex \in Ex : leg'[ex].id > 0
          /\ phase' = "MONITORING"
          /\ polling' = StartedPolling(polling)
       \/ /\ \A ex \in Ex : leg'[ex].id = 0
          /\ phase' = "IDLE"
          /\ UNCHANGED polling
    /\ UNCHANGED <<params, timeout, timers, feed, screen, process, orders>>

UserBack ==
    /\ "back" \in Keys /\ UserMayAct
    /\ screen = "DASHBOARD" /\ phase = "IDLE"
    /\ screen' = "SYMBOL_SELECT"
    /\ feed' = "none"
    /\ polling' = StoppedPolling
    /\ timeout' = StoppedTimeout
    /\ leg' = [ex \in Ex |-> NoLeg]
    /\ misread' = {}
    /\ params' = FALSE
    /\ task' = Detach(task, Ex)
    /\ UNCHANGED <<phase, timers, process, orders>>

(* gracefulShutdown: shutdown() is awaited, then the process exits; a       *)
(* second press or three seconds exit at once.                              *)
UserQuit ==
    /\ "quit" \in Keys /\ UserMayAct
    /\ process = "running"
    /\ process' = "closing"
    /\ StartCancel("quit", timeout)

Exit(t) ==
    /\ Free /\ CancelSettled(t) /\ task[t].why = "quit"
    /\ process' = "exited"
    /\ task' = End(t)
    /\ UNCHANGED <<phase, leg, misread, params, polling, timeout, timers, feed, screen, orders>>

ForceExit ==
    /\ process = "closing" /\ ~ Prompt
    /\ process' = "exited"
    /\ UNCHANGED <<phase, leg, misread, params, polling, timeout, timers, task, feed, screen, orders>>

-----------------------------------------------------------------------------
(* The environment: fills, prices and time. *)

Fill(ex, id) ==
    /\ orders[ex][id].open
    /\ orders' = LET n == orders[ex][id].exec + 1
                 IN  WithOrder(ex, id, [open |-> n < Qty, exec |-> n])
    /\ UNCHANGED <<phase, leg, misread, params, polling, timeout, timers, task, feed, screen, process>>

FeedChanges ==
    /\ Free
    /\ feed' \in Feeds \ {feed}
    /\ UNCHANGED <<phase, leg, misread, params, polling, timeout, timers, task, screen, process, orders>>

GraceElapses(ex) ==
    /\ Free /\ leg[ex].id > 0 /\ ~ leg[ex].old
    /\ leg' = [leg EXCEPT ![ex].old = TRUE]
    /\ UNCHANGED <<phase, misread, params, polling, timeout, timers, task, feed, screen, process, orders>>

(* Exited is not a deadlock. *)
Exited == process = "exited" /\ UNCHANGED vars

Program ==
    \/ TimeoutFires \/ ReturnToIdle \/ ReExecute \/ Tick \/ PollStart
    \/ \E t \in Tasks :
        \/ ExecPriced(t) \/ ExecUnpriced(t) \/ ExecPlaced(t) \/ ExecRejected(t)
        \/ DeadExecEnds(t)
        \/ CancelledByKey(t) \/ CancelledForAmend(t) \/ CancelledByTimeout(t)
        \/ PollFailed(t) \/ PollAnswered(t) \/ ProtectCancels(t) \/ ProtectPlaces(t)
        \/ Recovered(t) \/ Exit(t)
        \/ \E ex \in Ex : PlacementLands(t, ex) \/ CancelLands(t, ex)

User == UserExecute \/ UserAmend \/ UserCancel \/ UserSelect \/ UserBack \/ UserQuit

Environment ==
    \/ FeedChanges \/ ForceExit \/ Exited
    \/ \E ex \in Ex : GraceElapses(ex) \/ \E id \in OrderIds : Fill(ex, id)

Next == Program \/ User \/ Environment

Spec == Init /\ [][Next]_vars

-----------------------------------------------------------------------------
(* Every protection under way when the last amend is counted may count one   *)
(* more: poll() does not wait for the poll before it.                        *)
AtATime == IF Prompt THEN 1 ELSE Cardinality(Tasks)
LegsType == [id : 0 .. MaxOrders, status : Statuses \union {"none"},
             amends : 0 .. MaxAmend + AtATime - 1, old : BOOLEAN]

(* Types, no more amends than MAX_AMEND_COUNT and one for every other call   *)
(* in flight, and: a leg has an order exactly when it has a status.          *)
TypeOK ==
    /\ phase \in Phases
    /\ leg \in [Ex -> LegsType]
    /\ \A ex \in Ex : leg[ex].id = 0 <=> leg[ex].status = "none"
    /\ misread \subseteq Ex
    /\ params \in BOOLEAN
    /\ polling \in [own : BOOLEAN, leaked : BOOLEAN]
    /\ timeout \in [own : BOOLEAN, leaked : Nat]
    /\ \A i \in DOMAIN timers : timers[i] \in [act : {"idle", "execute"}, left : 0 .. 4]
    /\ \A t \in Tasks :
          task[t].kind \in {"none", "exec", "poll", "protect", "cancel", "recover"}
    /\ feed \in {"none", "stale", "usable"}
    /\ screen \in {"DASHBOARD", "SYMBOL_SELECT"}
    /\ process \in {"running", "closing", "exited"}
    /\ orders \in [Ex -> [OrderIds -> [open : BOOLEAN, exec : 0 .. Qty]]]

(* Every phase the session can be in is on its way out: PLACING has a call  *)
(* that will answer, MONITORING has a poller or a call that will end it,    *)
(* and the phases that only announce a result have a timer back to IDLE.    *)
(* The timers, handles and phases are set in a dozen places that know       *)
(* nothing of each other (startPolling, stopPolling, reset, cancelAll).     *)
Awaited == \E t \in Tasks : task[t].kind = "exec" /\ task[t].stage # "dead"
Watched ==
    \/ polling.own \/ polling.leaked
    \/ \E t \in Tasks : task[t].kind \in {"cancel", "recover"}
Returning == \E i \in DOMAIN timers : timers[i].act = "idle"

NoPhaseIsStuck ==
    process # "exited" =>
        /\ phase = "PLACING" => Awaited
        /\ phase = "MONITORING" => Watched
        /\ phase \in {"FILLED", "CANCELLED", "TIMEOUT"} => Returning

(* With nothing in flight and no timer due, an idle session has left no     *)
(* order working on an exchange: nothing escapes cancel, time-out, single-  *)
(* leg protection, leaving the dashboard and coming back.                   *)
IdleLeavesNoOrder ==
    phase = "IDLE" /\ Settled /\ DueTimers = {} /\ screen = "DASHBOARD" =>
        \A ex \in Ex : OpenIds(ex) = {}

(* Replacing an order never leaves two of them working on one exchange.     *)
OneWorkingOrder == \A ex \in Ex : Cardinality(OpenIds(ex)) <= 1

(* "Both legs FILLED!" is announced only of two orders that have executed   *)
(* completely, whatever fails and however polls overlap - unless poll()     *)
(* applied the late answer about a replaced order to the leg of now.        *)
FilledIsExecuted ==
    [][phase # "FILLED" /\ phase' = "FILLED" =>
          \A ex \in Ex \ misread' :
              leg'[ex].id > 0 /\ StatusOf(orders'[ex][leg'[ex].id]) = "filled"]_vars

(* The market order of the protection is the last resort: the amends are    *)
(* used up, the other leg has executed completely, and the order it         *)
(* replaces works no more.                                                  *)
MarketIsLastResort ==
    [][\A t \in Tasks :
          ProtectPlaces(t) /\ task[t].market =>
             /\ leg[task[t].ex].amends = MaxAmend
             /\ Status(Other(task[t].ex), leg[Other(task[t].ex)].id) = "filled"
             /\ OpenIds(task[t].ex) = {}]_vars

(* A shutdown that was awaited to its end leaves no order working ("cancel  *)
(* all open orders", the comment of shutdown()).                            *)
ShutdownLeavesNoOrder ==
    [][\A t \in Tasks : Exit(t) => \A ex \in Ex : OpenIds(ex) = {}]_vars

(* The second half of amendAll ("Wait for IDLE then re-execute") starts a   *)
(* new session when prices are usable.                                      *)
AmendReExecutes ==
    [][ReExecute /\ feed = "usable" => phase' = "PLACING"]_vars

-----------------------------------------------------------------------------
(* The exchanges answer, and the event loop runs what is due.  Nobody       *)
(* promises fills, fresh prices or keys.  The order timeout is a real timer,*)
(* so it fires although polls keep coming in between.                       *)
Fairness ==
    /\ WF_vars(ReturnToIdle) /\ WF_vars(ReExecute) /\ WF_vars(Tick)
    /\ SF_vars(TimeoutFires)
    /\ \A t \in Tasks :
        /\ WF_vars(ExecPriced(t)) /\ WF_vars(ExecPlaced(t)) /\ WF_vars(ExecRejected(t))
        /\ WF_vars(DeadExecEnds(t)) /\ WF_vars(PollAnswered(t))
        /\ WF_vars(CancelledByKey(t)) /\ WF_vars(CancelledForAmend(t))
        /\ WF_vars(CancelledByTimeout(t)) /\ WF_vars(Recovered(t)) /\ WF_vars(Exit(t))
        /\ WF_vars(ProtectCancels(t)) /\ WF_vars(ProtectPlaces(t))
        /\ \A ex \in Ex : WF_vars(PlacementLands(t, ex)) /\ WF_vars(CancelLands(t, ex))

FairSpec == Spec /\ Fairness

(* A session that placed orders comes back to IDLE (or the program ends),   *)
(* filled or not: the order timeout sees to it.                             *)
SessionEnds == phase = "PLACING" ~> phase = "IDLE" \/ process # "running"
=============================================================================
