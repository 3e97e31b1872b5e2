--------------------------- MODULE BasisCliProofs ---------------------------
(***************************************************************************)
(* basis-cli, for every value of its constants: the order session          *)
(* (BasisOrder), the screens with the price subscription behind them       *)
(* (PriceFeed), and the sizes and prices of its orders (OrderSizing).      *)
(***************************************************************************)
EXTENDS BasisOrder, PriceFeed, OrderSizing, ArrayProofs, SequenceTheorems

(* The order session: what its phases wait for.                             *)
TimerType == [act : {"idle", "execute"}, left : Int]

(* What can be a call in flight, as far as the phases depend on it.         *)
IsCall(r) == "kind" \in DOMAIN r /\ (r.kind = "exec" => "stage" \in DOMAIN r)
IsTable(tk) == tk = [t \in Tasks |-> tk[t]] /\ \A t \in Tasks : IsCall(tk[t])

Shape ==
    /\ IsTable(task)
    /\ timers \in Seq(TimerType)
    /\ polling \in [own : BOOLEAN, leaked : BOOLEAN]

Awaits(r) == r.kind = "exec" /\ r.stage # "dead"
Watches(r) == r.kind \in {"cancel", "recover"}

SessionInv == Shape /\ NoPhaseIsStuck

-----------------------------------------------------------------------------
(* Timers. *)

(* A timer that is not the one removed is still there.                      *)
LEMMA WithoutKeepsOthers ==
    ASSUME NEW S, NEW seq \in Seq(S), NEW i \in 1 .. Len(seq)
    PROVE  /\ Without(seq, i) \in Seq(S)
           /\ \A j \in 1 .. Len(seq) : j # i =>
                \E k \in DOMAIN Without(seq, i) : Without(seq, i)[k] = seq[j]
<1> DEFINE front == SubSeq(seq, 1, i - 1)
           back == SubSeq(seq, i + 1, Len(seq))
<1>1. Len(seq) \in Nat /\ \A k \in 1 .. Len(seq) : seq[k] \in S
  BY LenProperties, ElementOfSeq
<1>2. /\ front \in Seq(S) /\ Len(front) = i - 1
      /\ \A j \in 1 .. i - 1 : front[j] = seq[j]
  <2>1. \A k \in 1 .. i - 1 : seq[k] \in S
    BY <1>1
  <2> QED  BY <2>1, <1>1
<1>3. /\ back \in Seq(S) /\ Len(back) = Len(seq) - i
      /\ \A j \in 1 .. Len(seq) - i : back[j] = seq[i + j]
  <2>1. \A k \in i + 1 .. Len(seq) : seq[k] \in S
    BY <1>1
  <2> QED  BY <2>1, <1>1
<1> HIDE DEF front, back
<1>4. /\ front \o back \in Seq(S) /\ Len(front \o back) = Len(front) + Len(back)
      /\ \A k \in 1 .. Len(front) + Len(back) :
           (front \o back)[k] = IF k <= Len(front) THEN front[k] ELSE back[k - Len(front)]
  BY <1>2, <1>3, ConcatProperties, Zenon
<1>5. DOMAIN (front \o back) = 1 .. Len(seq) - 1
  <2>1. DOMAIN (front \o back) = 1 .. Len(front \o back)
    BY <1>4, LenProperties, Zenon
  <2>2. Len(front \o back) = Len(seq) - 1
    BY <1>1, <1>2, <1>3, <1>4
  <2> QED  BY <2>1, <2>2
<1>6. ASSUME NEW j \in 1 .. Len(seq), j # i
      PROVE  \E k \in DOMAIN (front \o back) : (front \o back)[k] = seq[j]
  <2>1. CASE j < i
    <3>1. j \in 1 .. Len(seq) - 1 /\ j <= Len(front) /\ j \in 1 .. i - 1
      BY <1>1, <1>2, <2>1
    <3>2. (front \o back)[j] = seq[j]
      BY <1>1, <1>2, <1>3, <1>4, <3>1
    <3> QED  BY <1>5, <3>1, <3>2
  <2>2. CASE i < j
    <3>1. /\ j - 1 \in 1 .. Len(seq) - 1 /\ ~ j - 1 <= Len(front)
          /\ (j - 1) - Len(front) = j - i /\ j - i \in 1 .. Len(seq) - i /\ i + (j - i) = j
      BY <1>1, <1>2, <2>2
    <3>2. (front \o back)[j - 1] = back[j - i] /\ back[j - i] = seq[j]
      BY <1>1, <1>2, <1>3, <1>4, <3>1
    <3> QED  BY <1>5, <3>1, <3>2
  <2> QED  BY <1>1, <1>6, <2>1, <2>2
<1> QED  BY <1>4, <1>6 DEF Without, front, back

(* Setting one more timer forgets none, and a new "idle" one leads back.    *)
LEMMA AppendReturns ==
    ASSUME Shape, NEW n \in Int, timers' = Append(timers, Timer("idle", n))
    PROVE  timers' \in Seq(TimerType) /\ Returning'
<1> DEFINE new == Timer("idle", n)
<1>1. new \in TimerType /\ new.act = "idle"
  BY DEF Timer, TimerType
<1> HIDE DEF new
<1>2. timers' \in Seq(TimerType) /\ Len(timers') = Len(timers) + 1
      /\ timers'[Len(timers) + 1] = new /\ Len(timers) \in Nat
  BY <1>1 DEF Shape, new
<1>3. Len(timers') \in DOMAIN timers'
  BY <1>2
<1> QED  BY <1>1, <1>2, <1>3 DEF Returning

-----------------------------------------------------------------------------
(* Calls. *)

(* A call takes a free slot.                                                *)
LEMMA BeginTakesSlot ==
    ASSUME IsTable(task), HasSlot, NEW r, IsCall(r)
    PROVE  /\ IsTable(Begin(r)) /\ \E t \in Tasks : Begin(r)[t] = r
           /\ \A t \in Tasks : task[t].kind # "none" => Begin(r)[t] = task[t]
<1>1. Slot \in Tasks /\ task[Slot].kind = "none"
  BY DEF HasSlot, Slot, Idle
<1> QED  BY <1>1 DEF Begin, IsTable

(* A call that ends, or goes on as another.                                 *)
LEMMA TaskReplaced ==
    ASSUME IsTable(task), NEW t \in Tasks, NEW r, IsCall(r), task' = [task EXCEPT ![t] = r]
    PROVE  /\ IsTable(task') /\ task'[t] = r
           /\ \A u \in Tasks : u # t => task'[u] = task[u]
BY DEF IsTable

(* Detaching a call from its legs changes neither what it is nor its stage. *)
LEMMA DetachKeeps ==
    ASSUME NEW tk, IsTable(tk), NEW exs
    PROVE  /\ IsTable(Detach(tk, exs))
           /\ \A t \in Tasks : /\ Awaits(tk[t]) => Awaits(Detach(tk, exs)[t])
                               /\ Watches(tk[t]) => Watches(Detach(tk, exs)[t])
<1> SUFFICES ASSUME NEW t \in Tasks
             PROVE  /\ IsCall(Detach(tk, exs)[t])
                    /\ Awaits(tk[t]) => Awaits(Detach(tk, exs)[t])
                    /\ Watches(tk[t]) => Watches(Detach(tk, exs)[t])
  BY DEF IsTable, Detach
<1>1. CASE tk[t].kind = "protect" /\ tk[t].ex \in exs
  <2>1. Detach(tk, exs)[t] = [tk[t] EXCEPT !.mine = FALSE]
    BY <1>1 DEF Detach
  <2> QED  BY <1>1, <2>1 DEF IsTable, IsCall, Awaits, Watches
<1>2. CASE tk[t].kind = "cancel"
  <2>1. Detach(tk, exs)[t] = [tk[t] EXCEPT !.mine = @ \ exs]
    BY <1>2 DEF Detach
  <2>2. Detach(tk, exs)[t].kind = "cancel" /\ "kind" \in DOMAIN Detach(tk, exs)[t]
    BY <1>2, <2>1 DEF IsTable, IsCall
  <2> QED  BY <1>2, <2>2 DEF IsCall, Awaits, Watches
<1>3. CASE ~ (tk[t].kind = "protect" /\ tk[t].ex \in exs) /\ tk[t].kind # "cancel"
  <2>1. Detach(tk, exs)[t] = tk[t]
    BY <1>3 DEF Detach
  <2> QED  BY <2>1 DEF IsTable
<1> QED  BY <1>1, <1>2, <1>3

-----------------------------------------------------------------------------
(* Steps that leave the phase, the timers and the poller alone, and end     *)
(* neither the placement nor the call that the phase waits for.             *)
LEMMA CallsGoOn ==
    ASSUME SessionInv, IsTable(task'), UNCHANGED <<phase, polling, timers>>,
           process' # "exited" => process # "exited",
           \A t \in Tasks : /\ Awaits(task[t]) => Awaits(task'[t])
                            /\ Watches(task[t]) => Watches(task'[t])
    PROVE  SessionInv'
<1>1. Shape'
  BY DEF SessionInv, Shape
<1>2. Awaited => Awaited'
  BY DEF Awaited, Awaits
<1>3. Watched => Watched'
  BY DEF Watched, Watches
<1>4. Returning => Returning'
  BY DEF Returning
<1> QED  BY <1>1, <1>2, <1>3, <1>4 DEF SessionInv, NoPhaseIsStuck

(* The placements: priced, answered, and nobody's any more.                 *)
LEMMA PlacementSteps ==
    ASSUME SessionInv, NEW t \in Tasks,
           \/ ExecPriced(t) \/ DeadExecEnds(t) \/ \E ex \in Ex : PlacementLands(t, ex)
    PROVE  SessionInv'
<1> USE DEF SessionInv, Shape
<1>1. CASE ExecPriced(t)
  <2>1. /\ task' = [task EXCEPT ![t].stage = "place"]
        /\ task[t].kind = "exec" /\ task[t].stage = "price"
        /\ UNCHANGED <<phase, polling, timers, process>>
    BY <1>1 DEF ExecPriced
  <2> DEFINE r == [task[t] EXCEPT !.stage = "place"]
  <2>2. IsCall(r) /\ Awaits(r)
    BY <2>1 DEF IsTable, IsCall, Awaits
  <2>3. task' = [task EXCEPT ![t] = r]
    BY <2>1
  <2> HIDE DEF r
  <2>5. Awaits(task'[t]) /\ IsTable(task') /\ \A u \in Tasks : u # t => task'[u] = task[u]
    BY <2>2, <2>3, TaskReplaced
  <2>4. ~ Watches(task[t])
    BY <2>1 DEF Watches
  <2> QED  BY <2>1, <2>4, <2>5, CallsGoOn
<1>2. CASE DeadExecEnds(t)
  <2>1. /\ task' = [task EXCEPT ![t] = NoTask]
        /\ task[t].kind = "exec" /\ task[t].stage = "dead"
        /\ UNCHANGED <<phase, polling, timers, process>>
    BY <1>2 DEF DeadExecEnds, End
  <2>2. IsTable(task') /\ \A u \in Tasks : u # t => task'[u] = task[u]
    <3>1. IsCall(NoTask)
      BY DEF IsCall, NoTask
    <3> QED  BY <2>1, <3>1, TaskReplaced
  <2>3. ~ Watches(task[t]) /\ ~ Awaits(task[t])
    BY <2>1 DEF Watches, Awaits
  <2> QED  BY <2>1, <2>2, <2>3, CallsGoOn
<1>3. ASSUME NEW ex \in Ex, PlacementLands(t, ex)
      PROVE  SessionInv'
  <2>1. PICK v : task' = [task EXCEPT ![t].at[ex] = v]
    BY <1>3 DEF PlacementLands
  <2>2. UNCHANGED <<phase, polling, timers, process>> /\ task[t].kind = "exec"
    BY <1>3 DEF PlacementLands
  <2> DEFINE r == [task[t] EXCEPT !.at[ex] = v]
  <2>3. task' = [task EXCEPT ![t] = r]
    BY <2>1
  <2>4. IsCall(r) /\ r.kind = task[t].kind /\ r.stage = task[t].stage
    BY <2>2 DEF IsTable, IsCall
  <2> HIDE DEF r
  <2>5. task'[t] = r /\ IsTable(task') /\ \A u \in Tasks : u # t => task'[u] = task[u]
    BY <2>3, <2>4, TaskReplaced
  <2>6. /\ Awaits(task[t]) => Awaits(task'[t])
        /\ Watches(task[t]) => Watches(task'[t])
    BY <2>4, <2>5 DEF Awaits, Watches
  <2> QED  BY <2>2, <2>5, <2>6, CallsGoOn
<1> QED  BY <1>1, <1>2, <1>3
(* A call that is neither placement nor cancel nor recovery may end or go   *)
(* on; a cancel goes on.                                                    *)
LEMMA OtherCallGoesOn ==
    ASSUME SessionInv, NEW t \in Tasks, NEW r, IsCall(r), task' = [task EXCEPT ![t] = r],
           ~ Awaits(task[t]), Watches(task[t]) => Watches(r),
           UNCHANGED <<phase, polling, timers, process>>
    PROVE  SessionInv'
<1>1. IsTable(task') /\ task'[t] = r /\ \A u \in Tasks : u # t => task'[u] = task[u]
  BY TaskReplaced DEF SessionInv, Shape
<1> QED  BY <1>1, CallsGoOn

(* Cancels, polls and the single-leg protection.                            *)
LEMMA CallSteps ==
    ASSUME SessionInv, NEW t \in Tasks,
           \/ PollFailed(t) \/ ProtectCancels(t) \/ ProtectPlaces(t)
           \/ \E ex \in Ex : CancelLands(t, ex)
    PROVE  SessionInv'
<1>1. IsCall(NoTask) /\ IsCall(task[t])
  BY DEF SessionInv, Shape, IsTable, IsCall, NoTask
<1>2. CASE PollFailed(t)
  BY <1>1, <1>2, OtherCallGoesOn DEF PollFailed, End, Awaits, Watches
<1>3. CASE ProtectPlaces(t)
  BY <1>1, <1>3, OtherCallGoesOn DEF ProtectPlaces, End, Awaits, Watches
<1>4. CASE ProtectCancels(t)
  <2>1. /\ task[t].kind = "protect"
        /\ UNCHANGED <<phase, polling, timers, process>>
        /\ \/ task' = [task EXCEPT ![t] = NoTask]
           \/ task' = [task EXCEPT ![t] = [task[t] EXCEPT !.stage = "place"]]
    BY <1>4 DEF ProtectCancels, End
  <2>2. IsCall([task[t] EXCEPT !.stage = "place"])
    BY <1>1, <2>1 DEF IsCall
  <2> QED  BY <1>1, <2>1, <2>2, OtherCallGoesOn DEF Awaits, Watches
<1>5. ASSUME NEW ex \in Ex, CancelLands(t, ex)
      PROVE  SessionInv'
  <2>1. /\ task[t].kind = "cancel"
        /\ UNCHANGED <<phase, polling, timers, process>>
        /\ task' = [task EXCEPT ![t] = [task[t] EXCEPT !.wait[ex] = 0]]
    BY <1>5 DEF CancelLands
  <2>2. IsCall([task[t] EXCEPT !.wait[ex] = 0]) /\ [task[t] EXCEPT !.wait[ex] = 0].kind = "cancel"
    BY <1>1, <2>1 DEF IsCall
  <2> QED  BY <2>1, <2>2, OtherCallGoesOn DEF Awaits, Watches
<1> QED  BY <1>2, <1>3, <1>4, <1>5

LEMMA PollStartStep ==
    ASSUME SessionInv, PollStart
    PROVE  SessionInv'
<1> DEFINE r == [kind |-> "poll", asked |-> [ex \in Ex |-> leg[ex].id],
                 seen |-> [ex \in Ex |-> IF leg[ex].id > 0
                                         THEN Status(ex, leg[ex].id) ELSE "none"]]
<1>1. IsCall(r)
  BY DEF IsCall
<1>2. task' = Begin(r) /\ HasSlot /\ UNCHANGED <<phase, polling, timers, process>>
  BY DEF PollStart, MayBegin
<1> HIDE DEF r
<1>3. /\ IsTable(task')
      /\ \A u \in Tasks : task[u].kind # "none" => task'[u] = task[u]
  BY <1>1, <1>2, BeginTakesSlot DEF SessionInv, Shape
<1>4. \A u \in Tasks : Awaits(task[u]) \/ Watches(task[u]) => task[u].kind # "none"
  BY DEF Awaits, Watches
<1> QED  BY <1>2, <1>3, <1>4, CallsGoOn

-----------------------------------------------------------------------------
(* Steps that end a phase. *)

(* Back to IDLE, of which nothing is owed.                                  *)
LEMMA BackToIdle ==
    ASSUME Shape', phase' = "IDLE"
    PROVE  SessionInv'
BY DEF SessionInv, NoPhaseIsStuck

(* A result is announced together with the timer that takes it away.        *)
LEMMA ResultIsTimed ==
    ASSUME Shape', phase' \in {"FILLED", "CANCELLED", "TIMEOUT"}, Returning'
    PROVE  SessionInv'
BY DEF SessionInv, NoPhaseIsStuck

(* What is watched is polled or being cancelled or recovered.               *)
LEMMA MonitoringIsWatched ==
    ASSUME Shape', phase' = "MONITORING", Watched'
    PROVE  SessionInv'
BY DEF SessionInv, NoPhaseIsStuck

(* The end of the placement.                                                *)
LEMMA PlacementEnds ==
    ASSUME SessionInv, NEW t \in Tasks, ExecUnpriced(t) \/ ExecRejected(t) \/ ExecPlaced(t)
    PROVE  SessionInv'
<1>1. IsTable(task) /\ IsCall(NoTask) /\ IsCall(task[t])
  BY DEF SessionInv, Shape, IsTable, IsCall, NoTask
<1>2. CASE ExecUnpriced(t) \/ ExecRejected(t)
  <2>1. /\ phase' = "IDLE" /\ UNCHANGED <<polling, timers>>
        /\ \/ task' = [task EXCEPT ![t] = NoTask]
           \/ task' = [task EXCEPT ![t] = [task[t] EXCEPT !.stage = "dead"]]
    BY <1>2 DEF ExecUnpriced, ExecRejected, End
  <2>2. IsCall([task[t] EXCEPT !.stage = "dead"])
    BY <1>1 DEF IsCall
  <2>3. IsTable(task')
    BY <1>1, <2>1, <2>2, TaskReplaced
  <2> QED  BY <2>1, <2>3, BackToIdle DEF SessionInv, Shape
<1>3. CASE ExecPlaced(t)
  <2>1. /\ phase' = "MONITORING" /\ UNCHANGED timers
        /\ polling' = [own |-> TRUE, leaked |-> polling.leaked \/ polling.own]
        /\ task' = Detach([task EXCEPT ![t] = NoTask], Ex)
    BY <1>3 DEF ExecPlaced, End, StartedPolling
  <2>2. polling' \in [own : BOOLEAN, leaked : BOOLEAN] /\ polling'.own
    BY <2>1 DEF SessionInv, Shape
  <2>3. IsTable([task EXCEPT ![t] = NoTask])
    BY <1>1 DEF IsTable
  <2>4. IsTable(task')
    BY <2>1, <2>3, DetachKeeps
  <2> QED  BY <2>1, <2>2, <2>4, MonitoringIsWatched DEF SessionInv, Shape, Watched
<1> QED  BY <1>2, <1>3

(* The end of a cancel.                                                     *)
LEMMA CancelEnds ==
    ASSUME SessionInv, NEW t \in Tasks,
           CancelledByKey(t) \/ CancelledForAmend(t) \/ CancelledByTimeout(t)
    PROVE  SessionInv'
<1>1. /\ phase' \in {"CANCELLED", "TIMEOUT"} /\ UNCHANGED polling
      /\ task' = [task EXCEPT ![t] = NoTask]
  BY DEF CancelledByKey, CancelledForAmend, CancelledByTimeout, End
<1>2. timers \in Seq(TimerType) /\ IsTable(task) /\ IsCall(NoTask)
  BY DEF SessionInv, Shape, IsCall, NoTask
<1>3. IsTable(task')
  BY <1>1, <1>2, TaskReplaced
<1>4. timers' \in Seq(TimerType) /\ Returning'
  <2> DEFINE idle == Timer("idle", 3)
             later == Timer("execute", 1)
  <2>1. idle \in TimerType /\ later \in TimerType /\ idle.act = "idle"
    BY DEF Timer, TimerType
  <2>2. \/ timers' = Append(timers, idle)
        \/ timers' = timers \o <<idle, later>>
        \/ timers' = timers \o <<idle, idle>>
    BY DEF CancelledByKey, CancelledForAmend, CancelledByTimeout
  <2> HIDE DEF idle, later
  <2>3. Len(timers) \in Nat
    BY <1>2, LenProperties
  <2>4. ASSUME NEW second \in {idle, later}, timers' = timers \o <<idle, second>>
        PROVE  /\ timers' \in Seq(TimerType) /\ Len(timers') = Len(timers) + 2
               /\ timers'[Len(timers) + 1] = idle
    <3> DEFINE two == <<idle, second>>
    <3>1. two \in Seq(TimerType) /\ Len(two) = 2 /\ two[1] = idle
      <4>1. second \in TimerType
        BY <2>1
      <4> QED  BY <2>1, <4>1
    <3> HIDE DEF two
    <3>2. /\ timers' \in Seq(TimerType) /\ Len(timers') = Len(timers) + Len(two)
          /\ \A k \in 1 .. Len(timers) + Len(two) :
               timers'[k] = IF k <= Len(timers) THEN timers[k] ELSE two[k - Len(timers)]
      <4>1. timers' = timers \o two
        BY <2>4 DEF two
      <4> QED  BY <1>2, <3>1, <4>1, ConcatProperties, Zenon
    <3>3. /\ Len(timers) + 1 \in 1 .. Len(timers) + Len(two)
          /\ ~ Len(timers) + 1 <= Len(timers) /\ (Len(timers) + 1) - Len(timers) = 1
      BY <2>3, <3>1
    <3>4. timers'[Len(timers) + 1] = two[1]
      BY <3>2, <3>3
    <3> QED  BY <3>1, <3>2, <3>4
  <2>5. /\ timers' \in Seq(TimerType) /\ Len(timers) + 1 <= Len(timers') /\ Len(timers') \in Nat
        /\ timers'[Len(timers) + 1] = idle
    <3>1. CASE timers' = Append(timers, idle)
      BY <1>2, <2>1, <2>3, <3>1
    <3>2. CASE timers' = timers \o <<idle, later>> \/ timers' = timers \o <<idle, idle>>
      <4>1. \E second \in {idle, later} : timers' = timers \o <<idle, second>>
        BY <3>2
      <4>2. /\ timers' \in Seq(TimerType) /\ Len(timers') = Len(timers) + 2
            /\ timers'[Len(timers) + 1] = idle
        BY <2>4, <4>1
      <4> QED  BY <2>3, <4>2
    <3> QED  BY <2>2, <3>1, <3>2
  <2>6. Len(timers) + 1 \in DOMAIN timers'
    <3>1. DOMAIN timers' = 1 .. Len(timers')
      BY <2>5, LenProperties
    <3> QED  BY <2>3, <2>5, <3>1
  <2> QED  BY <2>1, <2>5, <2>6 DEF Returning
<1> QED  BY <1>1, <1>3, <1>4, ResultIsTimed DEF SessionInv, Shape

(* A cancel begins and the poller stops: the call itself is what watches.   *)
LEMMA CancelBegins ==
    ASSUME SessionInv, NEW why, task' = Begin(CancelTask(why)), HasSlot,
           polling' = StoppedPolling, UNCHANGED <<phase, timers>>,
           process' # "exited" => process # "exited"
    PROVE  SessionInv'
<1>1. IsCall(CancelTask(why)) /\ Watches(CancelTask(why))
  BY DEF IsCall, CancelTask, Watches
<1>2. /\ IsTable(task') /\ \E u \in Tasks : task'[u] = CancelTask(why)
      /\ \A u \in Tasks : task[u].kind # "none" => task'[u] = task[u]
  BY <1>1, BeginTakesSlot DEF SessionInv, Shape
<1>3. Watched'
  BY <1>1, <1>2 DEF Watched, Watches
<1>4. Awaited => Awaited'
  BY <1>2 DEF Awaited
<1>5. Returning => Returning'
  BY DEF Returning
<1>6. Shape'
  BY <1>2 DEF SessionInv, Shape, StoppedPolling
<1> QED  BY <1>3, <1>4, <1>5, <1>6 DEF SessionInv, NoPhaseIsStuck

(* The order time-out: with the session monitored, its cancel begins; in    *)
(* any other phase, TIMEOUT is announced with its timer.                    *)
LEMMA TimeoutStep ==
    ASSUME SessionInv, TimeoutFires
    PROVE  SessionInv'
<1>1. PICK left \in FiredTimeout :
         \/ phase = "MONITORING" /\ StartCancel("timeout", left)
         \/ /\ phase' = "TIMEOUT" /\ timers' = Append(timers, Timer("idle", 3))
            /\ UNCHANGED <<polling, task>>
  BY DEF TimeoutFires
<1>2. UNCHANGED process
  BY DEF TimeoutFires
<1>3. CASE StartCancel("timeout", left)
  BY <1>2, <1>3, CancelBegins DEF StartCancel, MayBegin
<1>4. CASE /\ phase' = "TIMEOUT" /\ timers' = Append(timers, Timer("idle", 3))
           /\ UNCHANGED <<polling, task>>
  <2>1. timers' \in Seq(TimerType) /\ Returning'
    BY <1>4, AppendReturns DEF SessionInv
  <2> QED  BY <1>4, <2>1, ResultIsTimed DEF SessionInv, Shape
<1> QED  BY <1>1, <1>3, <1>4

(* Keys that cancel: amend, cancel and quit.                                *)
LEMMA CancelKeys ==
    ASSUME SessionInv, UserCancel \/ UserAmend \/ UserQuit
    PROVE  SessionInv'
<1>1. CASE UserCancel
  BY <1>1, CancelBegins DEF UserCancel, StartCancel, MayBegin
<1>2. CASE UserAmend
  BY <1>2, CancelBegins DEF UserAmend, StartCancel, MayBegin
<1>3. CASE UserQuit
  BY <1>3, CancelBegins DEF UserQuit, StartCancel, MayBegin
<1> QED  BY <1>1, <1>2, <1>3

(* execute(), on a key or as the second half of an amend: a placement       *)
(* begins, or nothing happens.                                              *)
LEMMA ExecuteKeeps ==
    ASSUME SessionInv, NEW timersLeft \in Seq(TimerType), Execute(timersLeft),
           Returning => \E i \in DOMAIN timersLeft : timersLeft[i].act = "idle"
    PROVE  SessionInv'
<1>1. CASE MayExecute
  <2> DEFINE r == [kind |-> "exec", stage |-> "price", at |-> [ex \in Ex |-> 0]]
  <2>1. IsCall(r) /\ Awaits(r)
    BY DEF IsCall, Awaits
  <2>2. /\ phase' = "PLACING" /\ HasSlot /\ task' = Begin(r)
        /\ timers' = timersLeft /\ UNCHANGED polling
    BY <1>1 DEF Execute
  <2> HIDE DEF r
  <2>3. IsTable(task') /\ \E u \in Tasks : task'[u] = r
    BY <2>1, <2>2, BeginTakesSlot DEF SessionInv, Shape
  <2>4. Awaited'
    BY <2>1, <2>3 DEF Awaited, Awaits
  <2> QED  BY <2>2, <2>3, <2>4 DEF SessionInv, Shape, NoPhaseIsStuck
<1>2. CASE ~ MayExecute
  <2>1. timers' = timersLeft /\ UNCHANGED <<phase, polling, task, process>>
    BY <1>2 DEF Execute
  <2>2. Returning => Returning'
    BY <2>1 DEF Returning
  <2> QED  BY <2>1, <2>2 DEF SessionInv, Shape, NoPhaseIsStuck, Awaited, Watched
<1> QED  BY <1>1, <1>2

LEMMA UserExecuteStep ==
    ASSUME SessionInv, UserExecute
    PROVE  SessionInv'
<1>1. Execute(timers) /\ timers \in Seq(TimerType)
  BY DEF UserExecute, SessionInv, Shape
<1> QED  BY <1>1, ExecuteKeeps DEF Returning

(* Timers: one that is due goes, the others stay; or all come nearer.       *)
LEMMA TimerSteps ==
    ASSUME SessionInv, ReturnToIdle \/ ReExecute \/ Tick
    PROVE  SessionInv'
<1>1. /\ timers \in Seq(TimerType) /\ DOMAIN timers = 1 .. Len(timers) /\ Len(timers) \in Nat
      /\ \A i \in 1 .. Len(timers) : timers[i] \in TimerType
  BY LenProperties, ElementOfSeq DEF SessionInv, Shape
<1>2. CASE ReturnToIdle
  <2>1. PICK i \in DueTimers : timers' = Without(timers, i)
    BY <1>2 DEF ReturnToIdle
  <2>2. i \in 1 .. Len(timers)
    BY <1>1, <2>1 DEF DueTimers
  <2>3. timers' \in Seq(TimerType)
    BY <1>1, <2>1, <2>2, WithoutKeepsOthers
  <2>4. phase' = "IDLE" /\ UNCHANGED <<polling, task>>
    BY <1>2 DEF ReturnToIdle
  <2> QED  BY <2>3, <2>4, BackToIdle DEF SessionInv, Shape
<1>3. CASE ReExecute
  <2>1. PICK i \in DueTimers : timers[i].act = "execute" /\ Execute(Without(timers, i))
    BY <1>3 DEF ReExecute
  <2>2. i \in 1 .. Len(timers)
    BY <1>1, <2>1 DEF DueTimers
  <2>3. /\ Without(timers, i) \in Seq(TimerType)
        /\ \A j \in 1 .. Len(timers) : j # i =>
             \E k \in DOMAIN Without(timers, i) : Without(timers, i)[k] = timers[j]
    BY <1>1, <2>2, WithoutKeepsOthers
  <2>4. Returning => \E k \in DOMAIN Without(timers, i) : Without(timers, i)[k].act = "idle"
    <3> SUFFICES ASSUME NEW j \in DOMAIN timers, timers[j].act = "idle"
                 PROVE  \E k \in DOMAIN Without(timers, i) : Without(timers, i)[k].act = "idle"
      BY DEF Returning
    <3>1. j \in 1 .. Len(timers) /\ j # i
      BY <1>1, <2>1
    <3>2. PICK k \in DOMAIN Without(timers, i) : Without(timers, i)[k] = timers[j]
      BY <2>3, <3>1
    <3> QED  BY <3>2
  <2> QED  BY <2>1, <2>3, <2>4, ExecuteKeeps
<1>4. CASE Tick
  <2>1. /\ timers' = [i \in DOMAIN timers |-> [timers[i] EXCEPT !.left = @ - 1]]
        /\ UNCHANGED <<phase, polling, task, process>>
    BY <1>4 DEF Tick
  <2>2. \A i \in 1 .. Len(timers) : /\ [timers[i] EXCEPT !.left = @ - 1] \in TimerType
                                    /\ [timers[i] EXCEPT !.left = @ - 1].act = timers[i].act
    BY <1>1 DEF TimerType
  <2>3. timers' \in Seq(TimerType)
    BY <1>1, <2>1, <2>2
  <2>4. Returning => Returning'
    BY <1>1, <2>1, <2>2 DEF Returning
  <2> QED  BY <2>1, <2>3, <2>4 DEF SessionInv, Shape, NoPhaseIsStuck, Awaited, Watched
<1> QED  BY <1>2, <1>3, <1>4

(* The answer to a poll: both legs filled are announced; else the call ends *)
(* or goes on as the single-leg protection.                                 *)
LEMMA PollAnsweredStep ==
    ASSUME SessionInv, NEW t \in Tasks, PollAnswered(t)
    PROVE  SessionInv'
<1>1. IsTable(task) /\ IsCall(NoTask)
  BY DEF SessionInv, Shape, IsCall, NoTask
<1>2. /\ task[t].kind = "poll" /\ UNCHANGED process
      /\ \/ /\ phase' = "FILLED" /\ polling' = StoppedPolling
            /\ timers' = Append(timers, Timer("idle", 4)) /\ task' = [task EXCEPT ![t] = NoTask]
         \/ /\ UNCHANGED <<phase, polling, timers>>
            /\ \/ task' = [task EXCEPT ![t] = NoTask]
               \/ \E ex \in Ex : task' = [task EXCEPT ![t] = ProtectTask(leg', ex)]
  <2>1. PICK ans \in [Ex -> Statuses \union {"none"}] :
          \/ /\ polling' = StoppedPolling /\ phase' = "FILLED"
             /\ timers' = Append(timers, Timer("idle", 4)) /\ task' = End(t)
          \/ /\ task' = IF params /\ \E ex \in Ex : Exposed(leg', ex)
                        THEN [task EXCEPT ![t] =
                                ProtectTask(leg', CHOOSE ex \in Ex : Exposed(leg', ex))]
                        ELSE End(t)
             /\ UNCHANGED <<phase, polling, timers>>
    BY DEF PollAnswered
  <2>2. (\E ex \in Ex : Exposed(leg', ex)) => (CHOOSE ex \in Ex : Exposed(leg', ex)) \in Ex
    OBVIOUS
  <2>3. task[t].kind = "poll" /\ UNCHANGED process
    BY DEF PollAnswered
  <2> QED  BY <2>1, <2>2, <2>3 DEF End
<1>3. CASE /\ phase' = "FILLED" /\ polling' = StoppedPolling
           /\ timers' = Append(timers, Timer("idle", 4)) /\ task' = [task EXCEPT ![t] = NoTask]
  <2>1. IsTable(task')
    BY <1>1, <1>3, TaskReplaced
  <2>2. timers' \in Seq(TimerType) /\ Returning'
    BY <1>3, AppendReturns DEF SessionInv
  <2> QED  BY <1>3, <2>1, <2>2, ResultIsTimed DEF SessionInv, Shape, StoppedPolling
<1>4. CASE UNCHANGED <<phase, polling, timers>> /\ task' = [task EXCEPT ![t] = NoTask]
  BY <1>1, <1>2, <1>4, OtherCallGoesOn DEF Awaits, Watches
<1>5. ASSUME UNCHANGED <<phase, polling, timers>>, NEW ex \in Ex,
             task' = [task EXCEPT ![t] = ProtectTask(leg', ex)]
      PROVE  SessionInv'
  <2>1. IsCall(ProtectTask(leg', ex))
    BY DEF IsCall, ProtectTask
  <2> QED  BY <1>2, <1>5, <2>1, OtherCallGoesOn DEF Awaits, Watches
<1> QED  BY <1>2, <1>3, <1>4, <1>5

(* recoverOpenOrders ends with a poller, or with nothing to watch.          *)
LEMMA RecoveredStep ==
    ASSUME SessionInv, NEW t \in Tasks, Recovered(t)
    PROVE  SessionInv'
<1>1. /\ UNCHANGED timers
      /\ task' = Detach([task EXCEPT ![t] = NoTask], {ex \in Ex : leg'[ex] # leg[ex]})
      /\ \/ /\ phase' = "MONITORING"
            /\ polling' = [own |-> TRUE, leaked |-> polling.leaked \/ polling.own]
         \/ phase' = "IDLE" /\ UNCHANGED polling
  BY DEF Recovered, End, StartedPolling
<1>2. IsTable([task EXCEPT ![t] = NoTask])
  BY DEF SessionInv, Shape, IsTable, IsCall, NoTask
<1>3. IsTable(task')
  BY <1>1, <1>2, DetachKeeps
<1>4. CASE phase' = "IDLE" /\ UNCHANGED polling
  BY <1>1, <1>3, <1>4, BackToIdle DEF SessionInv, Shape
<1>5. CASE /\ phase' = "MONITORING"
           /\ polling' = [own |-> TRUE, leaked |-> polling.leaked \/ polling.own]
  <2>1. polling' \in [own : BOOLEAN, leaked : BOOLEAN] /\ polling'.own
    BY <1>5 DEF SessionInv, Shape
  <2> QED  BY <1>1, <1>3, <1>5, <2>1, MonitoringIsWatched DEF SessionInv, Shape, Watched
<1> QED  BY <1>1, <1>4, <1>5

(* The screens: selectSymbol stops the poller and recovers, whatever the    *)
(* phase is; goBack is refused outside IDLE.                                *)
LEMMA ScreenKeys ==
    ASSUME SessionInv, UserSelect \/ UserBack
    PROVE  SessionInv'
<1>1. CASE UserBack
  <2>1. phase' = "IDLE" /\ polling' = StoppedPolling /\ task' = Detach(task, Ex) /\ UNCHANGED timers
    BY <1>1 DEF UserBack
  <2>2. IsTable(task')
    BY <2>1, DetachKeeps DEF SessionInv, Shape
  <2> QED  BY <2>1, <2>2, BackToIdle DEF SessionInv, Shape, StoppedPolling
<1>2. CASE UserSelect
  <2> DEFINE r == [kind |-> "recover", seen |-> [ex \in Ex |-> OpenIds(ex)]]
  <2>1. IsCall(r) /\ Watches(r)
    BY DEF IsCall, Watches
  <2>2. /\ HasSlot /\ task' = Detach(Begin(r), Ex) /\ polling' = StoppedPolling
        /\ UNCHANGED <<phase, timers, process>>
    BY <1>2 DEF UserSelect, MayBegin
  <2> HIDE DEF r
  <2>3. /\ IsTable(Begin(r)) /\ \E u \in Tasks : Begin(r)[u] = r
        /\ \A u \in Tasks : task[u].kind # "none" => Begin(r)[u] = task[u]
    BY <2>1, <2>2, BeginTakesSlot DEF SessionInv, Shape
  <2>4. /\ IsTable(task')
        /\ \A u \in Tasks : /\ Awaits(Begin(r)[u]) => Awaits(task'[u])
                            /\ Watches(Begin(r)[u]) => Watches(task'[u])
    BY <2>2, <2>3, DetachKeeps
  <2>5. Watched'
    <3>1. \E u \in Tasks : Watches(task'[u])
      BY <2>1, <2>3, <2>4
    <3> QED  BY <3>1 DEF Watched, Watches
  <2>6. Awaited => Awaited'
    <3> SUFFICES ASSUME NEW u \in Tasks, Awaits(task[u]) PROVE Awaits(task'[u])
      BY DEF Awaited, Awaits
    <3>1. task[u].kind # "none"
      BY DEF Awaits
    <3> QED  BY <2>3, <2>4, <3>1
  <2>7. Returning => Returning'
    BY <2>2 DEF Returning
  <2>8. Shape'
    BY <2>2, <2>4 DEF SessionInv, Shape, StoppedPolling
  <2> QED  BY <2>2, <2>5, <2>6, <2>7, <2>8 DEF SessionInv, NoPhaseIsStuck
<1> QED  BY <1>1, <1>2

(* The program exits; orders, prices and the grace period concern no phase. *)
LEMMA OtherSteps ==
    ASSUME SessionInv,
           \/ \E t \in Tasks : Exit(t)
           \/ Environment \/ UNCHANGED vars
    PROVE  SessionInv'
<1>1. ASSUME NEW t \in Tasks, Exit(t)
      PROVE  SessionInv'
  <2>1. /\ process' = "exited" /\ UNCHANGED <<polling, timers>>
        /\ task' = [task EXCEPT ![t] = NoTask]
    BY <1>1 DEF Exit, End
  <2>2. IsTable(task')
    <3>1. IsCall(NoTask)
      BY DEF IsCall, NoTask
    <3> QED  BY <2>1, <3>1, TaskReplaced DEF SessionInv, Shape
  <2> QED  BY <2>1, <2>2 DEF SessionInv, Shape, NoPhaseIsStuck
<1>2. CASE Environment \/ UNCHANGED vars
  <2>1. UNCHANGED <<phase, polling, timers, task>> /\ (process' = process \/ process' = "exited")
    BY <1>2 DEF Environment, FeedChanges, ForceExit, Exited, GraceElapses, Fill, vars
  <2> QED  BY <2>1 DEF SessionInv, Shape, NoPhaseIsStuck, Awaited, Watched, Returning
<1> QED  BY <1>1, <1>2

LEMMA SessionInit == Init => SessionInv
<1> SUFFICES ASSUME Init PROVE SessionInv
  OBVIOUS
<1>1. IsTable(task)
  BY DEF Init, IsTable, IsCall, NoTask
<1>2. timers \in Seq(TimerType)
  BY DEF Init
<1> QED  BY <1>1, <1>2 DEF Init, SessionInv, Shape, NoPhaseIsStuck

-----------------------------------------------------------------------------
(* The conjunction holds in every reachable state.                          *)
THEOREM SessionInvariant == Spec => []SessionInv
<1>1. SessionInv /\ [Next]_vars => SessionInv'
  <2> SUFFICES ASSUME SessionInv, [Next]_vars PROVE SessionInv'
    OBVIOUS
  <2>1. CASE TimeoutFires
    BY <2>1, TimeoutStep
  <2>2. CASE ReturnToIdle \/ ReExecute \/ Tick
    BY <2>2, TimerSteps
  <2>3. CASE PollStart
    BY <2>3, PollStartStep
  <2>4. ASSUME NEW t \in Tasks,
               \/ ExecPriced(t) \/ DeadExecEnds(t) \/ \E ex \in Ex : PlacementLands(t, ex)
        PROVE  SessionInv'
    BY <2>4, PlacementSteps
  <2>5. ASSUME NEW t \in Tasks, ExecUnpriced(t) \/ ExecPlaced(t) \/ ExecRejected(t)
        PROVE  SessionInv'
    BY <2>5, PlacementEnds
  <2>6. ASSUME NEW t \in Tasks,
               CancelledByKey(t) \/ CancelledForAmend(t) \/ CancelledByTimeout(t)
        PROVE  SessionInv'
    BY <2>6, CancelEnds
  <2>7. ASSUME NEW t \in Tasks,
               \/ PollFailed(t) \/ ProtectCancels(t) \/ ProtectPlaces(t)
               \/ \E ex \in Ex : CancelLands(t, ex)
        PROVE  SessionInv'
    BY <2>7, CallSteps
  <2>8. ASSUME NEW t \in Tasks, PollAnswered(t) \/ Recovered(t) PROVE SessionInv'
    BY <2>8, PollAnsweredStep, RecoveredStep
  <2>9. CASE User
    BY <2>9, UserExecuteStep, CancelKeys, ScreenKeys DEF User
  <2>10. CASE Environment \/ UNCHANGED vars \/ \E t \in Tasks : Exit(t)
    BY <2>10, OtherSteps
  <2> QED
    BY <2>1, <2>2, <2>3, <2>4, <2>5, <2>6, <2>7, <2>8, <2>9, <2>10 DEF Next, Program
<1> QED  BY SessionInit, <1>1, PTL DEF Spec

(* PLACING has a call that will answer, MONITORING a poller or a call that  *)
(* will end it, and a phase that announces a result a timer back to IDLE -  *)
(* although startPolling, stopPolling, reset, cancelAll and the timers set  *)
(* them in a dozen places that know nothing of each other.                  *)
THEOREM NoPhaseIsStuckTheorem == Spec => []NoPhaseIsStuck
<1>1. SessionInv => NoPhaseIsStuck
  BY DEF SessionInv
<1> QED  BY <1>1, SessionInvariant, PTL

-----------------------------------------------------------------------------
(* The screens: what they show is served.                                   *)
Discovery == [sub : BOOLEAN, running : BOOLEAN, lost : Nat, ending : Nat]

(* The types, as far as steps depend on them.                               *)
ScreenTypes ==
    /\ nats \in {"connecting", "up", "down", "closed"}
    /\ view \in {"SYMBOL_SELECT", "DASHBOARD"}
    /\ found \in SUBSET Symbols /\ search \in Searches
    /\ cursor \in Nat
    /\ chosen \in Symbols /\ active \in Symbols
    /\ discovery \in Discovery
    /\ prices \in Symbols \union {None}
    /\ late \in SUBSET Symbols /\ asked \in SUBSET Symbols
    /\ snapshot \in Symbols \union {None}

(* The flag may be wrong while a symbol is being picked, for an old loop has*)
(* reset it.  On the dashboard, from where alone discovery is resumed, it   *)
(* says whether there is a subscription, and no loop is left to reset it    *)
(* when there is one.                                                       *)
DiscoveryInv ==
    /\ discovery.lost = 0
    /\ view = "DASHBOARD" =>
         discovery.running = discovery.sub /\ (discovery.sub => discovery.ending = 0)
    /\ nats = "connecting" =>
         ~ discovery.sub /\ ~ discovery.running /\ discovery.ending = 0
    /\ view = "SYMBOL_SELECT" /\ nats \in {"up", "down"} => discovery.sub

(* The cursor is on a symbol of the list.                                   *)
CursorInv == Filtered # {} => cursor < Cardinality(Filtered)

(* Prices and positions are those of the symbol that was selected.          *)
PricesInv ==
    /\ nats \in {"up", "down"} => prices = active
    /\ view = "DASHBOARD" => active = chosen
    /\ positions = IF view = "DASHBOARD" /\ positions # None THEN chosen ELSE None

ScreensInv == ScreenTypes /\ DiscoveryInv /\ CursorInv /\ PricesInv

-----------------------------------------------------------------------------
(* Lists and cursors. *)

(* A list of symbols that is not empty has a first place.                   *)
LEMMA ListSize ==
    ASSUME NEW list \in SUBSET Symbols, list # {}
    PROVE  Cardinality(list) \in Nat \ {0}
<1>1. IsFiniteSet(list)
  BY PriceAssumption, FS_Subset
<1> QED  BY <1>1, FS_CardinalityType, FS_EmptySet

(* What InRange returns is a place of the list (clampSelectedIndex).        *)
LEMMA InRangeIsPlace ==
    ASSUME NEW index \in Nat, NEW list \in SUBSET Symbols
    PROVE  /\ InRange(index, list) \in Nat
           /\ list # {} => InRange(index, list) < Cardinality(list)
<1>1. CASE list = {}
  <2>1. Cardinality(list) = 0
    BY <1>1, FS_EmptySet
  <2> QED  BY <1>1, <2>1 DEF InRange
<1>2. CASE list # {}
  BY <1>2, ListSize DEF InRange
<1> QED  BY <1>1, <1>2

(* Moving around the end of the list leads to a place of the list.          *)
LEMMA WrapIsPlace ==
    ASSUME NEW index \in Int, NEW size \in Nat \ {0}
    PROVE  index % size \in Nat /\ index % size < size
OBVIOUS

(* Of the symbols of a list one has as many before it as the cursor says.   *)
LEMMA SomeIsUnderCursor ==
    ASSUME NEW list \in SUBSET Symbols, NEW place \in Nat, place < Cardinality(list)
    PROVE  \E s \in list : Cardinality({t \in list : t < s}) = place
<1> DEFINE R == {pair \in list \X list : pair[1] < pair[2]}
<1>1. IsFiniteSet(list) /\ Cardinality(list) \in Nat
  BY PriceAssumption, FS_Subset, FS_CardinalityType
<1>2. \A s \in list : s \in Int
  BY PriceAssumption
<1>3. \A s, t \in list : <<s, t>> \in R <=> s < t
  OBVIOUS
<1>4. StrictOrder(list, R)
  BY <1>2, <1>3 DEF StrictOrder
<1>5. \A s \in list : Rank(list, R, s) = Cardinality({t \in list : t < s})
  <2> SUFFICES ASSUME NEW s \in list PROVE Rank(list, R, s) = Cardinality({t \in list : t < s})
    OBVIOUS
  <2>1. {t \in list : <<t, s>> \in R} = {t \in list : t < s}
    BY <1>3
  <2> QED BY <2>1 DEF Rank
<1> HIDE DEF R
<1>6. PICK s \in list : Rank(list, R, s) = (place + 1) - 1
  <2>1. place + 1 \in 1 .. Cardinality(list)
    BY <1>1
  <2> QED BY <1>1, <1>4, <2>1, RanksOrder
<1> QED BY <1>5, <1>6

(* What is filtered is a list of symbols (getFilteredSymbols).              *)
LEMMA FilteredIsList == ScreenTypes => Filtered \in SUBSET Symbols
BY DEF ScreenTypes, Filtered

LEMMA UnderCursorIsSymbol ==
    ASSUME ScreenTypes, CursorInv, Filtered # {}
    PROVE  UnderCursor \in Symbols
<1>1. Filtered \in SUBSET Symbols /\ cursor \in Nat /\ cursor < Cardinality(Filtered)
  BY FilteredIsList DEF CursorInv, ScreenTypes
<1>2. \E s \in Filtered : Cardinality({t \in Filtered : t < s}) = cursor
  BY <1>1, SomeIsUnderCursor
<1>3. UnderCursor \in Filtered
  BY <1>2 DEF UnderCursor
<1> QED  BY <1>1, <1>3

-----------------------------------------------------------------------------
(* The record of the discovery. *)

(* The end of a loop resets the flag and leaves the handle.                 *)
LEMMA EndedFields ==
    ASSUME NEW d \in Discovery, NEW e, d.ending > 0,
           e = [d EXCEPT !.ending = @ - 1, !.running = FALSE]
    PROVE  /\ e \in Discovery
           /\ e.sub = d.sub /\ e.running = FALSE /\ e.lost = d.lost /\ e.ending = d.ending - 1
<1>1. [d EXCEPT !.ending = @ - 1] \in Discovery
  BY DEF Discovery
<1>2. e = [[d EXCEPT !.ending = @ - 1] EXCEPT !.running = FALSE]
  BY Zenon
<1>3. e \in Discovery
  BY <1>1, <1>2 DEF Discovery
<1>4. e.sub = d.sub /\ e.lost = d.lost
  BY DEF Discovery
<1>5. e.ending = d.ending - 1
  BY DEF Discovery
<1>6. e.running = FALSE
  BY DEF Discovery
<1> QED  BY <1>3, <1>4, <1>5, <1>6

(* pauseDiscovery clears handle and flag and loses sight of nothing.        *)
LEMMA PausedFields ==
    ASSUME NEW d \in Discovery
    PROVE  /\ Paused(d) \in Discovery
           /\ Paused(d).sub = FALSE /\ Paused(d).running = FALSE
           /\ Paused(d).lost = d.lost
<1> DEFINE n == IF d.sub THEN d.ending + 1 ELSE d.ending
<1> DEFINE e == [d EXCEPT !.sub = FALSE, !.running = FALSE, !.ending = n]
<1>1. n \in Nat
  BY DEF Discovery
<1>2. Paused(d) = e
  BY DEF Paused
<1> HIDE DEF n
<1>3. [d EXCEPT !.sub = FALSE] \in Discovery
  BY DEF Discovery
<1>4. [[d EXCEPT !.sub = FALSE] EXCEPT !.running = FALSE] \in Discovery
  BY <1>3 DEF Discovery
<1>5. e \in Discovery
  <2>1. e = [[[d EXCEPT !.sub = FALSE] EXCEPT !.running = FALSE] EXCEPT !.ending = n]
    BY Zenon
  <2> QED  BY <1>1, <1>4, <2>1 DEF Discovery
<1>6. e.sub = FALSE /\ e.running = FALSE /\ e.lost = d.lost
  BY DEF Discovery
<1> QED  BY <1>2, <1>5, <1>6

(* resumeDiscovery.                                                         *)
LEMMA ResumedType ==
    ASSUME NEW d \in Discovery
    PROVE  Resumed(d) \in Discovery
<1> DEFINE n == IF d.sub THEN d.lost + 1 ELSE d.lost
<1> DEFINE e == [d EXCEPT !.sub = TRUE, !.running = TRUE, !.lost = n]
<1>1. n \in Nat
  BY DEF Discovery
<1>2. Resumed(d) = IF d.running THEN d ELSE e
  BY DEF Resumed
<1> HIDE DEF n
<1>3. [d EXCEPT !.sub = TRUE] \in Discovery
  BY DEF Discovery
<1>4. [[d EXCEPT !.sub = TRUE] EXCEPT !.running = TRUE] \in Discovery
  BY <1>3 DEF Discovery
<1>5. e \in Discovery
  <2>1. e = [[[d EXCEPT !.sub = TRUE] EXCEPT !.running = TRUE] EXCEPT !.lost = n]
    BY Zenon
  <2> QED  BY <1>1, <1>4, <2>1 DEF Discovery
<1> QED  BY <1>2, <1>5

-----------------------------------------------------------------------------
(* The invariant. *)

LEMMA ScreensInit == PriceInit => ScreensInv
<1> SUFFICES ASSUME PriceInit PROVE ScreensInv
  OBVIOUS
<1>1. ScreenTypes
  BY PriceAssumption DEF PriceInit, ScreenTypes, Discovery, None
<1>2. CursorInv
  BY DEF PriceInit, CursorInv, Filtered
<1> QED  BY <1>1, <1>2 DEF PriceInit, ScreensInv, DiscoveryInv, PricesInv, None

(* The steps that leave list, search and cursor alone.                      *)
LEMMA SameList ==
    ASSUME CursorInv, UNCHANGED <<found, search, cursor>>
    PROVE  CursorInv'
BY DEF CursorInv, Filtered

LEMMA ConnectStep ==
    ASSUME ScreensInv, Connect
    PROVE  ScreensInv'
<1>1. CursorInv'
  BY SameList DEF ScreensInv, Connect, screenVars
<1>2. ScreenTypes'
  BY DEF ScreensInv, ScreenTypes, DiscoveryInv, Connect, screenVars, Resumed, Discovery
<1>3. DiscoveryInv'
  BY DEF ScreensInv, ScreenTypes, DiscoveryInv, Connect, screenVars, Resumed, Discovery
<1>4. PricesInv'
  BY DEF ScreensInv, PricesInv, Connect, screenVars
<1> QED  BY <1>1, <1>2, <1>3, <1>4 DEF ScreensInv

(* The connection is lost or comes back: only nats changes.                 *)
LEMMA NatsStep ==
    ASSUME ScreensInv, LoseNats \/ RegainNats
    PROVE  ScreensInv'
<1>1. CursorInv'
  BY SameList DEF ScreensInv, LoseNats, RegainNats, screenVars
<1> QED  BY <1>1 DEF ScreensInv, ScreenTypes, DiscoveryInv, PricesInv, LoseNats, RegainNats,
                     screenVars, loopVars

LEMMA CloseStep ==
    ASSUME ScreensInv, CloseSubscriber
    PROVE  ScreensInv'
<1>1. CursorInv'
  BY SameList DEF ScreensInv, CloseSubscriber, screenVars
<1> discovery' \in Discovery /\ discovery'.sub = FALSE /\ discovery'.running = FALSE
    /\ discovery'.lost = discovery.lost
  BY PausedFields DEF ScreensInv, ScreenTypes, CloseSubscriber
<1>2. ScreenTypes'
  BY DEF ScreensInv, ScreenTypes, CloseSubscriber, screenVars
<1>3. DiscoveryInv'
  BY DEF ScreensInv, DiscoveryInv, CloseSubscriber, screenVars
<1>4. PricesInv'
  BY DEF ScreensInv, PricesInv, CloseSubscriber, screenVars
<1> QED  BY <1>1, <1>2, <1>3, <1>4 DEF ScreensInv

(* The end of a loop resets the flag: never on a dashboard with discovery   *)
(* on, for no loop has ended there.                                         *)
LEMMA DiscoveryEndsStep ==
    ASSUME ScreensInv, DiscoveryEnds
    PROVE  ScreensInv'
<1>1. CursorInv'
  BY SameList DEF ScreensInv, DiscoveryEnds, screenVars
<1> /\ discovery.ending > 0
    /\ discovery' \in Discovery /\ discovery'.sub = discovery.sub
    /\ discovery'.running = FALSE
    /\ discovery'.lost = discovery.lost /\ discovery'.ending = discovery.ending - 1
  BY EndedFields DEF ScreensInv, ScreenTypes, DiscoveryEnds
<1>2. ScreenTypes'
  BY DEF ScreensInv, ScreenTypes, DiscoveryEnds, screenVars
<1>3. DiscoveryInv'
  <2>1. view = "DASHBOARD" => discovery.sub = FALSE /\ discovery.running = FALSE
    BY DEF ScreensInv, ScreenTypes, Discovery, DiscoveryInv
  <2>2. nats # "connecting" /\ UNCHANGED <<nats, view>>
    BY DEF ScreensInv, DiscoveryInv, DiscoveryEnds, screenVars
  <2>3. discovery.lost = 0 /\ (view = "SYMBOL_SELECT" /\ nats \in {"up", "down"} => discovery.sub)
    BY DEF ScreensInv, DiscoveryInv
  <2> QED  BY <2>1, <2>2, <2>3 DEF DiscoveryInv
<1>4. PricesInv'
  BY DEF ScreensInv, PricesInv, DiscoveryEnds, screenVars
<1> QED  BY <1>1, <1>2, <1>3, <1>4 DEF ScreensInv

LEMMA DiscoverStep ==
    ASSUME ScreensInv, NEW s \in Symbols, Discover(s)
    PROVE  ScreensInv'
<1>1. found' \in SUBSET Symbols /\ found' \intersect search \in SUBSET Symbols /\ cursor \in Nat
  BY DEF ScreensInv, ScreenTypes, Discover
<1>2. cursor' \in Nat /\ CursorInv'
  BY <1>1, InRangeIsPlace DEF Discover, CursorInv, Filtered
<1> QED  BY <1>1, <1>2 DEF ScreensInv, ScreenTypes, DiscoveryInv, PricesInv, Discover, loopVars

LEMMA SearchStep ==
    ASSUME ScreensInv, NEW q \in Searches, Search(q)
    PROVE  ScreensInv'
<1>1. ScreenTypes'
  BY DEF ScreensInv, ScreenTypes, Search, loopVars
<1>2. CursorInv'
  <2> SUFFICES ASSUME Filtered' # {} PROVE cursor' < Cardinality(Filtered')
    BY DEF CursorInv
  <2>1. Filtered' \in SUBSET Symbols
    BY <1>1 DEF ScreenTypes, Filtered
  <2> QED  BY <2>1, ListSize DEF Search
<1> QED  BY <1>1, <1>2 DEF ScreensInv, DiscoveryInv, PricesInv, Search, loopVars

LEMMA MoveStep ==
    ASSUME ScreensInv, NEW delta \in {-1, 1}, MoveCursor(delta)
    PROVE  ScreensInv'
<1>1. Filtered' = Filtered /\ Filtered \in SUBSET Symbols /\ Filtered # {} /\ cursor \in Nat
  BY FilteredIsList DEF ScreensInv, ScreenTypes, MoveCursor, Filtered
<1>2. Cardinality(Filtered) \in Nat \ {0}
  BY <1>1, ListSize
<1>3. cursor' \in Nat /\ cursor' < Cardinality(Filtered)
  BY <1>1, <1>2, WrapIsPlace DEF MoveCursor
<1>4. CursorInv'
  BY <1>1, <1>3 DEF CursorInv
<1> QED  BY <1>3, <1>4 DEF ScreensInv, ScreenTypes, DiscoveryInv, PricesInv, MoveCursor, loopVars

(* The dashboard opens: discovery is paused, whatever the flag says.        *)
LEMMA SelectStep ==
    ASSUME ScreensInv, Select
    PROVE  ScreensInv'
<1>1. UnderCursor \in Symbols
  BY UnderCursorIsSymbol DEF ScreensInv, Select
<1>2. CursorInv'
  BY SameList DEF ScreensInv, Select
<1>3. ScreenTypes'
  <2>1. discovery' \in Discovery
    BY PausedFields DEF ScreensInv, ScreenTypes, Select
  <2>2. late' \in SUBSET Symbols
    BY DEF ScreensInv, ScreenTypes, Select, Outliving
  <2> QED  BY <1>1, <2>1, <2>2 DEF ScreensInv, ScreenTypes, Select
<1>4. DiscoveryInv'
  <2>1. discovery'.lost = 0 /\ discovery'.sub = FALSE /\ discovery'.running = FALSE
    BY PausedFields DEF ScreensInv, ScreenTypes, DiscoveryInv, Select
  <2>2. view' = "DASHBOARD"
    BY DEF Select
  <2>3. nats' = "connecting" => discovery'.ending = 0
    BY DEF ScreensInv, ScreenTypes, DiscoveryInv, Select, Paused, Discovery
  <2> QED  BY <2>1, <2>2, <2>3 DEF DiscoveryInv
<1>5. PricesInv'
  BY DEF ScreensInv, ScreenTypes, PricesInv, Select
<1> QED  BY <1>2, <1>3, <1>4, <1>5 DEF ScreensInv

(* The list opens: discovery is resumed, on a flag that is right here.      *)
LEMMA GoBackStep ==
    ASSUME ScreensInv, GoBack
    PROVE  ScreensInv'
<1>1. found \in SUBSET Symbols /\ cursor \in Nat /\ found \intersect Symbols = found
  BY DEF ScreensInv, ScreenTypes
<1>2. cursor' \in Nat /\ CursorInv'
  BY <1>1, InRangeIsPlace DEF GoBack, CursorInv, Filtered
<1>3. ScreenTypes'
  <2>1. discovery' \in Discovery
    BY ResumedType DEF ScreensInv, ScreenTypes, GoBack
  <2>2. search' \in Searches /\ snapshot' \in Symbols \union {None}
    BY PriceAssumption DEF GoBack
  <2> QED  BY <1>2, <2>1, <2>2 DEF ScreensInv, ScreenTypes, GoBack
<1>4. DiscoveryInv'
  BY DEF ScreensInv, ScreenTypes, DiscoveryInv, GoBack, Resumed, Discovery
<1>5. PricesInv'
  BY DEF ScreensInv, PricesInv, GoBack
<1> QED  BY <1>2, <1>3, <1>4, <1>5 DEF ScreensInv

(* The price loops touch the snapshot and their own state.                  *)
LEMMA PriceStep ==
    ASSUME ScreensInv,
           PriceArrives \/ PriceHeldBack \/ PriceGoesOn \/ \E s \in Symbols : LatePrice(s)
    PROVE  ScreensInv'
<1>1. UNCHANGED <<nats, found, search, cursor, view, chosen, discovery, active, prices,
                  positions, asked>>
  BY DEF PriceArrives, PriceHeldBack, PriceGoesOn, LatePrice, screenVars, loopVars
<1>2. late' \in SUBSET Symbols /\ snapshot' \in Symbols \union {None}
  BY DEF ScreensInv, ScreenTypes, PriceArrives, PriceHeldBack, PriceGoesOn, LatePrice, loopVars
<1>3. CursorInv'
  BY <1>1, SameList DEF ScreensInv
<1> QED  BY <1>1, <1>2, <1>3 DEF ScreensInv, ScreenTypes, DiscoveryInv, PricesInv

(* Positions are applied on the dashboard of their symbol only.             *)
LEMMA PositionsStep ==
    ASSUME ScreensInv,
           AskPositions \/ \E s \in Symbols : PositionsAnswered(s) \/ PositionsFail(s)
    PROVE  ScreensInv'
<1>1. UNCHANGED <<nats, found, search, cursor, view, chosen, discovery, active, prices, late,
                  snapshot>>
  BY DEF AskPositions, PositionsAnswered, PositionsFail, screenVars, loopVars
<1>2. CursorInv'
  BY <1>1, SameList DEF ScreensInv
<1>3. ScreenTypes'
  BY <1>1 DEF ScreensInv, ScreenTypes, AskPositions, PositionsAnswered, PositionsFail
<1>4. positions' = IF view = "DASHBOARD" /\ positions' # None THEN chosen ELSE None
  BY DEF ScreensInv, PricesInv, AskPositions, PositionsAnswered, PositionsFail, Applies
<1>5. PricesInv'
  BY <1>1, <1>4 DEF ScreensInv, PricesInv
<1> QED  BY <1>1, <1>2, <1>3, <1>5 DEF ScreensInv, DiscoveryInv

(* The conjunction holds in every reachable state.                          *)
THEOREM ScreensInvariant == PriceSpec => []ScreensInv
<1>1. ScreensInv /\ [PriceNext]_priceVars => ScreensInv'
  <2> SUFFICES ASSUME ScreensInv, [PriceNext]_priceVars PROVE ScreensInv'
    OBVIOUS
  <2>1. CASE Connect
    BY <2>1, ConnectStep
  <2>2. CASE LoseNats \/ RegainNats
    BY <2>2, NatsStep
  <2>3. CASE CloseSubscriber
    BY <2>3, CloseStep
  <2>4. CASE DiscoveryEnds
    BY <2>4, DiscoveryEndsStep
  <2>5. CASE Select
    BY <2>5, SelectStep
  <2>6. CASE GoBack
    BY <2>6, GoBackStep
  <2>7. CASE PriceArrives \/ PriceHeldBack \/ PriceGoesOn \/ \E s \in Symbols : LatePrice(s)
    BY <2>7, PriceStep
  <2>8. CASE AskPositions \/ \E s \in Symbols : PositionsAnswered(s) \/ PositionsFail(s)
    BY <2>8, PositionsStep
  <2>9. CASE \E q \in Searches : Search(q)
    BY <2>9, SearchStep
  <2>10. CASE \E delta \in {-1, 1} : MoveCursor(delta)
    BY <2>10, MoveStep
  <2>11. CASE \E s \in Symbols : Discover(s)
    BY <2>11, DiscoverStep
  <2>12. CASE UNCHANGED priceVars
    <3>1. CursorInv'
      BY <2>12, SameList DEF ScreensInv, priceVars, screenVars
    <3> QED  BY <2>12, <3>1 DEF ScreensInv, ScreenTypes, DiscoveryInv, PricesInv, priceVars,
                                screenVars, loopVars
  <2> QED  BY <2>1, <2>2, <2>3, <2>4, <2>5, <2>6, <2>7, <2>8, <2>9, <2>10, <2>11, <2>12
           DEF PriceNext
<1> QED  BY <1>1, ScreensInit, PTL DEF PriceSpec

(* What the subscriptions, the cursor, the prices and the positions owe to  *)
(* the screens holds for every set of symbols, every set of searches and any*)
(* number of discovery loops that outlive their subscription; in particular *)
(* no subscription is ever overwritten by resumeDiscovery.                  *)
THEOREM ScreensAreServedTheorem == PriceSpec => []ScreensAreServed
<1>1. ScreensInv => ScreensAreServed
  BY DEF ScreensInv, ScreenTypes, DiscoveryInv, CursorInv, PricesInv, ScreensAreServed
<1> QED  BY <1>1, ScreensInvariant, PTL

-----------------------------------------------------------------------------
(* The types of the order session, and what its calls know of the legs.     *)

Ids == 0 .. MaxOrders
OrderType == [open : BOOLEAN, exec : 0 .. Qty]
OneShot == [act : {"idle", "execute"}, left : 0 .. 4]

ExecCalls == [kind : {"exec"}, stage : {"price", "place", "dead"}, at : [Ex -> {-1} \union Ids]]
PollCalls == [kind : {"poll"}, asked : [Ex -> Ids], seen : [Ex -> Statuses \union {"none"}]]
ProtectCalls == [kind : {"protect"}, ex : Ex, id : OrderIds, stage : {"cancel", "place"},
                 market : BOOLEAN, mine : BOOLEAN]
CancelCalls == [kind : {"cancel"}, why : {"key", "amend", "timeout", "quit"}, wait : [Ex -> Ids],
                mine : SUBSET Ex]
RecoverCalls == [kind : {"recover"}, seen : [Ex -> SUBSET OrderIds]]
Calls == {NoTask} \union ExecCalls \union PollCalls \union ProtectCalls \union CancelCalls
         \union RecoverCalls

(* What call r relies on of the legs.                                       *)
CallFits(r, lg) ==
    /\ r.kind = "poll" => \A ex \in Ex : r.asked[ex] = 0 <=> r.seen[ex] = "none"
    /\ r.kind = "cancel" => \A ex \in r.mine : r.wait[ex] # 0 => lg[ex].id # 0

OneAtATime(tk) == \A t, u \in Tasks : tk[t].kind # "none" /\ tk[u].kind # "none" => t = u

(* The protections under way that may yet count an amend of a leg, and room *)
(* for each of them.                                                        *)
Protects(r, ex) == r.kind = "protect" /\ r.ex = ex /\ r.mine /\ ~ r.market
Protecting(tk, ex) == {t \in Tasks : Protects(tk[t], ex)}
AmendsFit(tk, lg) ==
    \A ex \in Ex : lg[ex].amends \in 0 .. MaxAmend + AtATime - 1 - Cardinality(Protecting(tk, ex))

ScalarsOK ==
    /\ phase \in Phases /\ params \in BOOLEAN
    /\ polling \in [own : BOOLEAN, leaked : BOOLEAN] /\ timeout \in [own : BOOLEAN, leaked : Nat]
    /\ feed \in {"none", "stale", "usable"} /\ screen \in {"DASHBOARD", "SYMBOL_SELECT"}
    /\ process \in {"running", "closing", "exited"}
LegsOK(lg) == lg \in [Ex -> LegsType] /\ \A ex \in Ex : lg[ex].id = 0 <=> lg[ex].status = "none"
OrdersOK(os) ==
    /\ os \in [Ex -> [OrderIds -> OrderType]]
    /\ \A ex \in Ex, id \in OrderIds : os[ex][id].open => os[ex][id].exec < Qty
TasksOK(tk, lg) ==
    /\ tk \in [Tasks -> Calls] /\ (Prompt => OneAtATime(tk)) /\ AmendsFit(tk, lg)
    /\ \A t \in Tasks : CallFits(tk[t], lg)

TypesInv ==
    /\ ScalarsOK /\ timers \in Seq(OneShot)
    /\ LegsOK(leg) /\ OrdersOK(orders) /\ TasksOK(task, leg)

LEMMA Comparisons ==
    ASSUME NEW m \in Int, NEW n \in Int
    PROVE  (m >= n) \in BOOLEAN /\ (m < n) \in BOOLEAN
OBVIOUS

LEMMA BasisConstants ==
    /\ MaxOrders \in Nat \ {0} /\ Qty \in Nat \ {0} /\ MaxAmend \in Nat /\ MaxTimers \in Nat
    /\ Feeds \subseteq {"stale", "usable"}
<1>1. MaxOrders \in Nat \ {0} /\ Qty \in Nat \ {0}
  BY BasisAssumption, Zenon
<1>2. MaxAmend \in Nat /\ MaxTimers \in Nat /\ Feeds \subseteq {"stale", "usable"}
  BY BasisAssumption, Zenon
<1> QED BY <1>1, <1>2

LEMMA CallsAtATime == AtATime \in Nat \ {0} /\ (Prompt => AtATime = 1)
<1>1. IsFiniteSet(Tasks) /\ Tasks # {}
  BY BasisAssumption, Zenon
<1>2. Cardinality(Tasks) \in Nat /\ Cardinality(Tasks) # 0
  BY <1>1, FS_CardinalityType, FS_EmptySet
<1> QED BY <1>2 DEF AtATime

LEMMA NotAmended == 0 \in 0 .. MaxAmend + AtATime - 1
BY CallsAtATime, BasisConstants

(* No more protections than calls.                                          *)
LEMMA Protections ==
    ASSUME NEW tk, Prompt => OneAtATime(tk), NEW ex
    PROVE  /\ IsFiniteSet(Protecting(tk, ex))
           /\ Cardinality(Protecting(tk, ex)) \in 0 .. AtATime
<1>1. IsFiniteSet(Tasks)
  BY BasisAssumption, Zenon
<1>2. Protecting(tk, ex) \in SUBSET Tasks
  BY DEF Protecting
<1>3. /\ IsFiniteSet(Protecting(tk, ex)) /\ Cardinality(Protecting(tk, ex)) \in Nat
      /\ Cardinality(Tasks) \in Nat /\ Cardinality(Protecting(tk, ex)) <= Cardinality(Tasks)
  BY <1>1, <1>2, FS_Subset, FS_CardinalityType
<1>4. CASE Prompt
  <2>1. \A t, u \in Protecting(tk, ex) : t = u
    BY <1>4 DEF Protecting, Protects, OneAtATime
  <2>2. Protecting(tk, ex) = {} \/ \E t : Protecting(tk, ex) = {t}
    BY <2>1
  <2>3. Cardinality(Protecting(tk, ex)) \in {0, 1}
    BY <2>2, FS_EmptySet, FS_Singleton
  <2> QED BY <1>3, <1>4, <2>3, CallsAtATime
<1>5. CASE ~ Prompt
  BY <1>3, <1>5 DEF AtATime
<1> QED BY <1>3, <1>4, <1>5

(* Fewer protections leave as much room for the amends.                     *)
LEMMA FewerProtections ==
    ASSUME NEW tk, NEW th, Prompt => OneAtATime(tk), NEW ex,
           Protecting(th, ex) \subseteq Protecting(tk, ex),
           NEW n \in 0 .. MaxAmend + AtATime - 1 - Cardinality(Protecting(tk, ex))
    PROVE  n \in 0 .. MaxAmend + AtATime - 1 - Cardinality(Protecting(th, ex))
<1>1. IsFiniteSet(Protecting(tk, ex)) /\ Cardinality(Protecting(tk, ex)) \in 0 .. AtATime
  BY Protections
<1>2. /\ Cardinality(Protecting(th, ex)) \in Nat
      /\ Cardinality(Protecting(th, ex)) <= Cardinality(Protecting(tk, ex))
  BY <1>1, FS_Subset, FS_CardinalityType
<1>3. PICK a \in Int : a = MaxAmend + AtATime - 1
  BY CallsAtATime, BasisConstants
<1>4. PICK k \in Int, l \in Int :
        k = Cardinality(Protecting(tk, ex)) /\ l = Cardinality(Protecting(th, ex)) /\ l <= k
  BY <1>1, <1>2
<1>5. /\ MaxAmend + AtATime - 1 - Cardinality(Protecting(tk, ex)) = a - k
      /\ MaxAmend + AtATime - 1 - Cardinality(Protecting(th, ex)) = a - l
  BY <1>3, <1>4, CallsAtATime, BasisConstants
<1>6. n \in 0 .. a - k
  BY <1>5
<1>7. n \in 0 .. a - l
  BY <1>4, <1>6
<1> QED BY <1>5, <1>7

LEMMA OtherExchange ==
    ASSUME NEW ex \in Ex
    PROVE  Other(ex) \in Ex
<1>1. IsFiniteSet(Ex) /\ Cardinality(Ex) = 2
  BY BasisAssumption, Zenon
<1>2. Ex # {ex}
  <2>1. Cardinality({ex}) = 1
    BY FS_Singleton
  <2> QED BY <1>1, <2>1
<1>3. \E e \in Ex : e # ex
  BY <1>2
<1> QED BY <1>3 DEF Other

(* A call of a kind has what belongs to it.                                 *)
LEMMA CallKinds ==
    ASSUME NEW r \in Calls
    PROVE  /\ r.kind \in {"none", "exec", "poll", "protect", "cancel", "recover"}
           /\ r.kind = "none" => r = NoTask
           /\ r.kind = "exec" => r \in ExecCalls
           /\ r.kind = "poll" => r \in PollCalls
           /\ r.kind = "protect" => r \in ProtectCalls
           /\ r.kind = "cancel" => r \in CancelCalls
           /\ r.kind = "recover" => r \in RecoverCalls
BY DEF Calls, NoTask, ExecCalls, PollCalls, ProtectCalls, CancelCalls, RecoverCalls

LEMMA KindsOfCalls ==
    /\ NoTask \in Calls /\ NoTask.kind = "none"
    /\ \A r \in ExecCalls : r \in Calls /\ r.kind = "exec"
    /\ \A r \in PollCalls : r \in Calls /\ r.kind = "poll"
    /\ \A r \in ProtectCalls : r \in Calls /\ r.kind = "protect"
    /\ \A r \in CancelCalls : r \in Calls /\ r.kind = "cancel"
    /\ \A r \in RecoverCalls : r \in Calls /\ r.kind = "recover"
BY DEF Calls, NoTask, ExecCalls, PollCalls, ProtectCalls, CancelCalls, RecoverCalls

(* A new order gets an id that is free.                                     *)
LEMMA FreshOrder ==
    ASSUME NEW ex \in Ex, FreeIds(ex) # {}
    PROVE  /\ FreshId(ex) \in OrderIds /\ FreshId(ex) # leg[ex].id
           /\ ~ orders[ex][FreshId(ex)].open
           /\ \A t \in Tasks : task[t].kind = "poll" => FreshId(ex) # task[t].asked[ex]
<1>1. FreeIds(ex) \in SUBSET Nat
  BY BasisConstants DEF FreeIds, OrderIds
<1>2. \E m \in FreeIds(ex) : \A k \in FreeIds(ex) : m <= k
  BY <1>1, LeastNumber
<1>3. FreshId(ex) \in FreeIds(ex)
  BY <1>2 DEF FreshId
<1>4. \A t \in Tasks : task[t].kind = "poll" => HeldBy(task[t], ex) = {task[t].asked[ex]}
  BY DEF HeldBy
<1> QED BY <1>3, <1>4 DEF FreeIds, OpenIds, Held

LEMMA StatusFacts ==
    ASSUME NEW o \in OrderType
    PROVE  /\ StatusOf(o) \in Statuses
           /\ StatusOf(o) = "filled" <=> o.exec = Qty
           /\ StatusOf(o) = "canceled" => ~ o.open
BY BasisConstants DEF OrderType, StatusOf, Statuses

(* What may happen to the orders of the exchanges.                          *)
LEMMA OrderSet ==
    ASSUME OrdersOK(orders), NEW ex \in Ex, NEW id \in OrderIds, NEW o \in OrderType,
           o.open => o.exec < Qty
    PROVE  /\ OrdersOK(WithOrder(ex, id, o))
           /\ \A e \in Ex, i \in OrderIds :
                 WithOrder(ex, id, o)[e][i] = IF e = ex /\ i = id THEN o ELSE orders[e][i]
BY DEF OrdersOK, WithOrder

LEMMA NewOrders ==
    /\ Working \in OrderType /\ Working.open /\ Working.exec < Qty /\ Working.exec # Qty
    /\ Executed \in OrderType /\ ~ Executed.open /\ Executed.exec = Qty
BY BasisConstants DEF Working, Executed, OrderType

LEMMA OrderCancelled ==
    ASSUME OrdersOK(orders), NEW ex \in Ex, NEW id \in OrderIds, NEW out, out.effect \in BOOLEAN
    PROVE  /\ OrdersOK(AfterCancel(ex, id, out))
           /\ \A e \in Ex, i \in OrderIds :
                 /\ AfterCancel(ex, id, out)[e][i].exec = orders[e][i].exec
                 /\ AfterCancel(ex, id, out)[e][i].open =>
                       orders[e][i].open /\ (out.effect => ~ (e = ex /\ i = id))
<1>1. CASE out.effect
  <2>1. PICK o : o = [orders[ex][id] EXCEPT !.open = FALSE]
    OBVIOUS
  <2>2. orders[ex][id] \in OrderType
    BY DEF OrdersOK
  <2>3. o \in OrderType /\ o.open = FALSE /\ o.exec = orders[ex][id].exec
    BY <2>1, <2>2 DEF OrderType
  <2>4. AfterCancel(ex, id, out) = WithOrder(ex, id, o)
    BY <1>1, <2>1, Zenon DEF AfterCancel, WithOrder
  <2> QED BY <2>3, <2>4, OrderSet
<1>2. CASE ~ out.effect
  BY <1>2 DEF AfterCancel
<1> QED BY <1>1, <1>2

LEMMA OrderFilled ==
    ASSUME OrdersOK(orders), NEW ex \in Ex, NEW id \in OrderIds, Fill(ex, id)
    PROVE  /\ OrdersOK(orders')
           /\ \A e \in Ex, i \in OrderIds :
                 /\ orders[e][i].exec = Qty => orders'[e][i] = orders[e][i]
                 /\ orders'[e][i].open => orders[e][i].open
<1>1. PICK n : n = orders[ex][id].exec + 1
  OBVIOUS
<1>2. orders[ex][id] \in OrderType /\ orders[ex][id].open /\ orders[ex][id].exec < Qty
  BY DEF Fill, OrdersOK
<1>3. n \in 0 .. Qty
  BY <1>1, <1>2, BasisConstants DEF OrderType
<1>4. PICK o : o = [open |-> n < Qty, exec |-> n]
  OBVIOUS
<1>5. o \in OrderType /\ (o.open => o.exec < Qty)
  <2>1. PICK b : b = (n < Qty)
    OBVIOUS
  <2>2. Qty \in Int /\ n \in Int
    BY <1>3, BasisConstants
  <2>3. b \in BOOLEAN /\ (b => n < Qty)
    BY <2>1, <2>2, Comparisons, Zenon
  <2>4. o = [open |-> b, exec |-> n]
    BY <1>4, <2>1
  <2> QED BY <1>3, <2>3, <2>4 DEF OrderType
<1>6. orders' = WithOrder(ex, id, o)
  BY <1>1, <1>4 DEF Fill
<1>7. \A e \in Ex, i \in OrderIds : orders'[e][i] = IF e = ex /\ i = id THEN o ELSE orders[e][i]
  BY <1>5, <1>6, OrderSet
<1>8. orders[ex][id].exec # Qty
  BY <1>2, BasisConstants DEF OrderType
<1> QED BY <1>2, <1>5, <1>6, <1>7, <1>8, OrderSet

(* The outcomes of a cancel say whether it takes effect.                    *)
LEMMA OutcomeFacts ==
    ASSUME NEW ex, NEW id, NEW out \in CancelOutcomes(ex, id)
    PROVE  /\ out.effect \in BOOLEAN /\ out.thrown \in BOOLEAN
           /\ Faults = {} => out.effect /\ ~ out.thrown
<1>1. out = [effect |-> TRUE, thrown |-> FALSE] \/ out = [effect |-> FALSE, thrown |-> FALSE]
      \/ out = [effect |-> FALSE, thrown |-> TRUE] \/ out = [effect |-> TRUE, thrown |-> TRUE]
  BY DEF CancelOutcomes
<1>2. Faults = {} => out = [effect |-> TRUE, thrown |-> FALSE]
  BY DEF CancelOutcomes
<1>3. out.effect \in BOOLEAN /\ out.thrown \in BOOLEAN
  <2> DEFINE Outcome == [effect : BOOLEAN, thrown : BOOLEAN]
  <2>1. /\ [effect |-> TRUE, thrown |-> FALSE] \in Outcome /\ [effect |-> FALSE, thrown |-> FALSE] \in Outcome
        /\ [effect |-> FALSE, thrown |-> TRUE] \in Outcome /\ [effect |-> TRUE, thrown |-> TRUE] \in Outcome
    OBVIOUS
  <2>2. out \in Outcome
    <3> HIDE DEF Outcome
    <3> QED BY <1>1, <2>1
  <2> QED BY <2>2
<1>4. Faults = {} => out.effect /\ ~ out.thrown
  BY <1>2
<1> QED BY <1>3, <1>4

-----------------------------------------------------------------------------
(* The calls in flight. *)

LEMMA BeginFits ==
    ASSUME Prompt => Settled, HasSlot, NEW lg, TasksOK(task, lg),
           NEW r \in Calls, CallFits(r, lg), r.kind # "protect"
    PROVE  TasksOK(Begin(r), lg)
<1>1. Slot \in Tasks /\ task[Slot].kind = "none"
  BY DEF HasSlot, Slot, Idle
<1>2. Begin(r) = [task EXCEPT ![Slot] = r]
  BY DEF Begin
<1>3. PICK s \in Tasks : s = Slot
  BY <1>1
<1>4. PICK tk : tk = Begin(r)
  OBVIOUS
<1>5. tk \in [Tasks -> Calls] /\ \A t \in Tasks : tk[t] = IF t = s THEN r ELSE task[t]
  BY <1>2, <1>3, <1>4 DEF TasksOK
<1>6. Prompt => OneAtATime(tk)
  BY <1>5 DEF Settled, Idle, OneAtATime
<1>7. \A t \in Tasks : CallFits(tk[t], lg)
  BY <1>5 DEF TasksOK
<1>8. AmendsFit(tk, lg)
  <2>1. \A ex : Protecting(tk, ex) \subseteq Protecting(task, ex)
    BY <1>5 DEF Protecting, Protects
  <2> QED BY <2>1, FewerProtections DEF AmendsFit, TasksOK
<1> QED BY <1>4, <1>5, <1>6, <1>7, <1>8 DEF TasksOK

(* A call goes on or ends.                                                  *)
LEMMA CallReplaced ==
    ASSUME NEW lg, TasksOK(task, lg), NEW t \in Tasks, task[t].kind # "none",
           NEW r \in Calls, CallFits(r, lg), \A ex : Protects(r, ex) => Protects(task[t], ex)
    PROVE  TasksOK([task EXCEPT ![t] = r], lg)
<1>1. PICK tk : tk = [task EXCEPT ![t] = r]
  OBVIOUS
<1>2. tk \in [Tasks -> Calls] /\ \A u \in Tasks : tk[u] = IF u = t THEN r ELSE task[u]
  BY <1>1 DEF TasksOK
<1>3. Prompt => OneAtATime(tk)
  BY <1>2 DEF TasksOK, OneAtATime
<1>4. \A u \in Tasks : CallFits(tk[u], lg)
  BY <1>2 DEF TasksOK
<1>5. AmendsFit(tk, lg)
  <2>1. \A ex : Protecting(tk, ex) \subseteq Protecting(task, ex)
    BY <1>2 DEF Protecting
  <2> QED BY <2>1, FewerProtections DEF AmendsFit, TasksOK
<1> QED BY <1>1, <1>2, <1>3, <1>4, <1>5 DEF TasksOK

LEMMA NoTaskFits == \A lg : CallFits(NoTask, lg)
BY DEF CallFits, NoTask

LEMMA CallEnds ==
    ASSUME NEW lg, TasksOK(task, lg), NEW t \in Tasks
    PROVE  TasksOK(End(t), lg)
<1>1. PICK tk : tk = [task EXCEPT ![t] = NoTask]
  OBVIOUS
<1>2. tk \in [Tasks -> Calls] /\ \A u \in Tasks : tk[u] = IF u = t THEN NoTask ELSE task[u]
  BY <1>1, KindsOfCalls DEF TasksOK
<1>3. Prompt => OneAtATime(tk)
  BY <1>2, KindsOfCalls DEF TasksOK, OneAtATime
<1>4. \A u \in Tasks : CallFits(tk[u], lg)
  BY <1>2, NoTaskFits DEF TasksOK
<1>5. AmendsFit(tk, lg)
  <2>1. \A ex : Protecting(tk, ex) \subseteq Protecting(task, ex)
    BY <1>2, KindsOfCalls DEF Protecting, Protects
  <2> QED BY <2>1, FewerProtections DEF AmendsFit, TasksOK
<1> QED BY <1>1, <1>2, <1>3, <1>4, <1>5 DEF TasksOK, End

(* Legs that change are those no call is for.                               *)
LEMMA LegsReplaced ==
    ASSUME NEW lg, NEW lh, LegsOK(lh), NEW tk, TasksOK(tk, lg), NEW exs,
           \A ex \in Ex : ex \notin exs => lh[ex] = lg[ex]
    PROVE  TasksOK(Detach(tk, exs), lh)
<1>1. PICK out : out = Detach(tk, exs)
  OBVIOUS
<1>2. \A t \in Tasks : out[t] = CASE tk[t].kind = "protect" /\ tk[t].ex \in exs -> [tk[t] EXCEPT !.mine = FALSE]
                                [] tk[t].kind = "cancel" -> [tk[t] EXCEPT !.mine = @ \ exs]
                                [] OTHER -> tk[t]
  BY <1>1 DEF Detach
<1>3. ASSUME NEW t \in Tasks
      PROVE  /\ out[t] \in Calls /\ out[t].kind = tk[t].kind /\ CallFits(out[t], lh)
             /\ \A ex : Protects(out[t], ex) => ex \notin exs /\ Protects(tk[t], ex)
  <2>1. tk[t] \in Calls /\ CallFits(tk[t], lg)
    BY DEF TasksOK
  <2>2. CASE tk[t].kind = "protect" /\ tk[t].ex \in exs
    <3>1. out[t] = [tk[t] EXCEPT !.mine = FALSE]
      BY <1>2, <2>2
    <3>2. tk[t] \in ProtectCalls
      BY <2>1, <2>2, CallKinds
    <3>3. out[t] \in ProtectCalls /\ ~ out[t].mine
      BY <3>1, <3>2 DEF ProtectCalls
    <3> QED BY <2>2, <3>3, KindsOfCalls DEF CallFits, Protects
  <2>3. CASE tk[t].kind = "cancel"
    <3>1. out[t] = [tk[t] EXCEPT !.mine = @ \ exs]
      BY <1>2, <2>3
    <3>2. tk[t] \in CancelCalls
      BY <2>1, <2>3, CallKinds
    <3>3. out[t] \in CancelCalls /\ out[t].mine = tk[t].mine \ exs /\ out[t].wait = tk[t].wait
      BY <3>1, <3>2 DEF CancelCalls
    <3>4. \A ex \in tk[t].mine : ex \in Ex
      BY <3>2 DEF CancelCalls
    <3> QED BY <2>1, <2>3, <3>3, <3>4, KindsOfCalls DEF CallFits, Protects
  <2>4. CASE ~ (tk[t].kind = "protect" /\ tk[t].ex \in exs) /\ tk[t].kind # "cancel"
    <3>1. out[t] = tk[t]
      BY <1>2, <2>4
    <3>2. CallFits(tk[t], lh)
      BY <2>1, <2>4 DEF CallFits
    <3> QED BY <2>1, <2>4, <3>1, <3>2 DEF Protects
  <2> QED BY <2>2, <2>3, <2>4
<1>4. out \in [Tasks -> Calls]
  <2>1. out = [t \in Tasks |-> out[t]]
    BY <1>1 DEF Detach
  <2> QED BY <1>3, <2>1
<1>5. Prompt => OneAtATime(out)
  BY <1>3 DEF TasksOK, OneAtATime
<1>6. AmendsFit(out, lh)
  <2> SUFFICES ASSUME NEW ex \in Ex
               PROVE  lh[ex].amends \in 0 .. MaxAmend + AtATime - 1 - Cardinality(Protecting(out, ex))
    BY DEF AmendsFit
  <2>1. CASE ex \in exs
    <3>1. Protecting(out, ex) = {}
      BY <1>3, <2>1 DEF Protecting
    <3>2. Cardinality(Protecting(out, ex)) = 0
      BY <3>1, FS_EmptySet
    <3>3. lh[ex].amends \in 0 .. MaxAmend + AtATime - 1
      BY DEF LegsOK, LegsType
    <3> QED BY <3>2, <3>3, CallsAtATime, BasisConstants
  <2>2. CASE ex \notin exs
    <3>1. Protecting(out, ex) \subseteq Protecting(tk, ex)
      BY <1>3 DEF Protecting
    <3>2. lh[ex] = lg[ex]
      BY <2>2
    <3> QED BY <3>1, <3>2, FewerProtections DEF AmendsFit, TasksOK
  <2> QED BY <2>1, <2>2
<1> QED BY <1>1, <1>3, <1>4, <1>5, <1>6 DEF TasksOK

(* What no call minds of the legs: a status or the grace period.            *)
LEMMA LegsTouched ==
    ASSUME NEW lg, NEW lh, NEW tk, TasksOK(tk, lg),
           \A ex \in Ex : lh[ex].amends = lg[ex].amends /\ (lg[ex].id # 0 => lh[ex].id # 0)
    PROVE  TasksOK(tk, lh)
<1> SUFFICES ASSUME NEW t \in Tasks PROVE CallFits(tk[t], lh)
  BY DEF TasksOK, AmendsFit
<1>1. tk[t] \in Calls /\ CallFits(tk[t], lg)
  BY DEF TasksOK
<1>2. CASE tk[t].kind = "cancel"
  <2>1. \A ex \in tk[t].mine : ex \in Ex
    BY <1>1, <1>2, CallKinds DEF CancelCalls
  <2> QED BY <1>1, <1>2, <2>1 DEF CallFits
<1>3. CASE tk[t].kind # "cancel"
  BY <1>1, <1>3 DEF CallFits
<1> QED BY <1>2, <1>3

-----------------------------------------------------------------------------
(* Every step keeps the types. *)

LEMMA TypesNext ==
    ASSUME ScalarsOK', timers' \in Seq(OneShot), LegsOK(leg'), OrdersOK(orders'),
           TasksOK(task', leg')
    PROVE  TypesInv'
BY DEF TypesInv

LEMMA Handles ==
    ASSUME ScalarsOK
    PROVE  /\ StoppedPolling \in [own : BOOLEAN, leaked : BOOLEAN]
           /\ StartedPolling(polling) \in [own : BOOLEAN, leaked : BOOLEAN]
           /\ StoppedTimeout \in [own : BOOLEAN, leaked : Nat]
           /\ StartedTimeout \in [own : BOOLEAN, leaked : Nat]
           /\ \A to \in FiredTimeout :
                 to \in [own : BOOLEAN, leaked : Nat]
                 /\ [to EXCEPT !.own = FALSE] \in [own : BOOLEAN, leaked : Nat]
<1>1. polling \in [own : BOOLEAN, leaked : BOOLEAN] /\ timeout \in [own : BOOLEAN, leaked : Nat]
  BY DEF ScalarsOK
<1>2. StoppedPolling \in [own : BOOLEAN, leaked : BOOLEAN]
  BY <1>1 DEF StoppedPolling
<1>3. StartedPolling(polling) \in [own : BOOLEAN, leaked : BOOLEAN]
  BY <1>1 DEF StartedPolling
<1>4. StoppedTimeout \in [own : BOOLEAN, leaked : Nat]
  BY <1>1 DEF StoppedTimeout
<1>5. StartedTimeout \in [own : BOOLEAN, leaked : Nat]
  BY <1>1 DEF StartedTimeout
<1>6. ASSUME NEW to \in FiredTimeout
      PROVE  to \in [own : BOOLEAN, leaked : Nat]
  <2>1. [timeout EXCEPT !.own = FALSE] \in [own : BOOLEAN, leaked : Nat]
    BY <1>1
  <2>2. PICK n : n = IF timeout.leaked = 0 THEN 0 ELSE timeout.leaked - 1
    OBVIOUS
  <2>3. n \in Nat
    BY <1>1, <2>2
  <2>4. [timeout EXCEPT !.leaked = n] \in [own : BOOLEAN, leaked : Nat]
    BY <1>1, <2>3
  <2>5. to = [timeout EXCEPT !.own = FALSE] \/ to = [timeout EXCEPT !.leaked = n]
    BY <2>2 DEF FiredTimeout
  <2> QED BY <2>1, <2>4, <2>5, Zenon
<1>7. \A to \in [own : BOOLEAN, leaked : Nat] :
         [to EXCEPT !.own = FALSE] \in [own : BOOLEAN, leaked : Nat]
  OBVIOUS
<1> QED BY <1>2, <1>3, <1>4, <1>5, <1>6, <1>7

LEMMA NewTimers ==
    ASSUME timers \in Seq(OneShot), NEW n \in 0 .. 4, NEW m \in 0 .. 4, NEW act \in {"idle", "execute"}
    PROVE  /\ Append(timers, Timer("idle", n)) \in Seq(OneShot)
           /\ timers \o <<Timer("idle", n), Timer(act, m)>> \in Seq(OneShot)
<1>1. Timer("idle", n) \in OneShot /\ Timer(act, m) \in OneShot
  BY DEF Timer, OneShot
<1> DEFINE two == <<Timer("idle", n), Timer(act, m)>>
<1>2. two \in Seq(OneShot)
  BY <1>1
<1> HIDE DEF two
<1>3. timers \o two \in Seq(OneShot)
  BY <1>2, ConcatProperties
<1> QED BY <1>1, <1>3, AppendProperties DEF two

(* A timer that is due is taken out.                                        *)
LEMMA TimerTaken ==
    ASSUME timers \in Seq(OneShot), NEW i \in DueTimers
    PROVE  Without(timers, i) \in Seq(OneShot) /\ i \in 1 .. Len(timers)
<1>1. i \in 1 .. Len(timers)
  BY DEF DueTimers
<1> QED BY <1>1, WithoutKeepsOthers

LEMMA ExecuteTypes ==
    ASSUME TypesInv, Quiet, NEW left \in Seq(OneShot), Execute(left)
    PROVE  TypesInv'
<1>1. CASE MayExecute
  <2> DEFINE r == [kind |-> "exec", stage |-> "price", at |-> [ex \in Ex |-> 0]]
  <2>1. r \in ExecCalls
    BY BasisConstants DEF ExecCalls, Ids
  <2>2. r \in Calls /\ CallFits(r, leg) /\ r.kind # "protect"
    BY <2>1, KindsOfCalls DEF CallFits
  <2>3. /\ HasSlot /\ phase' = "PLACING" /\ params' = TRUE /\ task' = Begin(r) /\ timers' = left
        /\ UNCHANGED <<leg, polling, timeout, feed, screen, process, orders>>
    BY <1>1 DEF Execute
  <2> HIDE DEF r
  <2>4. TasksOK(task', leg')
    BY <2>2, <2>3, BeginFits DEF TypesInv, Quiet
  <2>5. ScalarsOK'
    BY <2>3 DEF TypesInv, ScalarsOK, Phases
  <2> QED BY <2>3, <2>4, <2>5, TypesNext DEF TypesInv
<1>2. CASE ~ MayExecute
  <2>1. /\ timers' = left
        /\ UNCHANGED <<phase, leg, params, polling, timeout, task, feed, screen, process, orders>>
    BY <1>2 DEF Execute
  <2>2. ScalarsOK'
    BY <2>1 DEF TypesInv, ScalarsOK
  <2> QED BY <2>1, <2>2, TypesNext DEF TypesInv
<1> QED BY <1>1, <1>2

LEMMA ExecutionTypes ==
    ASSUME TypesInv, UserExecute \/ ReExecute
    PROVE  TypesInv'
<1>1. timers \in Seq(OneShot)
  BY DEF TypesInv
<1>2. CASE UserExecute
  BY <1>1, <1>2, ExecuteTypes DEF UserExecute, UserMayAct
<1>3. CASE ReExecute
  <2>1. PICK i \in DueTimers : Execute(Without(timers, i))
    BY <1>3 DEF ReExecute
  <2> QED BY <1>1, <1>3, <2>1, TimerTaken, ExecuteTypes DEF ReExecute
<1> QED BY <1>2, <1>3

(* A call goes on or ends, and no more.                                     *)
LEMMA CallGoesOn ==
    ASSUME TypesInv, NEW t \in Tasks, task[t].kind # "none",
           NEW r \in Calls, CallFits(r, leg), \A ex : Protects(r, ex) => Protects(task[t], ex),
           task' = [task EXCEPT ![t] = r], UNCHANGED leg, ScalarsOK', timers' \in Seq(OneShot), OrdersOK(orders')
    PROVE  TypesInv'
<1>1. TasksOK(task, leg)
  BY DEF TypesInv
<1>2. TasksOK(task', leg')
  BY <1>1, CallReplaced
<1> QED BY <1>2, TypesNext DEF TypesInv

LEMMA CallGone ==
    ASSUME TypesInv, NEW t \in Tasks, task' = End(t),
           UNCHANGED leg, ScalarsOK', timers' \in Seq(OneShot), OrdersOK(orders')
    PROVE  TypesInv'
<1>1. TasksOK(task', leg')
  BY CallEnds DEF TypesInv
<1> QED BY <1>1, TypesNext DEF TypesInv

LEMMA PlacingTypes ==
    ASSUME TypesInv, NEW t \in Tasks,
           ExecPriced(t) \/ ExecUnpriced(t) \/ ExecRejected(t) \/ DeadExecEnds(t)
    PROVE  TypesInv'
<1>1. task[t].kind = "exec" /\ UNCHANGED <<leg, timers, orders>>
  BY DEF ExecPriced, ExecUnpriced, ExecRejected, DeadExecEnds
<1>2. task[t] \in ExecCalls
  BY <1>1, CallKinds DEF TypesInv, TasksOK
<1>3. ScalarsOK'
  BY DEF ExecPriced, ExecUnpriced, ExecRejected, DeadExecEnds, TypesInv, ScalarsOK, Phases
<1>4. PICK p : p = [task[t] EXCEPT !.stage = "place"]
  OBVIOUS
<1>5. PICK d : d = [task[t] EXCEPT !.stage = "dead"]
  OBVIOUS
<1>6. p \in ExecCalls /\ d \in ExecCalls
  BY <1>2, <1>4, <1>5 DEF ExecCalls
<1>7. /\ p \in Calls /\ CallFits(p, leg) /\ d \in Calls /\ CallFits(d, leg)
      /\ \A ex : ~ Protects(p, ex) /\ ~ Protects(d, ex)
  BY <1>6, KindsOfCalls DEF CallFits, Protects
<1>8. task' = [task EXCEPT ![t] = p] \/ task' = [task EXCEPT ![t] = d] \/ task' = End(t)
  BY <1>4, <1>5 DEF ExecPriced, ExecUnpriced, ExecRejected, DeadExecEnds
<1>9. timers' \in Seq(OneShot) /\ OrdersOK(orders') /\ task[t].kind # "none"
  BY <1>1 DEF TypesInv
<1> QED BY <1>1, <1>3, <1>7, <1>8, <1>9, CallGoesOn, CallGone

LEMMA LandingTypes ==
    ASSUME TypesInv, NEW t \in Tasks, NEW ex \in Ex, PlacementLands(t, ex)
    PROVE  TypesInv'
<1>1. /\ task[t].kind = "exec"
      /\ UNCHANGED <<phase, leg, params, polling, timeout, timers, feed, screen, process>>
  BY DEF PlacementLands
<1>2. task[t] \in ExecCalls
  BY <1>1, CallKinds DEF TypesInv, TasksOK
<1>3. ScalarsOK'
  BY <1>1 DEF TypesInv, ScalarsOK
<1>4. /\ \E v \in {-1} \union Ids : task' = [task EXCEPT ![t].at[ex] = v]
      /\ OrdersOK(orders')
  <2>1. OrdersOK(orders)
    BY DEF TypesInv
  <2>2. CASE UNCHANGED orders /\ task' = [task EXCEPT ![t].at[ex] = -1]
    BY <2>1, <2>2
  <2>3. CASE /\ FreeIds(ex) # {} /\ orders' = WithOrder(ex, FreshId(ex), Working)
             /\ \/ task' = [task EXCEPT ![t].at[ex] = FreshId(ex)]
                \/ task' = [task EXCEPT ![t].at[ex] = -1]
    <3>1. PICK id \in OrderIds : id = FreshId(ex)
      BY <2>3, FreshOrder
    <3>2. OrdersOK(orders')
      BY <2>1, <2>3, <3>1, NewOrders, OrderSet
    <3>3. id \in {-1} \union Ids /\ -1 \in {-1} \union Ids
      BY <3>1 DEF OrderIds, Ids
    <3>4. task' = [task EXCEPT ![t].at[ex] = id] \/ task' = [task EXCEPT ![t].at[ex] = -1]
      BY <2>3, <3>1
    <3> QED BY <3>2, <3>3, <3>4, Zenon
  <2> QED BY <2>2, <2>3 DEF PlacementLands
<1>5. PICK v \in {-1} \union Ids : task' = [task EXCEPT ![t].at[ex] = v]
  BY <1>4
<1>6. PICK r : r = [task[t] EXCEPT !.at[ex] = v]
  OBVIOUS
<1>7. r \in ExecCalls
  BY <1>2, <1>6 DEF ExecCalls
<1>8. r \in Calls /\ CallFits(r, leg) /\ \A e : ~ Protects(r, e)
  BY <1>7, KindsOfCalls DEF CallFits, Protects
<1>9. task' = [task EXCEPT ![t] = r]
  BY <1>5, <1>6
<1>10. timers' \in Seq(OneShot) /\ task[t].kind # "none"
  BY <1>1 DEF TypesInv
<1> QED BY <1>1, <1>3, <1>4, <1>8, <1>9, <1>10, CallGoesOn

(* Both placed: every leg is new.                                           *)
LEMMA PlacedTypes ==
    ASSUME TypesInv, NEW t \in Tasks, ExecPlaced(t)
    PROVE  TypesInv'
<1>1. task[t] \in ExecCalls /\ \A ex \in Ex : task[t].at[ex] > 0
  BY CallKinds DEF ExecPlaced, TypesInv, TasksOK
<1>2. leg' = [ex \in Ex |-> NewLeg(task[t].at[ex], "new")]
  BY DEF ExecPlaced
<1>3. \A ex \in Ex : task[t].at[ex] \in Ids /\ task[t].at[ex] # 0
  BY <1>1, BasisConstants DEF ExecCalls, Ids
<1>4. LegsOK(leg')
  BY <1>2, <1>3, NotAmended, BasisConstants DEF LegsOK, LegsType, NewLeg, Statuses, Ids
<1>5. ScalarsOK
  BY DEF TypesInv
<1>6. ScalarsOK'
  BY <1>5, Handles DEF ScalarsOK, ExecPlaced, Phases
<1>7. TasksOK(End(t), leg)
  BY CallEnds DEF TypesInv
<1>8. TasksOK(Detach(End(t), Ex), leg')
  BY <1>4, <1>7, LegsReplaced
<1>9. task' = Detach(End(t), Ex) /\ UNCHANGED <<timers, orders>>
  BY DEF ExecPlaced
<1> QED BY <1>4, <1>6, <1>8, <1>9, TypesNext DEF TypesInv

LEMMA CancelStarts ==
    ASSUME TypesInv, Quiet, NEW why \in {"key", "amend", "timeout", "quit"},
           NEW to \in [own : BOOLEAN, leaked : Nat], StartCancel(why, to),
           process' \in {"running", "closing", "exited"}
    PROVE  TypesInv'
<1> DEFINE r == CancelTask(why)
<1>1. leg \in [Ex -> LegsType]
  BY DEF TypesInv, LegsOK
<1>2. LegsToCancel \in [Ex -> Ids] /\ \A ex \in Ex : LegsToCancel[ex] # 0 => leg[ex].id # 0
  BY <1>1, BasisConstants DEF LegsToCancel, LegsType, Ids
<1>3. r \in CancelCalls /\ r.wait = LegsToCancel /\ r.mine = Ex
  BY <1>2 DEF CancelCalls, CancelTask
<1>4. r \in Calls /\ r.kind = "cancel"
  BY <1>3, KindsOfCalls
<1>5. CallFits(r, leg)
  <2> HIDE DEF r
  <2> QED BY <1>2, <1>3, <1>4 DEF CallFits
<1>6. /\ polling' = StoppedPolling /\ timeout' = [to EXCEPT !.own = FALSE] /\ task' = Begin(r)
      /\ UNCHANGED <<phase, leg, params, timers, feed, screen, orders>> /\ HasSlot
  BY DEF StartCancel, MayBegin
<1> HIDE DEF r
<1>7. TasksOK(task', leg')
  BY <1>4, <1>5, <1>6, BeginFits DEF TypesInv, Quiet
<1>8. timeout' \in [own : BOOLEAN, leaked : Nat]
  BY <1>6
<1>9. ScalarsOK'
  BY <1>6, <1>8, Handles DEF TypesInv, ScalarsOK
<1> QED BY <1>6, <1>7, <1>9, TypesNext DEF TypesInv

LEMMA CancelKeyTypes ==
    ASSUME TypesInv, UserCancel \/ UserAmend \/ UserQuit
    PROVE  TypesInv'
<1>1. Quiet /\ timeout \in [own : BOOLEAN, leaked : Nat] /\ process \in {"running", "closing", "exited"}
  BY DEF UserCancel, UserAmend, UserQuit, UserMayAct, TypesInv, ScalarsOK
<1>2. process' \in {"running", "closing", "exited"}
  BY <1>1 DEF UserCancel, UserAmend, UserQuit
<1>3. \E why \in {"key", "amend", "timeout", "quit"} : StartCancel(why, timeout)
  BY DEF UserCancel, UserAmend, UserQuit
<1> QED BY <1>1, <1>2, <1>3, CancelStarts

LEMMA TimeoutTypes ==
    ASSUME TypesInv, TimeoutFires
    PROVE  TypesInv'
<1>1. ScalarsOK /\ timers \in Seq(OneShot)
  BY DEF TypesInv
<1>2. PICK left \in FiredTimeout :
        \/ phase = "MONITORING" /\ StartCancel("timeout", left)
        \/ /\ timeout' = left /\ phase' = "TIMEOUT" /\ timers' = Append(timers, Timer("idle", 3))
           /\ UNCHANGED <<leg, params, polling, task, feed, screen, orders>>
  BY DEF TimeoutFires
<1>3. left \in [own : BOOLEAN, leaked : Nat]
  BY <1>1, Handles
<1>4. Quiet /\ process' = process
  BY DEF TimeoutFires
<1>5. CASE phase = "MONITORING" /\ StartCancel("timeout", left)
  <2>1. process' \in {"running", "closing", "exited"}
    BY <1>1, <1>4 DEF ScalarsOK
  <2> QED BY <1>3, <1>4, <1>5, <2>1, CancelStarts
<1>6. CASE /\ timeout' = left /\ phase' = "TIMEOUT" /\ timers' = Append(timers, Timer("idle", 3))
           /\ UNCHANGED <<leg, params, polling, task, feed, screen, orders>>
  <2>1. ScalarsOK'
    BY <1>1, <1>3, <1>4, <1>6 DEF ScalarsOK, Phases
  <2>2. timers' \in Seq(OneShot)
    BY <1>1, <1>6, NewTimers
  <2> QED BY <1>6, <2>1, <2>2, TypesNext DEF TypesInv
<1> QED BY <1>2, <1>5, <1>6

(* An order of the cancel has been answered for.                            *)
LEMMA CancelLandsTypes ==
    ASSUME TypesInv, NEW t \in Tasks, NEW ex \in Ex, CancelLands(t, ex)
    PROVE  TypesInv'
<1>1. /\ task[t].kind = "cancel" /\ task[t].wait[ex] > 0
      /\ UNCHANGED <<phase, params, polling, timeout, timers, feed, screen, process>>
  BY DEF CancelLands
<1>2. task[t] \in CancelCalls /\ CallFits(task[t], leg)
  BY <1>1, CallKinds DEF TypesInv, TasksOK
<1>3. PICK id : id = task[t].wait[ex]
  OBVIOUS
<1>4. id \in OrderIds /\ id # 0
  BY <1>1, <1>2, <1>3, BasisConstants DEF CancelCalls, Ids, OrderIds
<1>5. PICK out \in CancelOutcomes(ex, id) :
        /\ orders' = AfterCancel(ex, id, out)
        /\ leg' = IF ~ out.thrown /\ ex \in task[t].mine
                  THEN [leg EXCEPT ![ex].status = "canceled"] ELSE leg
  BY <1>3 DEF CancelLands
<1>6. OrdersOK(orders')
  BY <1>4, <1>5, OutcomeFacts, OrderCancelled DEF TypesInv
<1>7. LegsOK(leg) /\ TasksOK(task, leg)
  BY DEF TypesInv
<1>8. /\ LegsOK(leg')
      /\ \A e \in Ex : leg'[e].id = leg[e].id /\ leg'[e].amends = leg[e].amends
  <2>1. CASE leg' = leg
    BY <1>7, <2>1
  <2>2. CASE ex \in task[t].mine /\ leg' = [leg EXCEPT ![ex].status = "canceled"]
    <3>1. leg[ex].id # 0
      BY <1>1, <1>2, <1>3, <1>4, <2>2 DEF CallFits
    <3>2. leg \in [Ex -> LegsType]
      BY <1>7 DEF LegsOK
    <3>3. PICK l : l = [leg[ex] EXCEPT !.status = "canceled"]
      OBVIOUS
    <3>4. l \in LegsType /\ l.status = "canceled" /\ l.id = leg[ex].id /\ l.amends = leg[ex].amends
      BY <3>2, <3>3 DEF LegsType, Statuses
    <3>5. leg' = [leg EXCEPT ![ex] = l]
      BY <2>2, <3>3
    <3>6. leg' \in [Ex -> LegsType] /\ \A e \in Ex : leg'[e] = IF e = ex THEN l ELSE leg[e]
      BY <3>2, <3>4, <3>5
    <3> QED BY <1>7, <3>1, <3>4, <3>6 DEF LegsOK
  <2> QED BY <1>5, <2>1, <2>2
<1>9. PICK r : r = [task[t] EXCEPT !.wait[ex] = 0]
  OBVIOUS
<1>10. r \in CancelCalls /\ r.mine = task[t].mine /\ \A e \in Ex : r.wait[e] # 0 => task[t].wait[e] # 0
  BY <1>2, <1>9, BasisConstants DEF CancelCalls, Ids
<1>11. r \in Calls /\ r.kind = "cancel" /\ \A e : ~ Protects(r, e)
  BY <1>10, KindsOfCalls DEF Protects
<1>12. CallFits(r, leg)
  <2>1. \A e \in task[t].mine : e \in Ex
    BY <1>2 DEF CancelCalls
  <2> QED BY <1>1, <1>2, <1>10, <1>11, <2>1 DEF CallFits
<1>13. task' = [task EXCEPT ![t] = r]
  BY <1>9 DEF CancelLands
<1>14. TasksOK(task', leg)
  BY <1>1, <1>7, <1>11, <1>12, <1>13, CallReplaced
<1>15. TasksOK(task', leg')
  BY <1>8, <1>14, LegsTouched
<1>16. ScalarsOK'
  BY <1>1 DEF TypesInv, ScalarsOK
<1> QED BY <1>1, <1>6, <1>8, <1>15, <1>16, TypesNext DEF TypesInv

LEMMA CancelEndsTypes ==
    ASSUME TypesInv, NEW t \in Tasks,
           CancelledByKey(t) \/ CancelledForAmend(t) \/ CancelledByTimeout(t)
    PROVE  TypesInv'
<1>1. task' = End(t) /\ UNCHANGED <<leg, orders>>
  BY DEF CancelledByKey, CancelledForAmend, CancelledByTimeout
<1>2. ScalarsOK'
  BY DEF CancelledByKey, CancelledForAmend, CancelledByTimeout, TypesInv, ScalarsOK, Phases
<1>3. timers' \in Seq(OneShot)
  <2>1. timers \in Seq(OneShot) /\ 3 \in 0 .. 4 /\ 1 \in 0 .. 4
    BY DEF TypesInv
  <2>2. /\ Append(timers, Timer("idle", 3)) \in Seq(OneShot)
        /\ timers \o <<Timer("idle", 3), Timer("idle", 3)>> \in Seq(OneShot)
        /\ timers \o <<Timer("idle", 3), Timer("execute", 1)>> \in Seq(OneShot)
    BY <2>1, NewTimers
  <2> QED BY <2>2, Zenon DEF CancelledByKey, CancelledForAmend, CancelledByTimeout
<1> QED BY <1>1, <1>2, <1>3, CallGone DEF TypesInv

LEMMA TimerTypes ==
    ASSUME TypesInv, ReturnToIdle \/ Tick
    PROVE  TypesInv'
<1>1. timers \in Seq(OneShot)
  BY DEF TypesInv
<1>2. timers' \in Seq(OneShot)
  <2>1. CASE ReturnToIdle
    <3>1. PICK i \in DueTimers : timers' = Without(timers, i)
      BY <2>1 DEF ReturnToIdle
    <3> QED BY <1>1, <3>1, TimerTaken
  <2>2. CASE Tick
    <3>1. timers' = [i \in 1 .. Len(timers) |-> [timers[i] EXCEPT !.left = @ - 1]] /\ DueTimers = {}
      BY <1>1, <2>2 DEF Tick
    <3>2. ASSUME NEW i \in 1 .. Len(timers)
          PROVE  [timers[i] EXCEPT !.left = @ - 1] \in OneShot
      <4>1. timers[i] \in OneShot
        BY <1>1
      <4>2. timers[i].left # 0
        BY <3>1 DEF DueTimers
      <4>3. timers[i].left - 1 \in 0 .. 4
        BY <4>1, <4>2 DEF OneShot
      <4> QED BY <4>1, <4>3 DEF OneShot
    <3>3. Len(timers) \in Nat
      BY <1>1
    <3> QED BY <3>1, <3>2, <3>3
  <2> QED BY <2>1, <2>2
<1>3. ScalarsOK' /\ UNCHANGED <<leg, orders, task>>
  BY DEF ReturnToIdle, Tick, TypesInv, ScalarsOK, Phases
<1> QED BY <1>2, <1>3, TypesNext DEF TypesInv

LEMMA PollStartTypes ==
    ASSUME TypesInv, PollStart
    PROVE  TypesInv'
<1> DEFINE r == [kind |-> "poll", asked |-> [ex \in Ex |-> leg[ex].id],
                 seen |-> [ex \in Ex |-> IF leg[ex].id > 0
                                         THEN Status(ex, leg[ex].id) ELSE "none"]]
<1>1. leg \in [Ex -> LegsType] /\ OrdersOK(orders)
  BY DEF TypesInv, LegsOK
<1>2. ASSUME NEW ex \in Ex
      PROVE  /\ leg[ex].id \in Ids
             /\ leg[ex].id > 0 => Status(ex, leg[ex].id) \in Statuses
             /\ leg[ex].id > 0 <=> leg[ex].id # 0
  <2>1. leg[ex].id \in Ids
    BY <1>1 DEF LegsType, Ids
  <2>2. leg[ex].id > 0 <=> leg[ex].id # 0
    BY <2>1, BasisConstants DEF Ids
  <2>3. ASSUME leg[ex].id > 0
        PROVE  Status(ex, leg[ex].id) \in Statuses
    <3>1. leg[ex].id \in OrderIds
      BY <2>1, <2>3, BasisConstants DEF Ids, OrderIds
    <3>2. orders[ex][leg[ex].id] \in OrderType
      BY <1>1, <3>1 DEF OrdersOK
    <3> QED BY <3>2, StatusFacts DEF Status
  <2> QED BY <2>1, <2>2, <2>3
<1>3. r \in PollCalls
  BY <1>2 DEF PollCalls
<1>4. \A ex \in Ex : r.asked[ex] = 0 <=> r.seen[ex] = "none"
  BY <1>2 DEF Statuses
<1>5. task' = Begin(r) /\ HasSlot /\ Quiet
      /\ UNCHANGED <<phase, leg, params, polling, timeout, timers, feed, screen, process, orders>>
  BY DEF PollStart, MayBegin
<1> HIDE DEF r
<1>6. r \in Calls /\ CallFits(r, leg) /\ r.kind # "protect"
  BY <1>3, <1>4, KindsOfCalls DEF CallFits
<1>7. TasksOK(task', leg')
  BY <1>5, <1>6, BeginFits DEF TypesInv, Quiet
<1>8. ScalarsOK'
  BY <1>5 DEF TypesInv, ScalarsOK
<1> QED BY <1>5, <1>7, <1>8, TypesNext DEF TypesInv

(* An answer is a status, or none for a leg that is not there.              *)
LEMMA AnswerFacts ==
    ASSUME TypesInv, NEW t \in Tasks, task[t].kind = "poll", NEW ex \in Ex,
           NEW a \in Answers(t, ex)
    PROVE  /\ a \in Statuses \union {"none"}
           /\ a = "none" <=> task[t].asked[ex] = 0
           /\ task[t].asked[ex] # 0 =>
                 /\ task[t].asked[ex] \in OrderIds
                 /\ a = task[t].seen[ex] \/ a = Status(ex, task[t].asked[ex])
<1>1. task[t] \in PollCalls /\ CallFits(task[t], leg)
  BY CallKinds DEF TypesInv, TasksOK
<1>2. task[t].asked[ex] \in Ids /\ task[t].seen[ex] \in Statuses \union {"none"}
      /\ (task[t].asked[ex] = 0 <=> task[t].seen[ex] = "none")
  BY <1>1 DEF PollCalls, CallFits
<1>3. CASE task[t].asked[ex] = 0
  BY <1>3 DEF Answers
<1>4. CASE task[t].asked[ex] # 0
  <2>1. task[t].asked[ex] \in OrderIds
    BY <1>2, <1>4, BasisConstants DEF Ids, OrderIds
  <2>2. orders[ex][task[t].asked[ex]] \in OrderType
    BY <2>1 DEF TypesInv, OrdersOK
  <2>3. Status(ex, task[t].asked[ex]) \in Statuses
    BY <2>2, StatusFacts DEF Status
  <2>4. a = task[t].seen[ex] \/ a = Status(ex, task[t].asked[ex])
    BY <1>4 DEF Answers
  <2>5. "none" \notin Statuses
    BY DEF Statuses
  <2> QED BY <1>2, <1>4, <2>1, <2>3, <2>4, <2>5
<1> QED BY <1>3, <1>4

(* Updating a leg changes its status only.                                  *)
LEMMA UpdatedLegs ==
    ASSUME LegsOK(leg), NEW ans \in [Ex -> Statuses \union {"none"}]
    PROVE  /\ LegsOK(Updated(ans))
           /\ \A ex \in Ex :
                 /\ Updated(ans)[ex].id = leg[ex].id /\ Updated(ans)[ex].amends = leg[ex].amends
                 /\ Updated(ans)[ex].status =
                       IF leg[ex].id = 0 \/ ans[ex] = "none" THEN leg[ex].status ELSE ans[ex]
<1>1. PICK lg : lg = Updated(ans)
  OBVIOUS
<1>2. \A ex \in Ex : lg[ex] = IF leg[ex].id = 0 \/ ans[ex] = "none" THEN leg[ex]
                              ELSE [leg[ex] EXCEPT !.status = ans[ex]]
  BY <1>1 DEF Updated
<1>3. ASSUME NEW ex \in Ex
      PROVE  /\ lg[ex] \in LegsType /\ lg[ex].id = leg[ex].id /\ lg[ex].amends = leg[ex].amends
             /\ lg[ex].status = IF leg[ex].id = 0 \/ ans[ex] = "none" THEN leg[ex].status ELSE ans[ex]
  <2>1. leg[ex] \in LegsType
    BY DEF LegsOK
  <2>2. CASE leg[ex].id = 0 \/ ans[ex] = "none"
    BY <1>2, <2>1, <2>2
  <2>3. CASE ~ (leg[ex].id = 0 \/ ans[ex] = "none")
    <3>1. lg[ex] = [leg[ex] EXCEPT !.status = ans[ex]]
      BY <1>2, <2>3
    <3> QED BY <2>1, <2>3, <3>1 DEF LegsType
  <2> QED BY <2>2, <2>3
<1>4. lg \in [Ex -> LegsType]
  <2>1. lg = [ex \in Ex |-> lg[ex]]
    BY <1>1 DEF Updated
  <2> QED BY <1>3, <2>1
<1>5. \A ex \in Ex : lg[ex].id = 0 <=> lg[ex].status = "none"
  BY <1>3 DEF LegsOK
<1> QED BY <1>1, <1>3, <1>4, <1>5 DEF LegsOK

(* The poll answered: the session is filled, or one leg is to be protected. *)
LEMMA PollAnsweredTypes ==
    ASSUME TypesInv, NEW t \in Tasks, PollAnswered(t)
    PROVE  TypesInv'
<1>1. PICK ans \in [Ex -> Statuses \union {"none"}] :
        /\ leg' = Updated(ans)
        /\ \/ /\ polling' = StoppedPolling /\ timeout' = StoppedTimeout /\ phase' = "FILLED"
              /\ timers' = Append(timers, Timer("idle", 4)) /\ task' = End(t)
           \/ /\ task' = IF params /\ \E ex \in Ex : Exposed(leg', ex)
                         THEN [task EXCEPT ![t] =
                                 ProtectTask(leg', CHOOSE ex \in Ex : Exposed(leg', ex))]
                         ELSE End(t)
              /\ UNCHANGED <<phase, polling, timeout, timers>>
  BY DEF PollAnswered
<1>2. task[t].kind = "poll" /\ UNCHANGED <<params, feed, screen, process, orders>>
  BY DEF PollAnswered
<1>3. LegsOK(leg)
  BY DEF TypesInv
<1>4. /\ LegsOK(leg')
      /\ \A ex \in Ex : leg'[ex].id = leg[ex].id /\ leg'[ex].amends = leg[ex].amends
  BY <1>1, <1>3, UpdatedLegs
<1>5. TasksOK(task, leg')
  BY <1>4, LegsTouched DEF TypesInv
<1>6. TasksOK(End(t), leg')
  BY <1>5, CallEnds
<1>7. ScalarsOK' /\ timers' \in Seq(OneShot)
  <2>1. CASE /\ polling' = StoppedPolling /\ timeout' = StoppedTimeout /\ phase' = "FILLED"
             /\ timers' = Append(timers, Timer("idle", 4))
    <3>1. Append(timers, Timer("idle", 4)) \in Seq(OneShot)
      BY NewTimers DEF TypesInv
    <3>2. ScalarsOK'
      BY <1>2, <2>1, Handles DEF TypesInv, ScalarsOK, Phases
    <3> QED BY <2>1, <3>1, <3>2
  <2>2. CASE UNCHANGED <<phase, polling, timeout, timers>>
    BY <1>2, <2>2 DEF TypesInv, ScalarsOK
  <2> QED BY <1>1, <2>1, <2>2
<1>8. ASSUME \E ex \in Ex : Exposed(leg', ex),
             task' = [task EXCEPT ![t] = ProtectTask(leg', CHOOSE ex \in Ex : Exposed(leg', ex))]
      PROVE  TasksOK(task', leg')
  <2>1. PICK lg : lg = leg'
    OBVIOUS
  <2>2. PICK e \in Ex : Exposed(lg, e) /\ e = CHOOSE ex \in Ex : Exposed(lg, ex)
    BY <1>8, <2>1
  <2>3. PICK r : r = ProtectTask(lg, e)
    OBVIOUS
  <2>4. task' = [task EXCEPT ![t] = r]
    BY <1>8, <2>1, <2>2, <2>3
  <2>5. lg[e] \in LegsType /\ lg[e].id > 0
    BY <1>4, <2>1, <2>2 DEF LegsOK, Exposed
  <2>6. lg[e].id \in OrderIds
    BY <2>5, BasisConstants DEF LegsType, OrderIds
  <2>13. PICK n \in Int : n = lg[e].amends
    BY <2>5, BasisConstants DEF LegsType
  <2>7. PICK b : b = (n >= MaxAmend)
    OBVIOUS
  <2>14. MaxAmend \in Int
    BY BasisConstants
  <2>8. b \in BOOLEAN /\ (b <=> n >= MaxAmend)
    BY <2>7, <2>14, Comparisons, Zenon
  <2>10. r = [kind |-> "protect", ex |-> e, id |-> lg[e].id, stage |-> "cancel",
              market |-> b, mine |-> TRUE]
    BY <2>3, <2>7, <2>13 DEF ProtectTask
  <2>11. r \in ProtectCalls /\ r.ex = e /\ r.market = b
    BY <2>6, <2>8, <2>10 DEF ProtectCalls
  <2>12. ~ r.market => lg[e].amends < MaxAmend
    BY <2>8, <2>11, <2>13, <2>14
  <2>9. r \in Calls /\ CallFits(r, lg) /\ r.kind = "protect"
    BY <2>11, KindsOfCalls DEF CallFits
  <2>15. /\ TasksOK(task, lg) /\ task' \in [Tasks -> Calls]
         /\ \A u \in Tasks : task'[u] = IF u = t THEN r ELSE task[u]
    BY <1>5, <2>1, <2>4, <2>9 DEF TasksOK
  <2>16. Prompt => OneAtATime(task')
    BY <1>2, <2>15 DEF TasksOK, OneAtATime
  <2>17. AmendsFit(task', lg)
    <3> SUFFICES ASSUME NEW ex \in Ex
                 PROVE  lg[ex].amends \in 0 .. MaxAmend + AtATime - 1 - Cardinality(Protecting(task', ex))
      BY DEF AmendsFit
    <3>1. CASE Protects(r, ex)
      <4>1. ex = e /\ ~ r.market
        BY <2>11, <3>1 DEF Protects
      <4>2. n \in 0 .. MaxAmend - 1
        BY <2>5, <2>12, <2>13, <4>1, BasisConstants, CallsAtATime DEF LegsType
      <4>3. Cardinality(Protecting(task', ex)) \in 0 .. AtATime
        BY <2>16, Protections
      <4> QED BY <2>13, <4>1, <4>2, <4>3, BasisConstants, CallsAtATime
    <3>2. CASE ~ Protects(r, ex)
      <4>1. Protecting(task', ex) \subseteq Protecting(task, ex)
        BY <2>15, <3>2 DEF Protecting
      <4> QED BY <2>15, <4>1, FewerProtections DEF TasksOK, AmendsFit
    <3> QED BY <3>1, <3>2
  <2>18. \A u \in Tasks : CallFits(task'[u], lg)
    BY <2>9, <2>15 DEF TasksOK
  <2> QED BY <2>1, <2>15, <2>16, <2>17, <2>18 DEF TasksOK
<1>9. TasksOK(task', leg')
  BY <1>1, <1>6, <1>8
<1> QED BY <1>2, <1>4, <1>7, <1>9, TypesNext DEF TypesInv

LEMMA ProtectCancelsTypes ==
    ASSUME TypesInv, NEW t \in Tasks, ProtectCancels(t)
    PROVE  TypesInv'
<1>1. task[t].kind = "protect"
      /\ UNCHANGED <<phase, leg, params, polling, timeout, timers, feed, screen, process>>
  BY DEF ProtectCancels
<1>2. task[t] \in ProtectCalls /\ CallFits(task[t], leg)
  BY <1>1, CallKinds DEF TypesInv, TasksOK
<1>3. PICK e \in Ex : e = task[t].ex
  BY <1>2 DEF ProtectCalls
<1>4. PICK id \in OrderIds : id = task[t].id
  BY <1>2 DEF ProtectCalls
<1>5. PICK out \in CancelOutcomes(e, id) : orders' = AfterCancel(e, id, out)
  BY <1>3, <1>4 DEF ProtectCancels
<1>6. OrdersOK(orders')
  BY <1>5, OutcomeFacts, OrderCancelled DEF TypesInv
<1>7. PICK r : r = [task[t] EXCEPT !.stage = "place"]
  OBVIOUS
<1>8. task' = End(t) \/ task' = [task EXCEPT ![t] = r]
  BY <1>7 DEF ProtectCancels
<1>9. r \in ProtectCalls /\ r.ex = task[t].ex /\ r.market = task[t].market /\ r.mine = task[t].mine
  BY <1>2, <1>7 DEF ProtectCalls
<1>10. r \in Calls /\ CallFits(r, leg) /\ \A ex : Protects(r, ex) => Protects(task[t], ex)
  BY <1>1, <1>2, <1>9, KindsOfCalls DEF CallFits, Protects
<1>11. ScalarsOK' /\ timers' \in Seq(OneShot)
  BY <1>1 DEF TypesInv, ScalarsOK
<1> QED BY <1>1, <1>6, <1>8, <1>10, <1>11, CallGoesOn, CallGone

(* The pending leg is replaced by the order of the protection.              *)
LEMMA ReplacedLeg ==
    ASSUME LegsOK(leg), TasksOK(task, leg), NEW t \in Tasks, task[t] \in ProtectCalls,
           NEW id \in OrderIds
    PROVE  /\ LegsOK(Replaced(t, id)) /\ TasksOK(End(t), Replaced(t, id))
           /\ \A ex \in Ex : ex # task[t].ex => Replaced(t, id)[ex] = leg[ex]
           /\ task[t].mine =>
                 /\ Replaced(t, id)[task[t].ex].id = id
                 /\ Replaced(t, id)[task[t].ex].status = IF task[t].market THEN "filled" ELSE "new"
           /\ ~ task[t].mine => Replaced(t, id) = leg
<1>1. PICK e \in Ex : e = task[t].ex
  BY DEF ProtectCalls
<1>4. TasksOK(End(t), leg)
  BY CallEnds
<1>2. CASE ~ task[t].mine
  BY <1>2, <1>4 DEF Replaced
<1>3. CASE task[t].mine
  <2>1. leg \in [Ex -> LegsType] /\ leg[e] \in LegsType /\ id \in Ids /\ id # 0
    BY BasisConstants DEF LegsOK, OrderIds, Ids
  <2>2. PICK m : m = [leg[e] EXCEPT !.id = id, !.status = "filled"]
    OBVIOUS
  <2>3. m \in LegsType /\ m.id = id /\ m.status = "filled" /\ m.amends = leg[e].amends
    BY <2>1, <2>2 DEF LegsType, Statuses, Ids
  <2>4. PICK n : n = leg[e].amends + 1
    OBVIOUS
  <2>5. PICK l : l = [NewLeg(id, "new") EXCEPT !.amends = n]
    OBVIOUS
  <2>14. /\ \A u \in Tasks : End(t)[u] = IF u = t THEN NoTask ELSE task[u]
         /\ \A ex : Protecting(End(t), ex) \subseteq Protecting(task, ex)
    BY KindsOfCalls DEF End, TasksOK, Protecting, Protects
  <2>15. Prompt => OneAtATime(End(t))
    BY <1>4 DEF TasksOK
  <2>6. ~ task[t].market =>
           n \in 0 .. MaxAmend + AtATime - 1 - Cardinality(Protecting(End(t), e))
    <3>1. SUFFICES ASSUME ~ task[t].market
                   PROVE  n \in 0 .. MaxAmend + AtATime - 1 - Cardinality(Protecting(End(t), e))
      OBVIOUS
    <3>2. t \in Protecting(task, e)
      BY <1>1, <1>3, <3>1 DEF ProtectCalls, Protecting, Protects
    <3>3. Protecting(End(t), e) = Protecting(task, e) \ {t}
      BY <2>14, KindsOfCalls DEF Protecting, Protects
    <3>4. /\ IsFiniteSet(Protecting(task, e)) /\ Cardinality(Protecting(task, e)) \in 0 .. AtATime
          /\ leg[e].amends \in 0 .. MaxAmend + AtATime - 1 - Cardinality(Protecting(task, e))
      BY Protections DEF TasksOK, AmendsFit
    <3>5. Cardinality(Protecting(End(t), e)) = Cardinality(Protecting(task, e)) - 1
      BY <3>2, <3>3, <3>4, FS_RemoveElement
    <3> QED BY <2>4, <3>4, <3>5, CallsAtATime, BasisConstants
  <2>16. ~ task[t].market => n \in 0 .. MaxAmend + AtATime - 1
    <3>1. Cardinality(Protecting(End(t), e)) \in 0 .. AtATime
      BY <2>15, Protections
    <3> QED BY <2>6, <3>1, CallsAtATime, BasisConstants
  <2>7. /\ l.id = id /\ l.status = "new" /\ l.amends = n
        /\ ~ task[t].market => l \in LegsType
    BY <2>1, <2>5, <2>16 DEF NewLeg, LegsType, Statuses, Ids
  <2>8. PICK z : z = IF task[t].market THEN m ELSE l
    OBVIOUS
  <2>9. z \in LegsType /\ z.id = id /\ z.status = IF task[t].market THEN "filled" ELSE "new"
    BY <2>3, <2>7, <2>8
  <2>10. Replaced(t, id) = [leg EXCEPT ![e] = z]
    BY <1>1, <1>3, <2>2, <2>4, <2>5, <2>8 DEF Replaced
  <2>11. PICK lg : lg = [leg EXCEPT ![e] = z]
    OBVIOUS
  <2>12. lg \in [Ex -> LegsType] /\ \A ex \in Ex : lg[ex] = IF ex = e THEN z ELSE leg[ex]
    BY <2>1, <2>9, <2>11
  <2>13. LegsOK(lg)
    BY <2>1, <2>9, <2>12 DEF LegsOK
  <2>17. AmendsFit(End(t), lg)
    <3> SUFFICES ASSUME NEW ex \in Ex
                 PROVE  lg[ex].amends \in 0 .. MaxAmend + AtATime - 1 - Cardinality(Protecting(End(t), ex))
      BY DEF AmendsFit
    <3>1. CASE ex = e /\ ~ task[t].market
      BY <2>6, <2>7, <2>8, <2>12, <3>1
    <3>2. CASE ex # e \/ task[t].market
      <4>1. lg[ex].amends = leg[ex].amends
        BY <2>3, <2>8, <2>12, <3>2
      <4> QED BY <1>4, <4>1 DEF TasksOK, AmendsFit
    <3> QED BY <3>1, <3>2
  <2>18. ASSUME NEW u \in Tasks
         PROVE  CallFits(End(t)[u], lg)
    <3>1. End(t)[u] \in Calls /\ CallFits(End(t)[u], leg)
      BY <1>4 DEF TasksOK
    <3>2. \A ex \in Ex : leg[ex].id # 0 => lg[ex].id # 0
      BY <2>1, <2>9, <2>12
    <3>3. End(t)[u].kind = "cancel" => \A ex \in End(t)[u].mine : ex \in Ex
      BY <3>1, CallKinds DEF CancelCalls
    <3> QED BY <3>1, <3>2, <3>3 DEF CallFits
  <2>19. TasksOK(End(t), lg)
    BY <1>4, <2>17, <2>18 DEF TasksOK
  <2> QED BY <1>1, <1>3, <2>9, <2>10, <2>11, <2>12, <2>13, <2>19
<1> QED BY <1>2, <1>3

(* Placing an order for a single-leg protection, whatever comes of it.      *)
LEMMA ProtectPlacesTypes ==
    ASSUME TypesInv, NEW t \in Tasks, ProtectPlaces(t)
    PROVE  TypesInv'
<1>1. task[t].kind = "protect" /\ task' = End(t)
      /\ UNCHANGED <<phase, params, polling, timeout, timers, feed, screen, process>>
  BY DEF ProtectPlaces
<1>2. task[t] \in ProtectCalls /\ TasksOK(task, leg)
  BY <1>1, CallKinds DEF TypesInv, TasksOK
<1>3. PICK e \in Ex : e = task[t].ex
  BY <1>2 DEF ProtectCalls
<1>4. PICK o : o = IF task[t].market THEN Executed ELSE Working
  OBVIOUS
<1>5. o \in OrderType /\ (o.open => o.exec < Qty)
  BY <1>4, NewOrders
<1>6. \/ UNCHANGED <<orders, leg>>
      \/ /\ FreeIds(e) # {} /\ orders' = WithOrder(e, FreshId(e), o)
         /\ leg' = Replaced(t, FreshId(e)) \/ leg' = leg
  BY <1>3, <1>4 DEF ProtectPlaces
<1>7. LegsOK(leg) /\ OrdersOK(orders)
  BY DEF TypesInv
<1>8. ScalarsOK' /\ timers' \in Seq(OneShot)
  BY <1>1 DEF TypesInv, ScalarsOK
<1>9. CASE UNCHANGED <<orders, leg>>
  BY <1>1, <1>7, <1>8, <1>9, CallGone
<1>10. CASE /\ FreeIds(e) # {} /\ orders' = WithOrder(e, FreshId(e), o)
            /\ leg' = Replaced(t, FreshId(e)) \/ leg' = leg
  <2>1. PICK id \in OrderIds : id = FreshId(e)
    BY <1>10, FreshOrder
  <2>2. OrdersOK(orders')
    BY <1>5, <1>7, <1>10, <2>1, OrderSet
  <2>3. leg' = Replaced(t, id) \/ leg' = leg
    BY <1>10, <2>1
  <2>4. CASE leg' = leg
    BY <1>1, <1>8, <2>2, <2>4, CallGone
  <2>5. CASE leg' = Replaced(t, id)
    <3>1. LegsOK(leg') /\ TasksOK(End(t), leg')
      BY <1>2, <1>7, <2>5, ReplacedLeg
    <3> QED BY <1>1, <1>8, <2>2, <3>1, TypesNext
  <2> QED BY <2>3, <2>4, <2>5
<1> QED BY <1>6, <1>9, <1>10

LEMMA NoLegs ==
    /\ NoLeg \in LegsType /\ NoLeg.id = 0 /\ NoLeg.status = "none"
    /\ LegsOK([ex \in Ex |-> NoLeg])
BY NotAmended, BasisConstants DEF NoLeg, LegsType, LegsOK

LEMMA PollFailedTypes ==
    ASSUME TypesInv, NEW t \in Tasks, PollFailed(t) \/ Exit(t)
    PROVE  TypesInv'
<1>1. task' = End(t) /\ UNCHANGED <<leg, timers, orders>>
  BY DEF PollFailed, Exit
<1>2. ScalarsOK'
  BY DEF PollFailed, Exit, TypesInv, ScalarsOK
<1> QED BY <1>1, <1>2, CallGone DEF TypesInv

(* The keys that change the screen.                                         *)
LEMMA ScreenKeyTypes ==
    ASSUME TypesInv, UserSelect \/ UserBack
    PROVE  TypesInv'
<1>1. /\ leg' = [ex \in Ex |-> NoLeg] /\ polling' = StoppedPolling /\ timeout' = StoppedTimeout
      /\ UNCHANGED <<phase, timers, process, orders>> /\ Quiet
  BY DEF UserSelect, UserBack, UserMayAct
<1>2. LegsOK(leg')
  BY <1>1, NoLegs
<1>3. ScalarsOK'
  BY <1>1, Handles DEF UserSelect, UserBack, TypesInv, ScalarsOK
<1>4. TasksOK(task', leg')
  <2>1. CASE UserBack
    <3>1. task' = Detach(task, Ex) /\ TasksOK(task, leg)
      BY <2>1 DEF UserBack, TypesInv
    <3> QED BY <1>2, <3>1, LegsReplaced
  <2>2. CASE UserSelect
    <3> DEFINE r == [kind |-> "recover", seen |-> [ex \in Ex |-> OpenIds(ex)]]
    <3>1. r \in RecoverCalls
      BY DEF RecoverCalls, OpenIds
    <3>2. r \in Calls /\ CallFits(r, leg) /\ r.kind # "protect"
      BY <3>1, KindsOfCalls DEF CallFits
    <3>3. task' = Detach(Begin(r), Ex) /\ HasSlot
      BY <2>2 DEF UserSelect, MayBegin
    <3> HIDE DEF r
    <3>4. TasksOK(Begin(r), leg)
      BY <1>1, <3>2, <3>3, BeginFits DEF TypesInv, Quiet
    <3> QED BY <1>2, <3>3, <3>4, LegsReplaced
  <2> QED BY <2>1, <2>2
<1> QED BY <1>1, <1>2, <1>3, <1>4, TypesNext DEF TypesInv

(* A recovered leg is none, one that an exchange lists, or the one of now.  *)
LEMMA RecoveredLeg ==
    ASSUME TypesInv, NEW t \in Tasks, task[t].kind = "recover", NEW ex \in Ex,
           NEW l \in RecoveredLegs(t, ex)
    PROVE  /\ l \in LegsType /\ (l.id = 0 <=> l.status = "none")
           /\ \/ l = NoLeg /\ (task[t].seen[ex] = {} \/ OpenIds(ex) = {})
              \/ \E id \in task[t].seen[ex] \union OpenIds(ex) :
                    /\ l.id = id /\ (orders[ex][id].open => l.status = Status(ex, id))
              \/ l = leg[ex] /\ "query failed" \in Faults
<1>1. task[t] \in RecoverCalls
  BY CallKinds DEF TypesInv, TasksOK
<1>2. task[t].seen[ex] \subseteq OrderIds /\ OpenIds(ex) \subseteq OrderIds
  BY <1>1 DEF RecoverCalls, OpenIds
<1>3. \/ l = NoLeg /\ (task[t].seen[ex] = {} \/ OpenIds(ex) = {})
      \/ \E id \in task[t].seen[ex] \union OpenIds(ex) :
           l = NewLeg(id, IF orders[ex][id].open THEN Status(ex, id) ELSE "new")
      \/ l = leg[ex] /\ "query failed" \in Faults
  BY DEF RecoveredLegs
<1>4. CASE l = NoLeg /\ (task[t].seen[ex] = {} \/ OpenIds(ex) = {})
  BY <1>4, NoLegs
<1>5. CASE l = leg[ex] /\ "query failed" \in Faults
  BY <1>5 DEF TypesInv, LegsOK
<1>6. ASSUME NEW id \in task[t].seen[ex] \union OpenIds(ex),
             l = NewLeg(id, IF orders[ex][id].open THEN Status(ex, id) ELSE "new")
      PROVE  /\ l \in LegsType /\ (l.id = 0 <=> l.status = "none")
             /\ l.id = id /\ (orders[ex][id].open => l.status = Status(ex, id))
  <2>1. id \in OrderIds /\ id \in 0 .. MaxOrders /\ id # 0
    BY <1>2, BasisConstants DEF OrderIds
  <2>2. orders[ex][id] \in OrderType
    BY <2>1 DEF TypesInv, OrdersOK
  <2>3. PICK s : s = IF orders[ex][id].open THEN Status(ex, id) ELSE "new"
    OBVIOUS
  <2>4. s \in Statuses /\ s # "none"
    BY <2>2, <2>3, StatusFacts DEF Status, Statuses
  <2>5. l = NewLeg(id, s)
    BY <1>6, <2>3
  <2>6. l \in LegsType /\ l.id = id /\ l.status = s
    BY <2>1, <2>4, <2>5, NotAmended, BasisConstants DEF NewLeg, LegsType
  <2> QED BY <2>1, <2>3, <2>4, <2>6
<1> QED BY <1>3, <1>4, <1>5, <1>6

LEMMA RecoveredTypes ==
    ASSUME TypesInv, NEW t \in Tasks, Recovered(t)
    PROVE  TypesInv'
<1>1. /\ task[t].kind = "recover" /\ task' = Detach(End(t), {ex \in Ex : leg'[ex] # leg[ex]})
      /\ UNCHANGED <<params, timeout, timers, feed, screen, process, orders>>
  BY DEF Recovered
<1>2. PICK lg : /\ lg \in [Ex -> UNION {RecoveredLegs(t, ex) : ex \in Ex}]
                /\ \A ex \in Ex : lg[ex] \in RecoveredLegs(t, ex)
                /\ leg' = lg
  BY DEF Recovered
<1>3. \A ex \in Ex : lg[ex] \in LegsType /\ (lg[ex].id = 0 <=> lg[ex].status = "none")
  BY <1>1, <1>2, RecoveredLeg
<1>4. LegsOK(leg')
  BY <1>2, <1>3 DEF LegsOK
<1>5. TasksOK(End(t), leg)
  BY CallEnds DEF TypesInv
<1>6. TasksOK(task', leg')
  <2>1. PICK exs : exs = {ex \in Ex : leg'[ex] # leg[ex]}
    OBVIOUS
  <2>2. \A ex \in Ex : ex \notin exs => leg'[ex] = leg[ex]
    BY <2>1
  <2> QED BY <1>1, <1>4, <1>5, <2>1, <2>2, LegsReplaced
<1>7. ScalarsOK'
  <2>1. phase' \in Phases /\ polling' \in [own : BOOLEAN, leaked : BOOLEAN]
    BY Handles DEF Recovered, Phases, TypesInv, ScalarsOK
  <2> QED BY <1>1, <2>1 DEF TypesInv, ScalarsOK
<1> QED BY <1>1, <1>4, <1>6, <1>7, TypesNext DEF TypesInv

(* The environment: fills, prices, time and an end without ceremony.        *)
LEMMA EnvironmentTypes ==
    ASSUME TypesInv, Environment
    PROVE  TypesInv'
<1>1. CASE FeedChanges \/ ForceExit \/ Exited
  <2>1. UNCHANGED <<leg, timers, task, orders>>
    BY <1>1 DEF FeedChanges, ForceExit, Exited, vars
  <2>2. ScalarsOK'
    <3>1. CASE FeedChanges
      BY <3>1, BasisConstants DEF FeedChanges, TypesInv, ScalarsOK
    <3>2. CASE ForceExit
      BY <3>2 DEF ForceExit, TypesInv, ScalarsOK
    <3>3. CASE Exited
      BY <3>3 DEF Exited, vars, TypesInv, ScalarsOK
    <3> QED BY <1>1, <3>1, <3>2, <3>3
  <2> QED BY <2>1, <2>2, TypesNext DEF TypesInv
<1>2. ASSUME NEW ex \in Ex, NEW id \in OrderIds, Fill(ex, id)
      PROVE  TypesInv'
  <2>1. UNCHANGED <<phase, leg, params, polling, timeout, timers, task, feed, screen, process>>
    BY <1>2 DEF Fill
  <2>2. OrdersOK(orders')
    BY <1>2, OrderFilled DEF TypesInv
  <2>3. ScalarsOK'
    BY <2>1 DEF TypesInv, ScalarsOK
  <2> QED BY <2>1, <2>2, <2>3, TypesNext DEF TypesInv
<1>3. ASSUME NEW ex \in Ex, GraceElapses(ex)
      PROVE  TypesInv'
  <2>1. leg' = [leg EXCEPT ![ex].old = TRUE]
        /\ UNCHANGED <<phase, params, polling, timeout, timers, task, feed, screen, process, orders>>
    BY <1>3 DEF GraceElapses
  <2>2. PICK l : l = [leg[ex] EXCEPT !.old = TRUE]
    OBVIOUS
  <2>3. LegsOK(leg)
    BY DEF TypesInv
  <2>4. l \in LegsType /\ l.id = leg[ex].id /\ l.status = leg[ex].status /\ l.amends = leg[ex].amends
    BY <2>2, <2>3 DEF LegsOK, LegsType
  <2>5. leg' = [leg EXCEPT ![ex] = l]
    BY <2>1, <2>2
  <2>6. leg' \in [Ex -> LegsType] /\ \A e \in Ex : leg'[e] = IF e = ex THEN l ELSE leg[e]
    BY <2>3, <2>4, <2>5 DEF LegsOK
  <2>7. LegsOK(leg')
    BY <2>3, <2>4, <2>6 DEF LegsOK
  <2>8. TasksOK(task, leg')
    BY <2>4, <2>6, LegsTouched DEF TypesInv
  <2>9. ScalarsOK'
    BY <2>1 DEF TypesInv, ScalarsOK
  <2> QED BY <2>1, <2>7, <2>8, <2>9, TypesNext DEF TypesInv
<1> QED BY <1>1, <1>2, <1>3 DEF Environment

LEMMA TypesInit == Init => TypesInv
<1> SUFFICES ASSUME Init PROVE TypesInv
  OBVIOUS
<1>1. ScalarsOK /\ timers \in Seq(OneShot)
  <2>1. ScalarsOK
    BY DEF Init, ScalarsOK, Phases
  <2>2. timers = <<>>
    BY DEF Init
  <2> QED BY <2>1, <2>2
<1>2. LegsOK(leg)
  BY NoLegs DEF Init
<1>3. OrdersOK(orders)
  <2>1. PICK o : o = [open |-> FALSE, exec |-> 0]
    OBVIOUS
  <2>2. o \in OrderType /\ ~ o.open
    BY <2>1, BasisConstants DEF OrderType
  <2>3. orders = [ex \in Ex |-> [id \in OrderIds |-> o]]
    BY <2>1 DEF Init
  <2> QED BY <2>2, <2>3 DEF OrdersOK
<1>4. TasksOK(task, leg)
  <2>1. task = [t \in Tasks |-> NoTask]
    BY DEF Init
  <2>2. \A t \in Tasks : task[t] = NoTask
    BY <2>1
  <2>3. AmendsFit(task, leg)
    <3> SUFFICES ASSUME NEW ex \in Ex
                 PROVE  leg[ex].amends \in 0 .. MaxAmend + AtATime - 1 - Cardinality(Protecting(task, ex))
      BY DEF AmendsFit
    <3>1. Protecting(task, ex) = {}
      BY <2>2, KindsOfCalls DEF Protecting, Protects
    <3>2. Cardinality(Protecting(task, ex)) = 0 /\ leg[ex].amends = 0
      BY <3>1, FS_EmptySet DEF Init, NoLeg
    <3> QED BY <3>2, CallsAtATime, BasisConstants
  <2> QED BY <2>1, <2>2, <2>3, KindsOfCalls, NoTaskFits DEF TasksOK, OneAtATime
<1> QED BY <1>1, <1>2, <1>3, <1>4 DEF TypesInv

LEMMA TypesStep ==
    ASSUME TypesInv, [Next]_vars
    PROVE  TypesInv'
<1>1. CASE UNCHANGED vars
  <2>1. UNCHANGED <<phase, leg, params, polling, timeout, timers, task, feed, screen, process, orders>>
    BY <1>1 DEF vars
  <2>2. ScalarsOK'
    BY <2>1 DEF TypesInv, ScalarsOK
  <2> QED BY <2>1, <2>2, TypesNext DEF TypesInv
<1>2. CASE TimeoutFires \/ ReturnToIdle \/ ReExecute \/ Tick \/ PollStart
  BY <1>2, TimeoutTypes, TimerTypes, ExecutionTypes, PollStartTypes
<1>3. ASSUME NEW t \in Tasks,
             \/ ExecPriced(t) \/ ExecUnpriced(t) \/ ExecPlaced(t) \/ ExecRejected(t)
             \/ DeadExecEnds(t)
             \/ CancelledByKey(t) \/ CancelledForAmend(t) \/ CancelledByTimeout(t)
             \/ PollFailed(t) \/ PollAnswered(t) \/ ProtectCancels(t) \/ ProtectPlaces(t)
             \/ Recovered(t) \/ Exit(t)
             \/ \E ex \in Ex : PlacementLands(t, ex) \/ CancelLands(t, ex)
      PROVE  TypesInv'
  <2>1. CASE ExecPriced(t) \/ ExecUnpriced(t) \/ ExecRejected(t) \/ DeadExecEnds(t) \/ ExecPlaced(t)
    BY <2>1, PlacingTypes, PlacedTypes
  <2>2. CASE CancelledByKey(t) \/ CancelledForAmend(t) \/ CancelledByTimeout(t)
             \/ PollFailed(t) \/ Exit(t)
    BY <2>2, CancelEndsTypes, PollFailedTypes
  <2>3. CASE PollAnswered(t) \/ ProtectCancels(t) \/ ProtectPlaces(t) \/ Recovered(t)
    BY <2>3, PollAnsweredTypes, ProtectCancelsTypes, ProtectPlacesTypes, RecoveredTypes
  <2>4. CASE \E ex \in Ex : PlacementLands(t, ex) \/ CancelLands(t, ex)
    BY <2>4, LandingTypes, CancelLandsTypes
  <2> QED BY <1>3, <2>1, <2>2, <2>3, <2>4
<1>4. CASE User
  BY <1>4, ExecutionTypes, CancelKeyTypes, ScreenKeyTypes DEF User
<1>5. CASE Environment
  BY <1>5, EnvironmentTypes
<1> QED BY <1>1, <1>2, <1>3, <1>4, <1>5 DEF Next, Program

(* Only the answer to a poll can be applied to the wrong order.             *)
LEMMA MisreadStep ==
    ASSUME [Next]_vars
    PROVE  \/ misread' \subseteq misread
           \/ \E t \in Tasks : task[t].kind = "poll" /\ \E ans : misread' = Misread(t, ans)
<1>1. CASE UNCHANGED vars
  BY <1>1 DEF vars
<1>2. ASSUME NEW why, NEW to
      PROVE  StartCancel(why, to) => misread' = misread
  BY DEF StartCancel
<1>3. ASSUME NEW left
      PROVE  Execute(left) => misread' = misread
  BY DEF Execute
<1>4. CASE TimeoutFires \/ ReturnToIdle \/ ReExecute \/ Tick \/ PollStart
  BY <1>2, <1>3, <1>4 DEF TimeoutFires, ReturnToIdle, ReExecute, Tick, PollStart
<1>5. CASE User
  <2>1. CASE UserExecute \/ UserAmend \/ UserCancel \/ UserQuit
    BY <1>2, <1>3, <2>1 DEF UserExecute, UserAmend, UserCancel, UserQuit
  <2>2. CASE UserSelect \/ UserBack
    BY <2>2 DEF UserSelect, UserBack
  <2> QED BY <1>5, <2>1, <2>2 DEF User
<1>6. CASE Environment
  BY <1>6 DEF Environment, FeedChanges, ForceExit, Exited, GraceElapses, Fill, vars
<1>7. ASSUME NEW t \in Tasks,
             \/ ExecPriced(t) \/ ExecUnpriced(t) \/ ExecPlaced(t) \/ ExecRejected(t)
             \/ DeadExecEnds(t)
             \/ CancelledByKey(t) \/ CancelledForAmend(t) \/ CancelledByTimeout(t)
             \/ PollFailed(t) \/ PollAnswered(t) \/ ProtectCancels(t) \/ ProtectPlaces(t)
             \/ Recovered(t) \/ Exit(t)
             \/ \E ex \in Ex : PlacementLands(t, ex) \/ CancelLands(t, ex)
      PROVE  \/ misread' \subseteq misread
             \/ task[t].kind = "poll" /\ \E ans : misread' = Misread(t, ans)
  <2>1. CASE PollAnswered(t)
    BY <2>1 DEF PollAnswered
  <2>2. CASE ~ PollAnswered(t)
    BY <1>7, <2>2 DEF ExecPriced, ExecUnpriced, ExecPlaced, ExecRejected, DeadExecEnds,
       CancelledByKey, CancelledForAmend, CancelledByTimeout, PollFailed, ProtectCancels,
       ProtectPlaces, Recovered, Exit, PlacementLands, CancelLands
  <2> QED BY <2>1, <2>2
<1> QED BY <1>1, <1>4, <1>5, <1>6, <1>7 DEF Next, Program

(* The types, status and id of a leg that come and go together, and the     *)
(* amends within MAX_AMEND_COUNT but for one more of every other call in    *)
(* flight: however many calls overlap, and exactly when answers are prompt. *)
THEOREM BasisTypeOK == Spec => []TypeOK
<1> DEFINE Inv == TypesInv /\ misread \subseteq Ex
<1>1. Init => Inv
  BY TypesInit DEF Init
<1>2. Inv /\ [Next]_vars => Inv'
  <2> SUFFICES ASSUME Inv, [Next]_vars PROVE Inv'
    OBVIOUS
  <2>1. misread' \subseteq Ex
    BY MisreadStep DEF Misread
  <2> QED BY <2>1, TypesStep
<1>3. Inv => TypeOK
  <2> SUFFICES ASSUME TypesInv, misread \subseteq Ex PROVE TypeOK
    OBVIOUS
  <2>1. \A t \in Tasks : task[t].kind \in {"none", "exec", "poll", "protect", "cancel", "recover"}
    BY CallKinds DEF TypesInv, TasksOK
  <2>2. \A i \in DOMAIN timers : timers[i] \in [act : {"idle", "execute"}, left : 0 .. 4]
    <3>1. timers \in Seq(OneShot)
      BY DEF TypesInv
    <3>2. \A i \in DOMAIN timers : timers[i] \in OneShot
      BY <3>1
    <3> QED BY <3>2 DEF OneShot
  <2>3. leg \in [Ex -> LegsType] /\ \A ex \in Ex : leg[ex].id = 0 <=> leg[ex].status = "none"
    BY DEF TypesInv, LegsOK
  <2>4. orders \in [Ex -> [OrderIds -> [open : BOOLEAN, exec : 0 .. Qty]]]
    BY DEF TypesInv, OrdersOK, OrderType
  <2>5. ScalarsOK
    BY DEF TypesInv
  <2> QED BY <2>1, <2>2, <2>3, <2>4, <2>5, Zenon DEF TypeOK, ScalarsOK
<1> HIDE DEF Inv
<1> QED BY <1>1, <1>2, <1>3, PTL DEF Spec

-----------------------------------------------------------------------------
(* What the legs and the answers under way say of executed orders.          *)
Answered(r, os) ==
    r.kind = "poll" =>
        \A ex \in Ex : r.seen[ex] = "filled" => os[ex][r.asked[ex]].exec = Qty
LegsExecuted(lg, os, mr) ==
    \A ex \in Ex \ mr : lg[ex].status = "filled" => os[ex][lg[ex].id].exec = Qty
ExecInv == LegsExecuted(leg, orders, misread) /\ \A t \in Tasks : Answered(task[t], orders)

(* The orders that a leg or a question names stay executed; that is all     *)
(* most steps have to do with them.                                         *)
Names(ex, id) == id = leg[ex].id \/ \E t \in Tasks : task[t].kind = "poll" /\ id = task[t].asked[ex]
OrdersKept(os) ==
    \A ex \in Ex, id \in OrderIds :
        Names(ex, id) /\ orders[ex][id].exec = Qty => os[ex][id].exec = Qty
LegsKept(lg, mr) ==
    \A ex \in Ex \ mr :
        lg[ex].status = "filled" => /\ lg[ex].id = leg[ex].id /\ leg[ex].status = "filled"
                                    /\ ex \notin misread
PollsKept(tk) == \A t \in Tasks : tk[t].kind = "poll" => tk[t] = task[t]

(* The order of a leg, and of a question, has an id.                        *)
LEMMA OrdersOfLegs ==
    ASSUME TypesInv, NEW ex \in Ex
    PROVE  /\ leg[ex] \in LegsType /\ (leg[ex].id # 0 => leg[ex].id \in OrderIds)
           /\ leg[ex].status = "filled" => leg[ex].id # 0
           /\ \A t \in Tasks : task[t].kind = "poll" =>
                 /\ task[t].seen[ex] = "filled" => task[t].asked[ex] # 0
                 /\ task[t].asked[ex] # 0 => task[t].asked[ex] \in OrderIds
<1>1. LegsOK(leg)
  BY DEF TypesInv
<1>2. leg[ex] \in LegsType /\ (leg[ex].id = 0 <=> leg[ex].status = "none")
  BY <1>1 DEF LegsOK
<1>3. leg[ex].id # 0 => leg[ex].id \in OrderIds
  BY <1>2, BasisConstants DEF LegsType, OrderIds
<1>4. ASSUME NEW t \in Tasks, task[t].kind = "poll"
      PROVE  /\ task[t].seen[ex] = "filled" => task[t].asked[ex] # 0
             /\ task[t].asked[ex] # 0 => task[t].asked[ex] \in OrderIds
  <2>1. task[t] \in PollCalls /\ CallFits(task[t], leg)
    BY <1>4, CallKinds DEF TypesInv, TasksOK
  <2>2. task[t].seen[ex] = "filled" => task[t].asked[ex] # 0
    BY <1>4, <2>1 DEF CallFits
  <2>3. task[t].asked[ex] \in Ids
    BY <2>1 DEF PollCalls
  <2> QED BY <2>2, <2>3, BasisConstants DEF Ids, OrderIds
<1> QED BY <1>2, <1>3, <1>4

LEMMA PollsAnswered ==
    ASSUME TypesInv, ExecInv, OrdersKept(orders'), PollsKept(task'), NEW t \in Tasks
    PROVE  Answered(task'[t], orders')
<1> SUFFICES ASSUME task'[t].kind = "poll", NEW ex \in Ex, task'[t].seen[ex] = "filled"
             PROVE  orders'[ex][task'[t].asked[ex]].exec = Qty
  BY DEF Answered
<1>1. task'[t] = task[t] /\ task[t].kind = "poll" /\ Answered(task[t], orders)
  BY DEF PollsKept, ExecInv
<1>2. orders[ex][task[t].asked[ex]].exec = Qty
  BY <1>1 DEF Answered
<1>3. task[t].asked[ex] \in OrderIds
  BY <1>1, OrdersOfLegs
<1>4. Names(ex, task[t].asked[ex])
  BY <1>1 DEF Names
<1> QED BY <1>1, <1>2, <1>3, <1>4 DEF OrdersKept

LEMMA ExecNext ==
    ASSUME TypesInv, ExecInv, LegsExecuted(leg', orders', misread'), OrdersKept(orders'),
           PollsKept(task')
    PROVE  ExecInv'
BY PollsAnswered DEF ExecInv

(* A leg that says filled and is left alone is still right.                 *)
LEMMA LegStaysExecuted ==
    ASSUME TypesInv, ExecInv, OrdersKept(orders'), NEW ex \in Ex, ex \notin misread,
           leg[ex].status = "filled"
    PROVE  orders'[ex][leg[ex].id].exec = Qty
<1>1. orders[ex][leg[ex].id].exec = Qty
  BY DEF ExecInv, LegsExecuted
<1>2. leg[ex].id \in OrderIds
  BY OrdersOfLegs
<1> QED BY <1>1, <1>2 DEF OrdersKept, Names

LEMMA ExecKept ==
    ASSUME TypesInv, ExecInv, OrdersKept(orders'), LegsKept(leg', misread'), PollsKept(task')
    PROVE  ExecInv'
<1>1. LegsExecuted(leg', orders', misread')
  BY LegStaysExecuted DEF LegsExecuted, LegsKept
<1> QED BY <1>1, ExecNext

(* When exchanges answer promptly, a call in flight is the only one.        *)
LEMMA AloneInFlight ==
    ASSUME Prompt, TypesInv, NEW t \in Tasks, task[t].kind # "none"
    PROVE  \A u \in Tasks : u # t => task[u].kind = "none"
BY DEF TypesInv, TasksOK, OneAtATime

LEMMA EndKeepsPolls ==
    ASSUME TypesInv, NEW t \in Tasks
    PROVE  PollsKept(End(t))
<1>1. \A u \in Tasks : End(t)[u] = IF u = t THEN NoTask ELSE task[u]
  BY DEF End, TypesInv, TasksOK
<1> QED BY <1>1, KindsOfCalls DEF PollsKept

LEMMA CallKeepsPolls ==
    ASSUME TypesInv, NEW t \in Tasks, NEW r, r.kind # "poll"
    PROVE  PollsKept([task EXCEPT ![t] = r])
<1>1. \A u \in Tasks : [task EXCEPT ![t] = r][u] = IF u = t THEN r ELSE task[u]
  BY DEF TypesInv, TasksOK
<1> QED BY <1>1 DEF PollsKept

LEMMA BeginKeepsPolls ==
    ASSUME TypesInv, HasSlot, NEW r, r.kind # "poll"
    PROVE  PollsKept(Begin(r))
<1>1. PICK s \in Tasks : s = Slot
  BY DEF HasSlot, Slot, Idle
<1> QED BY <1>1, CallKeepsPolls DEF Begin

LEMMA DetachKeepsPolls ==
    ASSUME NEW tk, NEW exs, PollsKept(tk), \A t \in Tasks : tk[t] \in Calls
    PROVE  PollsKept(Detach(tk, exs))
<1> SUFFICES ASSUME NEW t \in Tasks, Detach(tk, exs)[t].kind = "poll"
             PROVE  Detach(tk, exs)[t] = task[t]
  BY DEF PollsKept
<1>1. CASE tk[t].kind = "protect" /\ tk[t].ex \in exs
  <2>1. Detach(tk, exs)[t] = [tk[t] EXCEPT !.mine = FALSE]
    BY <1>1 DEF Detach
  <2>2. tk[t] \in ProtectCalls
    BY <1>1, CallKinds
  <2>3. Detach(tk, exs)[t].kind = "protect"
    BY <2>1, <2>2 DEF ProtectCalls
  <2> QED BY <2>3
<1>2. CASE tk[t].kind = "cancel"
  <2>1. Detach(tk, exs)[t] = [tk[t] EXCEPT !.mine = @ \ exs]
    BY <1>2 DEF Detach
  <2>2. tk[t] \in CancelCalls
    BY <1>2, CallKinds
  <2>3. Detach(tk, exs)[t].kind = "cancel"
    BY <2>1, <2>2 DEF CancelCalls
  <2> QED BY <2>3
<1>3. CASE ~ (tk[t].kind = "protect" /\ tk[t].ex \in exs) /\ tk[t].kind # "cancel"
  <2>1. Detach(tk, exs)[t] = tk[t]
    BY <1>3 DEF Detach
  <2> QED BY <2>1 DEF PollsKept
<1> QED BY <1>1, <1>2, <1>3

LEMMA Unmoved ==
    /\ UNCHANGED orders => OrdersKept(orders')
    /\ UNCHANGED <<leg, misread>> => LegsKept(leg', misread')
    /\ UNCHANGED task => PollsKept(task')
BY DEF OrdersKept, LegsKept, PollsKept

(* The steps that leave legs and orders alone and ask nothing.              *)
LEMMA QuietSteps ==
    ASSUME TypesInv, ExecInv, UNCHANGED <<leg, misread, orders>>, PollsKept(task')
    PROVE  ExecInv'
BY Unmoved, ExecKept

LEMMA ExecuteSteps ==
    ASSUME TypesInv, ExecInv, UserExecute \/ ReExecute \/ ReturnToIdle \/ Tick
    PROVE  ExecInv'
<1>1. CASE ReturnToIdle \/ Tick
  <2>1. UNCHANGED <<leg, misread, orders, task>>
    BY <1>1 DEF ReturnToIdle, Tick
  <2> QED BY <2>1, Unmoved, QuietSteps
<1>2. ASSUME NEW left, Execute(left)
      PROVE  ExecInv'
  <2>1. CASE MayExecute
    <3> DEFINE r == [kind |-> "exec", stage |-> "price", at |-> [ex \in Ex |-> 0]]
    <3>1. HasSlot /\ task' = Begin(r) /\ UNCHANGED <<leg, misread, orders>> /\ r.kind # "poll"
      BY <1>2, <2>1 DEF Execute
    <3> HIDE DEF r
    <3> QED BY <3>1, BeginKeepsPolls, QuietSteps
  <2>2. CASE ~ MayExecute
    BY <1>2, <2>2, Unmoved, QuietSteps DEF Execute
  <2> QED BY <2>1, <2>2
<1>3. \E left : Execute(left) \/ (ReturnToIdle \/ Tick)
  BY DEF UserExecute, ReExecute
<1> QED BY <1>1, <1>2, <1>3

LEMMA PlacingSteps ==
    ASSUME TypesInv, ExecInv, NEW t \in Tasks,
           \/ ExecPriced(t) \/ ExecUnpriced(t) \/ ExecRejected(t) \/ DeadExecEnds(t)
           \/ CancelledByKey(t) \/ CancelledForAmend(t) \/ CancelledByTimeout(t)
           \/ PollFailed(t) \/ Exit(t)
    PROVE  ExecInv'
<1>1. UNCHANGED <<leg, misread, orders>>
  BY DEF ExecPriced, ExecUnpriced, ExecRejected, DeadExecEnds, CancelledByKey, CancelledForAmend,
         CancelledByTimeout, PollFailed, Exit
<1>2. CASE task' = End(t)
  BY <1>1, <1>2, EndKeepsPolls, QuietSteps
<1>3. CASE task[t].kind = "exec" /\ \E stage : task' = [task EXCEPT ![t].stage = stage]
  <2>1. PICK stage : task' = [task EXCEPT ![t].stage = stage]
    BY <1>3
  <2>2. PICK r : r = [task[t] EXCEPT !.stage = stage]
    OBVIOUS
  <2>3. task[t] \in ExecCalls
    BY <1>3, CallKinds DEF TypesInv, TasksOK
  <2>4. r.kind # "poll" /\ task' = [task EXCEPT ![t] = r]
    BY <2>1, <2>2, <2>3 DEF ExecCalls
  <2> QED BY <1>1, <2>4, CallKeepsPolls, QuietSteps
<1> QED BY <1>2, <1>3 DEF ExecPriced, ExecUnpriced, ExecRejected, DeadExecEnds, CancelledByKey,
         CancelledForAmend, CancelledByTimeout, PollFailed, Exit

(* A new order gets an id that no leg and no question names.                *)
LEMMA OrderPlaced ==
    ASSUME TypesInv, NEW ex \in Ex, FreeIds(ex) # {}, NEW o \in OrderType
    PROVE  OrdersKept(WithOrder(ex, FreshId(ex), o))
<1>1. PICK id \in OrderIds : id = FreshId(ex)
  BY FreshOrder
<1>2. ~ Names(ex, id)
  BY <1>1, FreshOrder DEF Names
<1>3. orders \in [Ex -> [OrderIds -> OrderType]]
  BY DEF TypesInv, OrdersOK
<1>4. \A e \in Ex, i \in OrderIds :
         e # ex \/ i # id => WithOrder(ex, id, o)[e][i] = orders[e][i]
  BY <1>3 DEF WithOrder
<1> QED BY <1>1, <1>2, <1>4 DEF OrdersKept

LEMMA LandingStep ==
    ASSUME TypesInv, ExecInv, NEW t \in Tasks, NEW ex \in Ex, PlacementLands(t, ex)
    PROVE  ExecInv'
<1>1. task[t].kind = "exec" /\ UNCHANGED <<leg, misread>>
  BY DEF PlacementLands
<1>2. task[t] \in ExecCalls
  BY <1>1, CallKinds DEF TypesInv, TasksOK
<1>3. PollsKept(task')
  <2>1. PICK v : task' = [task EXCEPT ![t].at[ex] = v]
    BY DEF PlacementLands
  <2>2. PICK r : r = [task[t] EXCEPT !.at[ex] = v]
    OBVIOUS
  <2>3. r.kind = "exec" /\ task' = [task EXCEPT ![t] = r]
    BY <1>2, <2>1, <2>2 DEF ExecCalls
  <2> QED BY <2>3, CallKeepsPolls
<1>4. OrdersKept(orders')
  BY Unmoved, NewOrders, OrderPlaced DEF PlacementLands
<1> QED BY <1>1, <1>3, <1>4, Unmoved, ExecKept

LEMMA PlacedStep ==
    ASSUME TypesInv, ExecInv, NEW t \in Tasks, ExecPlaced(t)
    PROVE  ExecInv'
<1>1. leg' = [ex \in Ex |-> NewLeg(task[t].at[ex], "new")] /\ UNCHANGED orders
      /\ task' = Detach(End(t), Ex)
  BY DEF ExecPlaced
<1>2. LegsKept(leg', misread')
  BY <1>1 DEF LegsKept, NewLeg
<1>3. PollsKept(task')
  <2>1. \A u \in Tasks : End(t)[u] \in Calls
    BY CallEnds DEF TypesInv, TasksOK
  <2> QED BY <1>1, <2>1, EndKeepsPolls, DetachKeepsPolls
<1> QED BY <1>1, <1>2, <1>3, Unmoved, ExecKept

LEMMA CancelBeginsStep ==
    ASSUME TypesInv, ExecInv, NEW why, NEW to, StartCancel(why, to)
    PROVE  ExecInv'
<1> DEFINE r == CancelTask(why)
<1>1. HasSlot /\ task' = Begin(r) /\ UNCHANGED <<leg, misread, orders>> /\ r.kind # "poll"
  BY DEF StartCancel, MayBegin, CancelTask
<1> HIDE DEF r
<1> QED BY <1>1, BeginKeepsPolls, QuietSteps

LEMMA CancelSteps ==
    ASSUME TypesInv, ExecInv, UserCancel \/ UserAmend \/ UserQuit \/ TimeoutFires
    PROVE  ExecInv'
<1>1. CASE \E why, to : StartCancel(why, to)
  BY <1>1, CancelBeginsStep
<1>2. CASE UNCHANGED <<leg, misread, orders, task>>
  BY <1>2, Unmoved, QuietSteps
<1> QED BY <1>1, <1>2 DEF UserCancel, UserAmend, UserQuit, TimeoutFires

LEMMA CancelLandsStep ==
    ASSUME TypesInv, ExecInv, NEW t \in Tasks, NEW ex \in Ex, CancelLands(t, ex)
    PROVE  ExecInv'
<1>1. task[t].kind = "cancel" /\ task[t].wait[ex] > 0
  BY DEF CancelLands
<1>2. task[t] \in CancelCalls
  BY <1>1, CallKinds DEF TypesInv, TasksOK
<1>3. PICK id : id = task[t].wait[ex]
  OBVIOUS
<1>4. id \in OrderIds
  BY <1>1, <1>2, <1>3, BasisConstants DEF CancelCalls, Ids, OrderIds
<1>5. PICK out \in CancelOutcomes(ex, id) :
        /\ orders' = AfterCancel(ex, id, out)
        /\ \/ leg' = [leg EXCEPT ![ex].status = "canceled"] /\ misread' = misread \ {ex}
           \/ UNCHANGED <<leg, misread>>
  BY <1>3 DEF CancelLands
<1>6. OrdersKept(orders')
  BY <1>4, <1>5, OutcomeFacts, OrderCancelled DEF TypesInv, OrdersKept
<1>7. LegsKept(leg', misread')
  <2>1. CASE UNCHANGED <<leg, misread>>
    BY <2>1, Unmoved
  <2>2. CASE leg' = [leg EXCEPT ![ex].status = "canceled"] /\ misread' = misread \ {ex}
    <3>1. PICK l : l = [leg[ex] EXCEPT !.status = "canceled"]
      OBVIOUS
    <3>2. leg[ex] \in LegsType /\ leg \in [Ex -> LegsType]
      BY DEF TypesInv, LegsOK
    <3>3. l.status = "canceled" /\ l.id = leg[ex].id
      BY <3>1, <3>2 DEF LegsType
    <3>4. leg' = [leg EXCEPT ![ex] = l]
      BY <2>2, <3>1
    <3>5. \A e \in Ex : leg'[e] = IF e = ex THEN l ELSE leg[e]
      BY <3>2, <3>4
    <3> QED BY <2>2, <3>3, <3>5 DEF LegsKept
  <2> QED BY <1>5, <2>1, <2>2
<1>8. PollsKept(task')
  <2>1. PICK r : r = [task[t] EXCEPT !.wait[ex] = 0]
    OBVIOUS
  <2>2. r.kind # "poll"
    BY <1>2, <2>1 DEF CancelCalls
  <2>3. task' = [task EXCEPT ![t] = r]
    BY <2>1 DEF CancelLands
  <2> QED BY <2>2, <2>3, CallKeepsPolls
<1> QED BY <1>6, <1>7, <1>8, ExecKept

(* The question is about the orders of the legs, and starts from what they  *)
(* are.                                                                     *)
LEMMA PollStartsStep ==
    ASSUME TypesInv, ExecInv, PollStart
    PROVE  ExecInv'
<1> DEFINE r == [kind |-> "poll", asked |-> [ex \in Ex |-> leg[ex].id],
                 seen |-> [ex \in Ex |-> IF leg[ex].id > 0
                                         THEN Status(ex, leg[ex].id) ELSE "none"]]
<1>1. task' = Begin(r) /\ HasSlot /\ UNCHANGED <<leg, misread, orders>>
  BY DEF PollStart, MayBegin
<1>2. /\ \A ex \in Ex : r.asked[ex] = leg[ex].id
      /\ \A ex \in Ex : r.seen[ex] = "filled" => leg[ex].id > 0 /\ Status(ex, leg[ex].id) = "filled"
  OBVIOUS
<1> HIDE DEF r
<1>3. ASSUME NEW ex \in Ex, r.seen[ex] = "filled"
      PROVE  orders[ex][r.asked[ex]].exec = Qty
  <2>1. leg[ex].id > 0 /\ Status(ex, leg[ex].id) = "filled" /\ r.asked[ex] = leg[ex].id
    BY <1>2, <1>3
  <2>2. leg[ex].id \in OrderIds
    BY <2>1, OrdersOfLegs
  <2>3. orders[ex][leg[ex].id] \in OrderType
    BY <2>2 DEF TypesInv, OrdersOK
  <2> QED BY <2>1, <2>3, StatusFacts DEF Status
<1>4. Answered(r, orders)
  BY <1>2, <1>3 DEF Answered
<1>5. PICK s \in Tasks : s = Slot
  BY <1>1 DEF HasSlot, Slot, Idle
<1>6. \A u \in Tasks : task'[u] = IF u = s THEN r ELSE task[u]
  BY <1>1, <1>5 DEF Begin, TypesInv, TasksOK
<1>7. \A u \in Tasks : Answered(task'[u], orders)
  BY <1>4, <1>6 DEF ExecInv
<1>8. LegsExecuted(leg', orders', misread')
  BY <1>1 DEF ExecInv
<1>9. \A u \in Tasks : Answered(task'[u], orders')
  BY <1>1, <1>7
<1> QED BY <1>8, <1>9 DEF ExecInv

(* An answer that says filled is right about the order it is about.         *)
LEMMA FilledAnswers ==
    ASSUME TypesInv, ExecInv, NEW t \in Tasks, task[t].kind = "poll", NEW ex \in Ex,
           NEW a \in Answers(t, ex), a = "filled"
    PROVE  orders[ex][task[t].asked[ex]].exec = Qty
<1>1. task[t].asked[ex] # 0 /\ task[t].asked[ex] \in OrderIds
      /\ (a = task[t].seen[ex] \/ a = Status(ex, task[t].asked[ex]))
  <2>1. a # "none"
    OBVIOUS
  <2> QED BY <2>1, AnswerFacts
<1>2. task[t].seen[ex] = "filled" => orders[ex][task[t].asked[ex]].exec = Qty
  BY DEF ExecInv, Answered
<1>3. CASE a = task[t].seen[ex]
  BY <1>2, <1>3
<1>4. CASE a = Status(ex, task[t].asked[ex])
  <2>1. orders[ex][task[t].asked[ex]] \in OrderType
    BY <1>1 DEF TypesInv, OrdersOK
  <2> QED BY <1>4, <2>1, StatusFacts DEF Status
<1> QED BY <1>1, <1>3, <1>4

LEMMA PollAnsweredExec ==
    ASSUME TypesInv, ExecInv, NEW t \in Tasks, PollAnswered(t)
    PROVE  ExecInv'
<1>1. PICK ans \in [Ex -> Statuses \union {"none"}] :
        /\ \A ex \in Ex : ans[ex] \in Answers(t, ex)
        /\ leg' = Updated(ans) /\ misread' = Misread(t, ans)
        /\ \/ task' = End(t)
           \/ task' = [task EXCEPT ![t] =
                         ProtectTask(leg', CHOOSE ex \in Ex : Exposed(leg', ex))]
  BY DEF PollAnswered
<1>2. task[t].kind = "poll" /\ UNCHANGED orders
  BY DEF PollAnswered
<1>3. LegsOK(leg)
  BY DEF TypesInv
<1>4. \A ex \in Ex : /\ leg'[ex].id = leg[ex].id
                     /\ leg'[ex].status = IF leg[ex].id = 0 \/ ans[ex] = "none"
                                          THEN leg[ex].status ELSE ans[ex]
  BY <1>1, <1>3, UpdatedLegs
<1>5. LegsExecuted(leg', orders', misread')
  <2> SUFFICES ASSUME NEW ex \in Ex, ex \notin misread', leg'[ex].status = "filled"
               PROVE  orders[ex][leg[ex].id].exec = Qty
    BY <1>2, <1>4 DEF LegsExecuted
  <2>1. CASE leg[ex].id = 0 \/ ans[ex] = "none"
    <3>1. ex \notin misread /\ leg[ex].status = "filled"
      BY <1>1, <1>4, <2>1 DEF Misread
    <3> QED BY <3>1 DEF ExecInv, LegsExecuted
  <2>2. CASE ~ (leg[ex].id = 0 \/ ans[ex] = "none")
    <3>1. ans[ex] = "filled" /\ task[t].asked[ex] = leg[ex].id
      BY <1>1, <1>4, <2>2 DEF Misread
    <3> QED BY <1>1, <1>2, <3>1, FilledAnswers
  <2> QED BY <2>1, <2>2
<1>6. PollsKept(task')
  <2>1. CASE task' = End(t)
    BY <2>1, EndKeepsPolls
  <2>2. CASE task' = [task EXCEPT ![t] =
                        ProtectTask(leg', CHOOSE ex \in Ex : Exposed(leg', ex))]
    <3>1. PICK r : r = ProtectTask(leg', CHOOSE ex \in Ex : Exposed(leg', ex))
      OBVIOUS
    <3>2. r.kind # "poll"
      BY <3>1 DEF ProtectTask
    <3>3. task' = [task EXCEPT ![t] = r]
      BY <2>2, <3>1
    <3> QED BY <3>2, <3>3, CallKeepsPolls
  <2> QED BY <1>1, <2>1, <2>2
<1> QED BY <1>2, <1>5, <1>6, Unmoved, ExecNext

LEMMA ProtectCancelsStep ==
    ASSUME TypesInv, ExecInv, NEW t \in Tasks, ProtectCancels(t)
    PROVE  ExecInv'
<1>1. task[t].kind = "protect" /\ UNCHANGED <<leg, misread>>
  BY DEF ProtectCancels
<1>2. task[t] \in ProtectCalls
  BY <1>1, CallKinds DEF TypesInv, TasksOK
<1>3. PICK e \in Ex : e = task[t].ex
  BY <1>2 DEF ProtectCalls
<1>4. PICK id \in OrderIds : id = task[t].id
  BY <1>2 DEF ProtectCalls
<1>5. PICK out \in CancelOutcomes(e, id) : orders' = AfterCancel(e, id, out)
  BY <1>3, <1>4 DEF ProtectCancels
<1>6. OrdersKept(orders')
  BY <1>5, OutcomeFacts, OrderCancelled DEF TypesInv, OrdersKept
<1>7. PICK r : r = [task[t] EXCEPT !.stage = "place"]
  OBVIOUS
<1>8. task' = End(t) \/ task' = [task EXCEPT ![t] = r]
  BY <1>7 DEF ProtectCancels
<1>9. r.kind # "poll"
  BY <1>2, <1>7 DEF ProtectCalls
<1>10. PollsKept(task')
  BY <1>8, <1>9, EndKeepsPolls, CallKeepsPolls
<1> QED BY <1>1, <1>6, <1>10, Unmoved, ExecKept

LEMMA ProtectPlacesStep ==
    ASSUME TypesInv, ExecInv, NEW t \in Tasks, ProtectPlaces(t)
    PROVE  ExecInv'
<1>1. task[t].kind = "protect" /\ task' = End(t)
  BY DEF ProtectPlaces
<1>2. task[t] \in ProtectCalls /\ TasksOK(task, leg)
  BY <1>1, CallKinds DEF TypesInv, TasksOK
<1>3. PICK e \in Ex : e = task[t].ex
  BY <1>2 DEF ProtectCalls
<1>4. PICK o : o = IF task[t].market THEN Executed ELSE Working
  OBVIOUS
<1>5. o \in OrderType
  BY <1>4, NewOrders
<1>6. \/ UNCHANGED <<orders, leg, misread>>
      \/ /\ FreeIds(e) # {} /\ orders' = WithOrder(e, FreshId(e), o)
         /\ \/ /\ leg' = Replaced(t, FreshId(e))
               /\ misread' = IF task[t].mine THEN misread \ {e} ELSE misread
            \/ UNCHANGED <<leg, misread>>
  BY <1>3, <1>4 DEF ProtectPlaces
<1>7. LegsOK(leg) /\ OrdersOK(orders)
  BY DEF TypesInv
<1>8. PollsKept(task')
  BY <1>1, EndKeepsPolls
<1>9. CASE UNCHANGED <<orders, leg, misread>>
  BY <1>8, <1>9, QuietSteps
<1>10. CASE FreeIds(e) # {} /\ orders' = WithOrder(e, FreshId(e), o)
  <2>1. PICK id \in OrderIds : id = FreshId(e)
    BY <1>10, FreshOrder
  <2>2. OrdersKept(orders')
    BY <1>5, <1>10, OrderPlaced
  <2>3. CASE UNCHANGED <<leg, misread>>
    BY <1>8, <2>2, <2>3, Unmoved, ExecKept
  <2>4. CASE leg' = Replaced(t, id) /\ ~ task[t].mine /\ UNCHANGED misread
    <3>1. leg' = leg
      BY <1>2, <1>7, <2>4, ReplacedLeg
    <3> QED BY <1>8, <2>2, <2>4, <3>1, Unmoved, ExecKept
  <2>5. CASE leg' = Replaced(t, id) /\ task[t].mine /\ misread' = misread \ {e}
    <3>1. /\ leg'[e].id = id /\ leg'[e].status = IF task[t].market THEN "filled" ELSE "new"
          /\ \A x \in Ex : x # e => leg'[x] = leg[x]
      BY <1>2, <1>3, <1>7, <2>5, ReplacedLeg
    <3>2. orders'[e][id] = o
      <4>1. orders \in [Ex -> [OrderIds -> OrderType]]
        BY <1>7 DEF OrdersOK
      <4> QED BY <1>10, <2>1, <4>1 DEF WithOrder
    <3>3. task[t].market => o.exec = Qty
      BY <1>4, NewOrders
    <3>4. LegsExecuted(leg', orders', misread')
      <4> SUFFICES ASSUME NEW x \in Ex, x \notin misread', leg'[x].status = "filled"
                   PROVE  orders'[x][leg'[x].id].exec = Qty
        BY DEF LegsExecuted
      <4>1. CASE x = e
        BY <3>1, <3>2, <3>3, <4>1
      <4>2. CASE x # e
        BY <2>2, <2>5, <3>1, <4>2, LegStaysExecuted
      <4> QED BY <4>1, <4>2
    <3> QED BY <1>8, <2>2, <3>4, ExecNext
  <2> QED BY <1>6, <1>9, <2>1, <2>3, <2>4, <2>5
<1> QED BY <1>6, <1>9, <1>10

LEMMA ScreenSteps ==
    ASSUME TypesInv, ExecInv, UserSelect \/ UserBack
    PROVE  ExecInv'
<1>1. leg' = [ex \in Ex |-> NoLeg] /\ UNCHANGED orders
  BY DEF UserSelect, UserBack
<1>2. LegsKept(leg', misread')
  BY <1>1, NoLegs DEF LegsKept
<1>3. PollsKept(task')
  <2>1. CASE UserBack
    BY <2>1, Unmoved, DetachKeepsPolls DEF UserBack, PollsKept, TypesInv, TasksOK
  <2>2. CASE UserSelect
    <3> DEFINE r == [kind |-> "recover", seen |-> [ex \in Ex |-> OpenIds(ex)]]
    <3>1. task' = Detach(Begin(r), Ex) /\ HasSlot /\ r.kind # "poll"
      BY <2>2 DEF UserSelect, MayBegin
    <3>2. r \in RecoverCalls
      BY DEF RecoverCalls, OpenIds
    <3>3. r \in Calls
      BY <3>2, KindsOfCalls
    <3> HIDE DEF r
    <3>4. PICK s \in Tasks : s = Slot
      BY <3>1 DEF HasSlot, Slot, Idle
    <3>5. \A u \in Tasks : Begin(r)[u] \in Calls
      BY <3>3, <3>4 DEF Begin, TypesInv, TasksOK
    <3> QED BY <3>1, <3>5, BeginKeepsPolls, DetachKeepsPolls
  <2> QED BY <2>1, <2>2
<1> QED BY <1>1, <1>2, <1>3, Unmoved, ExecKept

LEMMA RecoveredExec ==
    ASSUME TypesInv, ExecInv, NEW t \in Tasks, Recovered(t)
    PROVE  ExecInv'
<1>1. /\ task[t].kind = "recover" /\ task' = Detach(End(t), {ex \in Ex : leg'[ex] # leg[ex]})
      /\ UNCHANGED orders /\ misread' = {ex \in misread : leg'[ex] = leg[ex]}
  BY DEF Recovered
<1>2. \A ex \in Ex : leg'[ex] \in RecoveredLegs(t, ex)
  BY DEF Recovered
<1>3. LegsExecuted(leg', orders', misread')
  <2> SUFFICES ASSUME NEW ex \in Ex, ex \notin misread', leg'[ex].status = "filled"
               PROVE  orders[ex][leg'[ex].id].exec = Qty
    BY <1>1 DEF LegsExecuted
  <2>1. PICK l \in RecoveredLegs(t, ex) : l = leg'[ex]
    BY <1>2
  <2>2. CASE l = NoLeg
    BY <2>1, <2>2, NoLegs
  <2>3. CASE l = leg[ex]
    <3>1. ex \notin misread
      BY <1>1, <2>1, <2>3
    <3> QED BY <2>1, <2>3, <3>1 DEF ExecInv, LegsExecuted
  <2>4. CASE \E id \in task[t].seen[ex] \union OpenIds(ex) :
               l = NewLeg(id, IF orders[ex][id].open THEN Status(ex, id) ELSE "new")
    <3>1. PICK id \in task[t].seen[ex] \union OpenIds(ex) :
                 l = NewLeg(id, IF orders[ex][id].open THEN Status(ex, id) ELSE "new")
      BY <2>4
    <3>2. l.id = id /\ l.status = IF orders[ex][id].open THEN Status(ex, id) ELSE "new"
      BY <3>1 DEF NewLeg
    <3>3. Status(ex, id) = "filled"
      BY <2>1, <3>2
    <3>4. id \in OrderIds
      <4>1. task[t] \in RecoverCalls
        BY <1>1, CallKinds DEF TypesInv, TasksOK
      <4> QED BY <4>1 DEF RecoverCalls, OpenIds
    <3>5. orders[ex][id] \in OrderType
      BY <3>4 DEF TypesInv, OrdersOK
    <3> QED BY <2>1, <3>2, <3>3, <3>5, StatusFacts DEF Status
  <2> QED BY <2>2, <2>3, <2>4 DEF RecoveredLegs
<1>4. PollsKept(task')
  <2>1. \A u \in Tasks : End(t)[u] \in Calls
    BY CallEnds DEF TypesInv, TasksOK
  <2> QED BY <1>1, <2>1, EndKeepsPolls, DetachKeepsPolls
<1> QED BY <1>1, <1>3, <1>4, Unmoved, ExecNext

LEMMA EnvironmentExec ==
    ASSUME TypesInv, ExecInv, Environment
    PROVE  ExecInv'
<1>1. CASE FeedChanges \/ ForceExit \/ Exited
  BY <1>1, Unmoved, QuietSteps DEF FeedChanges, ForceExit, Exited, vars
<1>2. ASSUME NEW ex \in Ex, NEW id \in OrderIds, Fill(ex, id)
      PROVE  ExecInv'
  <2>1. UNCHANGED <<leg, misread, task>>
    BY <1>2 DEF Fill
  <2>2. OrdersKept(orders')
    BY <1>2, OrderFilled DEF TypesInv, OrdersKept
  <2> QED BY <2>1, <2>2, Unmoved, ExecKept
<1>3. ASSUME NEW ex \in Ex, GraceElapses(ex)
      PROVE  ExecInv'
  <2>1. leg' = [leg EXCEPT ![ex].old = TRUE] /\ UNCHANGED <<misread, task, orders>>
    BY <1>3 DEF GraceElapses
  <2>2. PICK l : l = [leg[ex] EXCEPT !.old = TRUE]
    OBVIOUS
  <2>3. leg \in [Ex -> LegsType]
    BY DEF TypesInv, LegsOK
  <2>4. l.id = leg[ex].id /\ l.status = leg[ex].status
    BY <2>2, <2>3 DEF LegsType
  <2>5. leg' = [leg EXCEPT ![ex] = l]
    BY <2>1, <2>2
  <2>6. LegsKept(leg', misread')
    BY <2>1, <2>3, <2>4, <2>5 DEF LegsKept
  <2> QED BY <2>1, <2>6, Unmoved, ExecKept
<1> QED BY <1>1, <1>2, <1>3 DEF Environment

LEMMA ExecInit == Init => ExecInv
BY NoLegs, KindsOfCalls DEF Init, ExecInv, LegsExecuted, Answered

LEMMA ExecStep ==
    ASSUME TypesInv, ExecInv, [Next]_vars
    PROVE  ExecInv'
<1>1. CASE UNCHANGED vars
  BY <1>1, Unmoved, QuietSteps DEF vars
<1>2. CASE TimeoutFires \/ ReturnToIdle \/ ReExecute \/ Tick \/ PollStart
  BY <1>2, CancelSteps, ExecuteSteps, PollStartsStep
<1>3. ASSUME NEW t \in Tasks,
             \/ ExecPriced(t) \/ ExecUnpriced(t) \/ ExecPlaced(t) \/ ExecRejected(t)
             \/ DeadExecEnds(t)
             \/ CancelledByKey(t) \/ CancelledForAmend(t) \/ CancelledByTimeout(t)
             \/ PollFailed(t) \/ PollAnswered(t) \/ ProtectCancels(t) \/ ProtectPlaces(t)
             \/ Recovered(t) \/ Exit(t)
             \/ \E ex \in Ex : PlacementLands(t, ex) \/ CancelLands(t, ex)
      PROVE  ExecInv'
  <2>1. CASE \/ ExecPriced(t) \/ ExecUnpriced(t) \/ ExecRejected(t) \/ DeadExecEnds(t)
             \/ CancelledByKey(t) \/ CancelledForAmend(t) \/ CancelledByTimeout(t)
             \/ PollFailed(t) \/ Exit(t)
    BY <2>1, PlacingSteps
  <2>2. CASE ExecPlaced(t) \/ PollAnswered(t) \/ ProtectCancels(t) \/ ProtectPlaces(t) \/ Recovered(t)
    BY <2>2, PlacedStep, PollAnsweredExec, ProtectCancelsStep, ProtectPlacesStep, RecoveredExec
  <2>3. CASE \E ex \in Ex : PlacementLands(t, ex) \/ CancelLands(t, ex)
    BY <2>3, LandingStep, CancelLandsStep
  <2> QED BY <1>3, <2>1, <2>2, <2>3
<1>4. CASE User
  BY <1>4, ExecuteSteps, CancelSteps, ScreenSteps DEF User
<1>5. CASE Environment
  BY <1>5, EnvironmentExec
<1> QED BY <1>1, <1>2, <1>3, <1>4, <1>5 DEF Next, Program

(* Only the answer to a poll announces "Both legs FILLED!".                 *)
LEMMA OnlyPollsFill ==
    ASSUME [Next]_vars, phase # "FILLED", phase' = "FILLED"
    PROVE  \E t \in Tasks : PollAnswered(t) /\ BothFilled(leg')
<1>1. ASSUME NEW why, NEW to
      PROVE  StartCancel(why, to) => UNCHANGED phase
  BY DEF StartCancel
<1>2. ASSUME NEW left
      PROVE  Execute(left) => phase' = "PLACING" \/ UNCHANGED phase
  BY DEF Execute
<1>3. ~ UNCHANGED phase
  OBVIOUS
<1>4. ~ (TimeoutFires \/ ReturnToIdle \/ ReExecute \/ Tick \/ PollStart)
  BY <1>1, <1>2, <1>3 DEF TimeoutFires, ReturnToIdle, ReExecute, Tick, PollStart
<1>5. ~ User
  <2>1. ~ UserExecute
    BY <1>2, <1>3 DEF UserExecute
  <2>2. ~ (UserAmend \/ UserCancel \/ UserQuit)
    BY <1>1, <1>3 DEF UserAmend, UserCancel, UserQuit
  <2>3. ~ (UserSelect \/ UserBack)
    BY <1>3 DEF UserSelect, UserBack
  <2> QED BY <2>1, <2>2, <2>3 DEF User
<1>6. ~ Environment /\ ~ UNCHANGED vars
  BY <1>3 DEF Environment, FeedChanges, ForceExit, Exited, GraceElapses, Fill, vars
<1>7. ASSUME NEW t \in Tasks
      PROVE  ~ (\/ ExecPriced(t) \/ ExecUnpriced(t) \/ ExecPlaced(t) \/ ExecRejected(t)
                \/ DeadExecEnds(t) \/ CancelledByKey(t) \/ CancelledForAmend(t)
                \/ CancelledByTimeout(t) \/ PollFailed(t) \/ ProtectCancels(t) \/ ProtectPlaces(t)
                \/ Recovered(t) \/ Exit(t)
                \/ \E ex \in Ex : PlacementLands(t, ex) \/ CancelLands(t, ex))
  BY <1>3 DEF ExecPriced, ExecUnpriced, ExecPlaced, ExecRejected, DeadExecEnds, CancelledByKey,
       CancelledForAmend, CancelledByTimeout, PollFailed, ProtectCancels, ProtectPlaces, Recovered,
       Exit, PlacementLands, CancelLands
<1>8. \E t \in Tasks : PollAnswered(t)
  BY <1>4, <1>5, <1>6, <1>7 DEF Next, Program
<1>9. PICK t \in Tasks : PollAnswered(t)
  BY <1>8
<1>10. BothFilled(leg')
  BY <1>3, <1>9 DEF PollAnswered
<1> QED BY <1>9, <1>10

(* Whatever is refused, lost or late, and however many calls overlap,       *)
(* FILLED is announced only of orders that have executed completely, and of *)
(* legs to which the answer about another order was applied.                *)
THEOREM FilledIsExecutedTheorem == Spec => FilledIsExecuted
<1>1. Init => TypesInv /\ ExecInv
  BY TypesInit, ExecInit
<1>2. TypesInv /\ ExecInv /\ [Next]_vars => TypesInv' /\ ExecInv'
  BY TypesStep, ExecStep
<1>3. ASSUME TypesInv', ExecInv', [Next]_vars, phase # "FILLED", phase' = "FILLED"
      PROVE  \A ex \in Ex \ misread' :
                leg'[ex].id > 0 /\ StatusOf(orders'[ex][leg'[ex].id]) = "filled"
  <2> SUFFICES ASSUME NEW ex \in Ex \ misread'
               PROVE  leg'[ex].id > 0 /\ StatusOf(orders'[ex][leg'[ex].id]) = "filled"
    OBVIOUS
  <2>1. leg'[ex].status = "filled"
    BY <1>3, OnlyPollsFill DEF BothFilled
  <2>2. LegsOK(leg') /\ OrdersOK(orders') /\ LegsExecuted(leg', orders', misread')
    BY <1>3 DEF TypesInv, ExecInv
  <2>3. leg'[ex] \in LegsType /\ leg'[ex].id # 0
    BY <2>1, <2>2 DEF LegsOK
  <2>4. leg'[ex].id \in OrderIds /\ leg'[ex].id > 0
    BY <2>3, BasisConstants DEF LegsType, OrderIds
  <2>5. orders'[ex][leg'[ex].id] \in OrderType
    BY <2>2, <2>4 DEF OrdersOK
  <2>6. orders'[ex][leg'[ex].id].exec = Qty
    BY <2>1, <2>2 DEF LegsExecuted
  <2> QED BY <2>4, <2>5, <2>6, StatusFacts
<1>4. TypesInv' /\ ExecInv' /\ [Next]_vars =>
        [phase # "FILLED" /\ phase' = "FILLED" =>
           \A ex \in Ex \ misread' :
              leg'[ex].id > 0 /\ StatusOf(orders'[ex][leg'[ex].id]) = "filled"]_vars
  BY <1>3
<1> QED BY <1>1, <1>2, <1>4, PTL DEF Spec, FilledIsExecuted

-----------------------------------------------------------------------------
(* The exchanges answer before the next key, timer or poll, and nothing     *)
(* fails; they take a second order while the first is still referred to.    *)
Regime == Prompt /\ Faults = {} /\ MaxOrders >= 2

Results == {"FILLED", "CANCELLED", "TIMEOUT"}
NoneOpen(os, ex) == \A id \in OrderIds : ~ os[ex][id].open
OnlyOpen(os, ex, i) == \A id \in OrderIds : os[ex][id].open => id = i

(* After a result the timers count down together, amendAll's two apart.     *)
Countdown(n) ==
    {Timer("idle", n)} \union (IF n >= 2 THEN {Timer("execute", n - 2)} ELSE {})

ClockInv ==
    /\ phase \in Results => \E n \in 0 .. 4 : timers \in Seq(Countdown(n))
    /\ phase = "IDLE" => timers \in Seq(Countdown(0))
    /\ phase \in {"PLACING", "MONITORING"} => timers = <<>>
    /\ timeout.leaked = 0 /\ (timeout.own => phase = "MONITORING")
    /\ screen = "SYMBOL_SELECT" => phase = "IDLE" /\ timers = <<>>

(* A watched leg has an order, the only one that may work.                  *)
Works(l, os, ex) ==
    /\ l.id # 0 /\ OnlyOpen(os, ex, l.id)
    /\ os[ex][l.id].open => ~ IsFinal(l.status)
BookInv(ph, lg, os) ==
    /\ ph \in Results \union {"IDLE"} => \A ex \in Ex : NoneOpen(os, ex)
    /\ ph = "MONITORING" => \A ex \in Ex : Works(lg[ex], os, ex)

(* What the call in flight knows of the phase, the legs and the orders.     *)
ExecKnows(r, ph, os) ==
    /\ ph = "PLACING" /\ r.stage # "dead"
    /\ \A ex \in Ex : r.at[ex] # -1 /\ OnlyOpen(os, ex, r.at[ex])
PollKnows(r, ph, lg, os) ==
    /\ ph = "MONITORING"
    /\ \A ex \in Ex : /\ r.asked[ex] = lg[ex].id
                      /\ IsFinal(r.seen[ex]) => ~ os[ex][lg[ex].id].open
ProtectKnows(r, ph, lg, os) ==
    /\ ph = "MONITORING" /\ r.mine
    /\ lg[r.ex].id = r.id /\ lg[Other(r.ex)].status = "filled"
    /\ r.market => lg[r.ex].amends >= MaxAmend
    /\ r.stage = "place" => NoneOpen(os, r.ex)
CancelKnows(r, ph, lg, os) ==
    /\ ph # "PLACING" /\ r.mine = Ex /\ (r.why # "quit" => ph = "MONITORING")
    /\ \A ex \in Ex : /\ OnlyOpen(os, ex, r.wait[ex])
                      /\ r.wait[ex] # 0 => r.wait[ex] = lg[ex].id /\ ~ IsFinal(lg[ex].status)
RecoverKnows(r, ph) == ph = "IDLE" /\ \A ex \in Ex : r.seen[ex] = {}
Knows(r, ph, lg, os) ==
    /\ r.kind = "exec" => ExecKnows(r, ph, os)
    /\ r.kind = "poll" => PollKnows(r, ph, lg, os)
    /\ r.kind = "protect" => ProtectKnows(r, ph, lg, os)
    /\ r.kind = "cancel" => CancelKnows(r, ph, lg, os)
    /\ r.kind = "recover" => RecoverKnows(r, ph)

(* PLACING waits for a placement, and a cancel has stopped the timeout.      *)
CallsFit(ph, to, tk) ==
    /\ ph = "PLACING" => \E t \in Tasks : tk[t].kind = "exec"
    /\ to.own => \A t \in Tasks : tk[t].kind # "cancel"
PromptInv ==
    /\ ClockInv /\ BookInv(phase, leg, orders) /\ CallsFit(phase, timeout, task)
    /\ \A t \in Tasks : Knows(task[t], phase, leg, orders)

LEMMA PromptNext ==
    ASSUME ClockInv', BookInv(phase', leg', orders'), CallsFit(phase', timeout', task'),
           \A t \in Tasks : Knows(task'[t], phase', leg', orders')
    PROVE  PromptInv'
BY DEF PromptInv

LEMMA ClockKept ==
    ASSUME ClockInv, UNCHANGED <<phase, timers, timeout, screen>>
    PROVE  ClockInv'
BY DEF ClockInv

-----------------------------------------------------------------------------
(* Timers *)

LEMMA CountdownFacts ==
    ASSUME NEW n \in 0 .. 4, NEW x \in Countdown(n)
    PROVE  /\ x.act = "idle" => x = Timer("idle", n) /\ x.left = n
           /\ x.act # "idle" => x = Timer("execute", n - 2) /\ x.left = n - 2 /\ n >= 2
BY DEF Countdown, Timer

LEMMA DueElement ==
    ASSUME NEW S, timers \in Seq(S), NEW i \in DueTimers
    PROVE  timers[i] \in S /\ timers[i].left = 0 /\ i \in 1 .. Len(timers) /\ timers # <<>>
BY DEF DueTimers

(* An idle session with no timer due has none.                              *)
LEMMA IdleHasNoTimer ==
    ASSUME ClockInv, phase = "IDLE", DueTimers = {}
    PROVE  timers = <<>>
<1>1. timers \in Seq(Countdown(0))
  BY DEF ClockInv
<1>2. CASE Len(timers) = 0
  BY <1>1, <1>2
<1>3. CASE Len(timers) # 0
  <2>1. 1 \in 1 .. Len(timers) /\ 1 \in DOMAIN timers
    BY <1>1, <1>3
  <2>2. timers[1] \in Countdown(0)
    BY <1>1, <2>1
  <2>3. timers[1].left = 0
    BY <2>2 DEF Countdown, Timer
  <2> QED BY <2>1, <2>3 DEF DueTimers
<1> QED BY <1>2, <1>3

(* A timer is due only when a result is shown, or was.                      *)
LEMMA DuePhase ==
    ASSUME TypesInv, ClockInv, timers # <<>>
    PROVE  phase \in Results \union {"IDLE"} /\ screen = "DASHBOARD" /\ ~ timeout.own
BY DEF TypesInv, ScalarsOK, ClockInv, Phases, Results

LEMMA ReturnPrompt ==
    ASSUME TypesInv, ClockInv, ReturnToIdle
    PROVE  ClockInv' /\ phase \in Results \union {"IDLE"}
<1>1. PICK i \in DueTimers : timers[i].act = "idle" /\ timers' = Without(timers, i)
  BY DEF ReturnToIdle
<1>2. phase' = "IDLE" /\ UNCHANGED <<timeout, screen>>
  BY DEF ReturnToIdle
<1>3. timers \in Seq(OneShot)
  BY DEF TypesInv
<1>4. timers # <<>>
  BY <1>1, <1>3, DueElement
<1>5. phase \in Results \union {"IDLE"} /\ screen = "DASHBOARD" /\ ~ timeout.own
  BY <1>4, DuePhase
<1>6. timers \in Seq(Countdown(0))
  <2>1. CASE phase = "IDLE"
    BY <2>1 DEF ClockInv
  <2>2. CASE phase \in Results
    <3>1. PICK n \in 0 .. 4 : timers \in Seq(Countdown(n))
      BY <2>2 DEF ClockInv
    <3>2. timers[i] \in Countdown(n) /\ timers[i].left = 0
      BY <1>1, <3>1, DueElement
    <3>3. n = 0
      BY <1>1, <3>2, CountdownFacts
    <3> QED BY <3>1, <3>3
  <2> QED BY <1>5, <2>1, <2>2
<1>7. i \in 1 .. Len(timers)
  BY <1>3, DueElement
<1>8. timers' \in Seq(Countdown(0))
  BY <1>1, <1>6, <1>7, WithoutKeepsOthers
<1>9. timeout.leaked = 0
  BY DEF ClockInv
<1> QED BY <1>2, <1>5, <1>8, <1>9 DEF ClockInv, Results

LEMMA ReExecutePrompt ==
    ASSUME TypesInv, ClockInv, ReExecute
    PROVE  ClockInv' /\ UNCHANGED <<phase, leg, task, orders>>
<1>1. PICK i \in DueTimers : timers[i].act = "execute" /\ Execute(Without(timers, i))
  BY DEF ReExecute
<1>2. timers \in Seq(OneShot)
  BY DEF TypesInv
<1>3. timers # <<>> /\ i \in 1 .. Len(timers)
  BY <1>2, DueElement
<1>4. phase \in Results \union {"IDLE"} /\ screen = "DASHBOARD" /\ ~ timeout.own
  BY <1>3, DuePhase
<1>5. phase # "IDLE"
  <2>1. ASSUME phase = "IDLE"
        PROVE  FALSE
    <3>1. timers \in Seq(Countdown(0))
      BY <2>1 DEF ClockInv
    <3>2. timers[i] \in Countdown(0) /\ 0 \in 0 .. 4
      BY <3>1, DueElement
    <3>3. timers[i].act # "idle"
      BY <1>1
    <3> QED BY <3>2, <3>3, CountdownFacts
  <2> QED BY <2>1
<1>6. PICK n \in 0 .. 4 : timers \in Seq(Countdown(n))
  BY <1>4, <1>5 DEF ClockInv
<1>7. Without(timers, i) \in Seq(Countdown(n))
  BY <1>3, <1>6, WithoutKeepsOthers
<1>8. timers' = Without(timers, i)
      /\ UNCHANGED <<phase, leg, params, polling, timeout, task, feed, screen, process, orders>>
  BY <1>1, <1>5 DEF Execute, MayExecute
<1>9. timers' \in Seq(Countdown(n))
  BY <1>7, <1>8
<1>10. timeout.leaked = 0
  BY DEF ClockInv
<1> QED BY <1>4, <1>5, <1>8, <1>9, <1>10 DEF ClockInv, Results

LEMMA TickPrompt ==
    ASSUME TypesInv, ClockInv, Tick
    PROVE  ClockInv'
<1>1. /\ timers # <<>> /\ DueTimers = {}
      /\ UNCHANGED <<phase, leg, params, polling, timeout, task, feed, screen, process, orders>>
      /\ timers' = [i \in DOMAIN timers |-> [timers[i] EXCEPT !.left = @ - 1]]
  BY DEF Tick
<1>2. phase \in Results /\ screen = "DASHBOARD" /\ ~ timeout.own
  BY <1>1, DuePhase, IdleHasNoTimer
<1>3. PICK n \in 0 .. 4 : timers \in Seq(Countdown(n))
  BY <1>2 DEF ClockInv
<1>4. PICK m : m = n - 1
  OBVIOUS
<1>5. ASSUME NEW i \in 1 .. Len(timers)
      PROVE  /\ n >= 1
             /\ [timers[i] EXCEPT !.left = @ - 1] \in Countdown(m)
  <2>1. timers[i] \in Countdown(n)
    BY <1>3
  <2>2. timers[i].left # 0
    BY <1>1, <1>3 DEF DueTimers
  <2>3. CASE timers[i].act = "idle"
    <3>1. timers[i] = Timer("idle", n) /\ n # 0
      BY <2>1, <2>2, <2>3, CountdownFacts
    <3>2. [timers[i] EXCEPT !.left = @ - 1] = Timer("idle", m)
      BY <1>4, <3>1 DEF Timer
    <3>3. Timer("idle", m) \in Countdown(m)
      BY DEF Countdown
    <3> QED BY <3>1, <3>2, <3>3
  <2>4. CASE timers[i].act # "idle"
    <3>1. timers[i] = Timer("execute", n - 2) /\ n >= 2 /\ n - 2 # 0
      BY <2>1, <2>2, <2>4, CountdownFacts
    <3>2. [timers[i] EXCEPT !.left = @ - 1] = Timer("execute", m - 2)
      <4>1. (n - 2) - 1 = m - 2
        BY <1>4
      <4> QED BY <3>1, <4>1 DEF Timer
    <3>3. m >= 2
      BY <1>4, <3>1
    <3>4. Timer("execute", m - 2) \in Countdown(m)
      BY <3>3 DEF Countdown
    <3> QED BY <3>1, <3>2, <3>4
  <2> QED BY <2>3, <2>4
<1>6. Len(timers) \in Nat /\ Len(timers) # 0 /\ DOMAIN timers = 1 .. Len(timers)
  BY <1>1, <1>3
<1>7. timers' \in Seq(Countdown(m))
  <2>1. \A i \in 1 .. Len(timers) : [timers[i] EXCEPT !.left = @ - 1] \in Countdown(m)
    BY <1>5
  <2>2. timers' = [i \in 1 .. Len(timers) |-> [timers[i] EXCEPT !.left = @ - 1]]
    BY <1>1, <1>6
  <2>3. PICK S : S = Countdown(m)
    OBVIOUS
  <2>4. \A i \in 1 .. Len(timers) : [timers[i] EXCEPT !.left = @ - 1] \in S
    BY <2>1, <2>3
  <2>5. timers' \in Seq(S)
    BY <1>6, <2>2, <2>4
  <2> QED BY <2>3, <2>5
<1>8. m \in 0 .. 4
  <2>1. 1 \in 1 .. Len(timers)
    BY <1>6
  <2>2. n >= 1
    BY <1>5, <2>1
  <2> QED BY <1>4, <2>2
<1>9. timeout.leaked = 0
  BY DEF ClockInv
<1> QED BY <1>1, <1>2, <1>7, <1>8, <1>9 DEF ClockInv, Results

-----------------------------------------------------------------------------
(* Calls *)

LEMMA NothingKnown ==
    ASSUME NEW r, r.kind = "none", NEW ph, NEW lg, NEW os
    PROVE  Knows(r, ph, lg, os)
BY DEF Knows

(* A call begins when none is in flight.                                    *)
LEMMA OnlyBegun ==
    ASSUME TypesInv, Settled, HasSlot, NEW r, NEW ph, NEW lg, NEW os, Knows(r, ph, lg, os)
    PROVE  /\ \A t \in Tasks : Knows(Begin(r)[t], ph, lg, os)
           /\ \E t \in Tasks : Begin(r)[t] = r
<1>1. PICK s \in Tasks : s = Slot
  BY DEF HasSlot, Slot, Idle
<1>2. \A t \in Tasks : Begin(r)[t] = IF t = s THEN r ELSE task[t]
  BY <1>1 DEF Begin, TypesInv, TasksOK
<1>3. \A t \in Tasks : task[t].kind = "none"
  BY DEF Settled, Idle
<1> QED BY <1>2, <1>3, NothingKnown

LEMMA OnlyCall ==
    ASSUME TypesInv, Regime, NEW t \in Tasks, task[t].kind # "none",
           NEW r, NEW ph, NEW lg, NEW os, Knows(r, ph, lg, os)
    PROVE  /\ \A u \in Tasks : Knows([task EXCEPT ![t] = r][u], ph, lg, os)
           /\ [task EXCEPT ![t] = r][t] = r
<1>1. \A u \in Tasks : [task EXCEPT ![t] = r][u] = IF u = t THEN r ELSE task[u]
  BY DEF TypesInv, TasksOK
<1>2. \A u \in Tasks : u # t => task[u].kind = "none"
  BY AloneInFlight DEF Regime
<1> QED BY <1>1, <1>2, NothingKnown

LEMMA NoCall ==
    ASSUME TypesInv, Regime, NEW t \in Tasks, task[t].kind # "none", NEW ph, NEW lg, NEW os
    PROVE  \A u \in Tasks : Knows(End(t)[u], ph, lg, os)
<1>1. Knows(NoTask, ph, lg, os)
  BY KindsOfCalls, NothingKnown
<1> QED BY <1>1, OnlyCall DEF End

(* What was known of a call goes on to hold.                                *)
LEMMA QuietIsSettled ==
    ASSUME Regime, Quiet, PromptInv
    PROVE  Settled /\ phase # "PLACING"
BY DEF Regime, Quiet, PromptInv, CallsFit, Settled, Idle

(* An order that may work has not executed.                                 *)
LEMMA OpenIsUnfilled ==
    ASSUME TypesInv, NEW ex \in Ex, NEW id \in OrderIds,
           orders[ex][id].exec = Qty \/ IsFinal(Status(ex, id))
    PROVE  ~ orders[ex][id].open
<1>1. orders[ex][id] \in OrderType /\ (orders[ex][id].open => orders[ex][id].exec < Qty)
  BY DEF TypesInv, OrdersOK
<1>2. orders[ex][id].exec = Qty => ~ orders[ex][id].open
  BY <1>1, BasisConstants DEF OrderType
<1> QED BY <1>1, <1>2, StatusFacts DEF Status, IsFinal

LEMMA NothingOpen ==
    ASSUME NEW os, NEW ex
    PROVE  /\ OnlyOpen(os, ex, 0) => NoneOpen(os, ex)
           /\ \A i : NoneOpen(os, ex) => OnlyOpen(os, ex, i)
BY BasisConstants DEF OnlyOpen, NoneOpen, OrderIds

(* With no order working and one call in flight there is a free id.         *)
LEMMA SomeIdIsFree ==
    ASSUME TypesInv, Regime, NEW ex \in Ex, NoneOpen(orders, ex), NEW t \in Tasks,
           task[t].kind # "none", HeldBy(task[t], ex) \subseteq {0, leg[ex].id}
    PROVE  FreeIds(ex) # {} /\ ~ MayRefuse(ex)
<1>1. \A u \in Tasks : HeldBy(task[u], ex) \subseteq {0, leg[ex].id}
  <2>1. \A u \in Tasks : u # t => task[u].kind = "none"
    BY AloneInFlight DEF Regime
  <2>2. \A u \in Tasks : task[u].kind = "none" => HeldBy(task[u], ex) = {}
    BY DEF HeldBy
  <2> QED BY <2>1, <2>2
<1>2. OpenIds(ex) = {}
  BY DEF OpenIds, NoneOpen
<1>3. Held(ex) \subseteq {0, leg[ex].id}
  BY <1>1 DEF Held
<1>4. 1 \in OrderIds /\ 2 \in OrderIds
  BY BasisConstants DEF Regime, OrderIds
<1>5. FreeIds(ex) # {}
  <2>1. 1 \in FreeIds(ex) \/ 2 \in FreeIds(ex)
    BY <1>2, <1>3, <1>4 DEF FreeIds
  <2> QED BY <2>1
<1> QED BY <1>5 DEF MayRefuse, Regime

-----------------------------------------------------------------------------
(* Placing *)

LEMMA ExecutePrompt ==
    ASSUME TypesInv, Regime, PromptInv, UserExecute
    PROVE  PromptInv'
<1> DEFINE r == [kind |-> "exec", stage |-> "price", at |-> [ex \in Ex |-> 0]]
<1>1. phase = "IDLE" /\ DueTimers = {} /\ Quiet /\ screen = "DASHBOARD"
  BY DEF UserExecute, UserMayAct, MayExecute, Regime
<1>2. /\ HasSlot /\ phase' = "PLACING" /\ task' = Begin(r) /\ timers' = timers
      /\ UNCHANGED <<leg, timeout, screen, orders>>
  BY DEF UserExecute, Execute
<1>3. timers = <<>> /\ Settled
  BY <1>1, IdleHasNoTimer, QuietIsSettled DEF PromptInv
<1>4. ClockInv'
  BY <1>1, <1>2, <1>3 DEF PromptInv, ClockInv, Results
<1>5. \A ex \in Ex : NoneOpen(orders, ex)
  BY <1>1 DEF PromptInv, BookInv
<1>6. r.kind = "exec" /\ r.stage = "price" /\ \A ex \in Ex : r.at[ex] = 0
  OBVIOUS
<1> HIDE DEF r
<1>7. ExecKnows(r, "PLACING", orders)
  BY <1>5, <1>6, NothingOpen DEF ExecKnows
<1>8. Knows(r, "PLACING", leg, orders)
  BY <1>6, <1>7 DEF Knows
<1>9. (\A t \in Tasks : Knows(task'[t], phase', leg', orders')) /\ \E t \in Tasks : task'[t] = r
  BY <1>2, <1>3, <1>8, OnlyBegun
<1>10. ~ timeout'.own
  BY <1>1, <1>2 DEF PromptInv, ClockInv
<1>11. BookInv(phase', leg', orders') /\ CallsFit(phase', timeout', task')
  BY <1>2, <1>6, <1>9, <1>10 DEF BookInv, CallsFit, Results
<1> QED BY <1>4, <1>9, <1>11, PromptNext

(* The placements that nothing refuses.                                     *)
LEMMA PlacingPrompt ==
    ASSUME TypesInv, Regime, PromptInv, NEW t \in Tasks, ExecPriced(t)
    PROVE  PromptInv'
<1>1. task[t].kind = "exec" /\ UNCHANGED <<phase, leg, timeout, timers, screen, orders>>
  BY DEF ExecPriced
<1>2. task[t] \in ExecCalls /\ ExecKnows(task[t], phase, orders)
  BY <1>1, CallKinds DEF TypesInv, TasksOK, PromptInv, Knows
<1>3. PICK r : r = [task[t] EXCEPT !.stage = "place"]
  OBVIOUS
<1>4. r.kind = "exec" /\ r.stage = "place" /\ r.at = task[t].at
  BY <1>2, <1>3 DEF ExecCalls
<1>5. Knows(r, phase, leg, orders)
  BY <1>2, <1>4 DEF ExecKnows, Knows
<1>6. task' = [task EXCEPT ![t] = r]
  BY <1>3 DEF ExecPriced
<1>7. (\A u \in Tasks : Knows(task'[u], phase', leg', orders')) /\ task'[t] = r
  BY <1>1, <1>5, <1>6, OnlyCall
<1>8. ~ timeout'.own
  BY <1>1, <1>2 DEF PromptInv, ClockInv, ExecKnows
<1>9. CallsFit(phase', timeout', task')
  BY <1>4, <1>7, <1>8 DEF CallsFit
<1>10. BookInv(phase', leg', orders') /\ ClockInv'
  BY <1>1, ClockKept DEF PromptInv
<1> QED BY <1>7, <1>9, <1>10, PromptNext

LEMMA LandingPrompt ==
    ASSUME TypesInv, Regime, PromptInv, NEW t \in Tasks, NEW ex \in Ex, PlacementLands(t, ex)
    PROVE  PromptInv'
<1>1. task[t].kind = "exec" /\ task[t].at[ex] = 0 /\ UNCHANGED <<phase, leg, timeout, timers, screen>>
  BY DEF PlacementLands
<1>2. task[t] \in ExecCalls /\ ExecKnows(task[t], phase, orders)
  BY <1>1, CallKinds DEF TypesInv, TasksOK, PromptInv, Knows
<1>3. NoneOpen(orders, ex)
  BY <1>1, <1>2, NothingOpen DEF ExecKnows
<1>4. HeldBy(task[t], ex) = {0}
  BY <1>1 DEF HeldBy
<1>5. FreeIds(ex) # {} /\ ~ MayRefuse(ex)
  BY <1>1, <1>3, <1>4, SomeIdIsFree
<1>6. "place lost" \notin Faults
  BY DEF Regime
<1>7. PICK id \in OrderIds : id = FreshId(ex)
  BY <1>5, FreshOrder
<1>8. task' = [task EXCEPT ![t].at[ex] = id] /\ orders' = WithOrder(ex, id, Working)
  BY <1>5, <1>6, <1>7 DEF PlacementLands
<1>9. PICK r : r = [task[t] EXCEPT !.at[ex] = id]
  OBVIOUS
<1>10. r.kind = "exec" /\ r.stage = task[t].stage
       /\ \A e \in Ex : r.at[e] = IF e = ex THEN id ELSE task[t].at[e]
  BY <1>2, <1>9 DEF ExecCalls
<1>11. \A e \in Ex, i \in OrderIds :
          orders'[e][i] = IF e = ex /\ i = id THEN Working ELSE orders[e][i]
  BY <1>8, NewOrders, OrderSet DEF TypesInv
<1>12. id # -1
  BY BasisConstants DEF OrderIds
<1>13. ExecKnows(r, phase', orders')
  <2>1. ASSUME NEW e \in Ex
        PROVE  r.at[e] # -1 /\ OnlyOpen(orders', e, r.at[e])
    <3>1. CASE e = ex
      BY <1>3, <1>10, <1>11, <1>12, <3>1 DEF NoneOpen, OnlyOpen
    <3>2. CASE e # ex
      BY <1>2, <1>10, <1>11, <3>2 DEF OnlyOpen, ExecKnows
    <3> QED BY <3>1, <3>2
  <2> QED BY <1>1, <1>2, <1>10, <2>1 DEF ExecKnows
<1>14. Knows(r, phase', leg', orders')
  BY <1>10, <1>13 DEF Knows
<1>15. task' = [task EXCEPT ![t] = r]
  BY <1>8, <1>9
<1>16. (\A u \in Tasks : Knows(task'[u], phase', leg', orders')) /\ task'[t] = r
  BY <1>1, <1>14, <1>15, OnlyCall
<1>17. phase' = "PLACING" /\ ~ timeout'.own
  BY <1>1, <1>2 DEF PromptInv, ClockInv, ExecKnows
<1>18. CallsFit(phase', timeout', task')
  BY <1>10, <1>16, <1>17 DEF CallsFit
<1>19. BookInv(phase', leg', orders')
  BY <1>17 DEF BookInv, Results
<1>20. ClockInv'
  BY <1>1, ClockKept DEF PromptInv
<1> QED BY <1>16, <1>18, <1>19, <1>20, PromptNext

LEMMA PlacedPrompt ==
    ASSUME TypesInv, Regime, PromptInv, NEW t \in Tasks, ExecPlaced(t)
    PROVE  PromptInv'
<1>1. /\ task[t].kind = "exec" /\ phase' = "MONITORING" /\ timeout' = StartedTimeout
      /\ leg' = [ex \in Ex |-> NewLeg(task[t].at[ex], "new")] /\ task' = Detach(End(t), Ex)
      /\ UNCHANGED <<timers, screen, orders>> /\ \A ex \in Ex : task[t].at[ex] > 0
  BY DEF ExecPlaced
<1>2. task[t] \in ExecCalls /\ ExecKnows(task[t], phase, orders)
  BY <1>1, CallKinds DEF TypesInv, TasksOK, PromptInv, Knows
<1>3. phase = "PLACING"
  BY <1>2 DEF ExecKnows
<1>4. ClockInv'
  <2>1. timers = <<>> /\ timeout.leaked = 0 /\ ~ timeout.own /\ screen # "SYMBOL_SELECT"
    BY <1>3 DEF PromptInv, ClockInv
  <2>2. timeout'.leaked = 0
    BY <1>1, <2>1 DEF StartedTimeout
  <2> QED BY <1>1, <2>1, <2>2 DEF ClockInv, Results
<1>5. BookInv(phase', leg', orders')
  <2>1. ASSUME NEW ex \in Ex
        PROVE  Works(leg'[ex], orders', ex)
    <3>1. leg'[ex].id = task[t].at[ex] /\ leg'[ex].status = "new"
      BY <1>1 DEF NewLeg
    <3>2. task[t].at[ex] # 0
      BY <1>1
    <3> QED BY <1>1, <1>2, <3>1, <3>2 DEF Works, ExecKnows, IsFinal
  <2> QED BY <1>1, <2>1 DEF BookInv, Results
<1>6. \A u \in Tasks : task'[u].kind = "none"
  <2>1. \A u \in Tasks : End(t)[u] = NoTask \/ (u # t /\ End(t)[u] = task[u])
    BY DEF End, TypesInv, TasksOK
  <2>2. \A u \in Tasks : u # t => task[u].kind = "none"
    BY <1>1, AloneInFlight DEF Regime
  <2>3. \A u \in Tasks : End(t)[u].kind = "none"
    BY <2>1, <2>2, KindsOfCalls
  <2>4. \A u \in Tasks : Detach(End(t), Ex)[u] = End(t)[u]
    BY <2>3 DEF Detach
  <2> QED BY <1>1, <2>3, <2>4
<1> QED BY <1>1, <1>4, <1>5, <1>6, NothingKnown, PromptNext DEF CallsFit

(* Nothing is refused, lost or left without a price.                        *)
LEMMA NothingFails ==
    ASSUME TypesInv, Regime, PromptInv, NEW t \in Tasks
    PROVE  ~ (ExecUnpriced(t) \/ ExecRejected(t) \/ DeadExecEnds(t) \/ PollFailed(t))
<1>1. task[t].kind = "exec" => ExecKnows(task[t], phase, orders)
  BY DEF PromptInv, Knows
<1> QED BY <1>1 DEF ExecUnpriced, ExecRejected, DeadExecEnds, PollFailed, Regime, ExecKnows

-----------------------------------------------------------------------------
(* Cancelling *)

LEMMA CancelBeginsPrompt ==
    ASSUME TypesInv, Regime, PromptInv, Settled, NEW why, NEW to, StartCancel(why, to),
           phase # "PLACING", why # "quit" => phase = "MONITORING",
           to.leaked = 0, to \in [own : BOOLEAN, leaked : Nat]
    PROVE  PromptInv'
<1> DEFINE r == CancelTask(why)
<1>1. /\ HasSlot /\ task' = Begin(r) /\ timeout' = [to EXCEPT !.own = FALSE]
      /\ UNCHANGED <<phase, leg, timers, screen, orders>>
  BY DEF StartCancel, MayBegin
<1>2. r.kind = "cancel" /\ r.why = why /\ r.mine = Ex /\ r.wait = LegsToCancel
  BY DEF CancelTask
<1> HIDE DEF r
<1>3. ASSUME NEW ex \in Ex
      PROVE  /\ OnlyOpen(orders, ex, r.wait[ex])
             /\ r.wait[ex] # 0 => r.wait[ex] = leg[ex].id /\ ~ IsFinal(leg[ex].status)
  <2>1. r.wait[ex] = IF leg[ex].id > 0 /\ ~ IsFinal(leg[ex].status) THEN leg[ex].id ELSE 0
    BY <1>2 DEF LegsToCancel
  <2>2. r.wait[ex] # 0 => r.wait[ex] = leg[ex].id /\ ~ IsFinal(leg[ex].status)
    BY <2>1
  <2>3. CASE phase = "MONITORING"
    <3>1. Works(leg[ex], orders, ex)
      BY <2>3 DEF PromptInv, BookInv
    <3>2. leg[ex].id \in OrderIds /\ leg[ex].id > 0
      BY <3>1, OrdersOfLegs, BasisConstants DEF Works, OrderIds
    <3>3. CASE IsFinal(leg[ex].status)
      BY <2>1, <2>2, <3>1, <3>2, <3>3, NothingOpen DEF Works, OnlyOpen
    <3>4. CASE ~ IsFinal(leg[ex].status)
      BY <2>1, <2>2, <3>1, <3>2, <3>4 DEF Works
    <3> QED BY <3>3, <3>4
  <2>4. CASE phase # "MONITORING"
    <3>1. phase \in Results \union {"IDLE"}
      BY <2>4 DEF TypesInv, ScalarsOK, Phases, Results
    <3>2. NoneOpen(orders, ex)
      BY <3>1 DEF PromptInv, BookInv
    <3> QED BY <2>2, <3>2, NothingOpen
  <2> QED BY <2>3, <2>4
<1>4. Knows(r, phase, leg, orders)
  BY <1>2, <1>3 DEF Knows, CancelKnows
<1>5. \A u \in Tasks : Knows(task'[u], phase', leg', orders')
  BY <1>1, <1>4, OnlyBegun
<1>6. timeout'.leaked = 0 /\ ~ timeout'.own
  BY <1>1
<1>7. ClockInv'
  BY <1>1, <1>6 DEF PromptInv, ClockInv
<1>8. BookInv(phase', leg', orders') /\ CallsFit(phase', timeout', task')
  BY <1>1 DEF PromptInv, CallsFit
<1> QED BY <1>5, <1>7, <1>8, PromptNext

LEMMA CancelKeysPrompt ==
    ASSUME TypesInv, Regime, PromptInv, UserCancel \/ UserAmend \/ UserQuit \/ TimeoutFires
    PROVE  PromptInv'
<1>1. Settled /\ phase # "PLACING"
  BY QuietIsSettled DEF UserCancel, UserAmend, UserQuit, TimeoutFires, UserMayAct
<1>2. timeout.leaked = 0 /\ (timeout.own => phase = "MONITORING")
      /\ timeout \in [own : BOOLEAN, leaked : Nat]
  BY DEF PromptInv, ClockInv, TypesInv, ScalarsOK
<1>3. CASE UserCancel
  BY <1>1, <1>2, <1>3, CancelBeginsPrompt DEF UserCancel
<1>4. CASE UserAmend
  BY <1>1, <1>2, <1>4, CancelBeginsPrompt DEF UserAmend
<1>5. CASE UserQuit
  BY <1>1, <1>2, <1>5, CancelBeginsPrompt DEF UserQuit
<1>6. CASE TimeoutFires
  <2>1. ASSUME NEW left \in FiredTimeout
        PROVE  /\ left.leaked = 0 /\ left \in [own : BOOLEAN, leaked : Nat] /\ phase = "MONITORING"
    <3>1. PICK n : n = IF timeout.leaked = 0 THEN 0 ELSE timeout.leaked - 1
      OBVIOUS
    <3>2. n = timeout.leaked
      BY <1>2, <3>1
    <3>3. [timeout EXCEPT !.leaked = n] = timeout
      BY <1>2, <3>2
    <3>4. left # timeout /\ (left = [timeout EXCEPT !.own = FALSE] \/ left = [timeout EXCEPT !.leaked = n])
      BY <3>1 DEF FiredTimeout
    <3>5. left = [timeout EXCEPT !.own = FALSE]
      BY <3>3, <3>4
    <3>6. left.leaked = 0 /\ left \in [own : BOOLEAN, leaked : Nat]
      BY <1>2, <3>5
    <3>7. timeout.own
      BY <1>2, <3>4, <3>5
    <3> QED BY <1>2, <3>6, <3>7
  <2>2. PICK left \in FiredTimeout : phase = "MONITORING" => StartCancel("timeout", left)
    BY <1>6 DEF TimeoutFires
  <2> QED BY <1>1, <2>1, <2>2, CancelBeginsPrompt
<1> QED BY <1>3, <1>4, <1>5, <1>6

(* A cancel that took effect closed its order and opened none.              *)
LEMMA CancelCloses ==
    ASSUME OrdersOK(orders), NEW ex \in Ex, NEW id \in OrderIds, NEW out, out.effect
    PROVE  \A e \in Ex, i \in OrderIds :
              AfterCancel(ex, id, out)[e][i].open => orders[e][i].open /\ ~ (e = ex /\ i = id)
<1>1. PICK o : o = [orders[ex][id] EXCEPT !.open = FALSE]
  OBVIOUS
<1>2. orders[ex][id] \in OrderType
  BY DEF OrdersOK
<1>3. o \in OrderType /\ o.open = FALSE
  BY <1>1, <1>2 DEF OrderType
<1>4. AfterCancel(ex, id, out) = WithOrder(ex, id, o)
  BY <1>1, Zenon DEF AfterCancel, WithOrder
<1> QED BY <1>3, <1>4, OrderSet

LEMMA CancelLandsPrompt ==
    ASSUME TypesInv, Regime, PromptInv, NEW t \in Tasks, NEW ex \in Ex, CancelLands(t, ex)
    PROVE  PromptInv'
<1>1. task[t].kind = "cancel" /\ task[t].wait[ex] > 0 /\ UNCHANGED <<phase, timeout, timers, screen>>
  BY DEF CancelLands
<1>2. task[t] \in CancelCalls /\ CancelKnows(task[t], phase, leg, orders)
  BY <1>1, CallKinds DEF TypesInv, TasksOK, PromptInv, Knows
<1>3. PICK id : id = task[t].wait[ex]
  OBVIOUS
<1>4. id \in OrderIds /\ id # 0 /\ id = leg[ex].id
  BY <1>1, <1>2, <1>3, BasisConstants DEF CancelCalls, Ids, OrderIds, CancelKnows
<1>5. PICK out \in CancelOutcomes(ex, id) :
        /\ orders' = AfterCancel(ex, id, out)
        /\ leg' = IF ~ out.thrown /\ ex \in task[t].mine
                  THEN [leg EXCEPT ![ex].status = "canceled"] ELSE leg
  BY <1>3 DEF CancelLands
<1>6. out.effect /\ ~ out.thrown /\ out.effect \in BOOLEAN
  BY OutcomeFacts DEF Regime
<1>7. /\ \A e \in Ex, i \in OrderIds :
            orders'[e][i].open => orders[e][i].open /\ ~ (e = ex /\ i = id)
  <2>1. OrdersOK(orders)
    BY DEF TypesInv
  <2>2. PICK i0 \in OrderIds : i0 = id
    BY <1>4
  <2>3. \A e \in Ex, i \in OrderIds :
           AfterCancel(ex, i0, out)[e][i].open => orders[e][i].open /\ ~ (e = ex /\ i = i0)
    BY <1>6, <2>1, CancelCloses
  <2> QED BY <1>5, <1>6, <2>2, <2>3
<1>8. leg' = [leg EXCEPT ![ex].status = "canceled"]
  BY <1>2, <1>5, <1>6 DEF CancelKnows
<1>9. \A e \in Ex : leg'[e].id = leg[e].id /\ (e # ex => leg'[e] = leg[e])
  <2>1. PICK l : l = [leg[ex] EXCEPT !.status = "canceled"]
    OBVIOUS
  <2>2. leg \in [Ex -> LegsType]
    BY DEF TypesInv, LegsOK
  <2>3. l.id = leg[ex].id
    BY <2>1, <2>2 DEF LegsType
  <2>4. leg' = [leg EXCEPT ![ex] = l]
    BY <1>8, <2>1
  <2> QED BY <2>2, <2>3, <2>4
<1>10. PICK r : r = [task[t] EXCEPT !.wait[ex] = 0]
  OBVIOUS
<1>11. r.kind = "cancel" /\ r.mine = task[t].mine /\ r.why = task[t].why
       /\ \A e \in Ex : r.wait[e] = IF e = ex THEN 0 ELSE task[t].wait[e]
  BY <1>2, <1>10 DEF CancelCalls
<1>12. OnlyOpen(orders, ex, id)
  BY <1>2, <1>3 DEF CancelKnows
<1>13. ASSUME NEW e \in Ex
       PROVE  /\ OnlyOpen(orders', e, r.wait[e])
              /\ r.wait[e] # 0 => r.wait[e] = leg'[e].id /\ ~ IsFinal(leg'[e].status)
  <2>1. CASE e = ex
    BY <1>7, <1>11, <1>12, <2>1 DEF OnlyOpen
  <2>2. CASE e # ex
    BY <1>2, <1>7, <1>9, <1>11, <2>2 DEF CancelKnows, OnlyOpen
  <2> QED BY <2>1, <2>2
<1>14. CancelKnows(r, phase', leg', orders')
  BY <1>1, <1>2, <1>11, <1>13 DEF CancelKnows
<1>15. task' = [task EXCEPT ![t] = r]
  BY <1>10 DEF CancelLands
<1>16. Knows(r, phase', leg', orders')
  BY <1>11, <1>14 DEF Knows
<1>17. \A u \in Tasks : Knows(task'[u], phase', leg', orders')
  BY <1>1, <1>15, <1>16, OnlyCall
<1>18. BookInv(phase', leg', orders')
  <2>1. ASSUME phase' \in Results \union {"IDLE"}, NEW e \in Ex
        PROVE  NoneOpen(orders', e)
    BY <1>1, <1>7, <2>1 DEF PromptInv, BookInv, NoneOpen
  <2>2. ASSUME phase' = "MONITORING", NEW e \in Ex
        PROVE  Works(leg'[e], orders', e)
    <3>1. Works(leg[e], orders, e)
      BY <1>1, <2>2 DEF PromptInv, BookInv
    <3>2. CASE e = ex
      BY <1>4, <1>7, <1>9, <3>1, <3>2 DEF Works, OnlyOpen
    <3>3. CASE e # ex
      <4>1. leg[e].id \in OrderIds
        BY <3>1, OrdersOfLegs DEF Works
      <4> QED BY <1>7, <1>9, <3>1, <3>3, <4>1 DEF Works, OnlyOpen
    <3> QED BY <3>2, <3>3
  <2> QED BY <2>1, <2>2 DEF BookInv
<1>19. CallsFit(phase', timeout', task') /\ ClockInv'
  BY <1>1, <1>2, ClockKept DEF CallsFit, CancelKnows, PromptInv
<1> QED BY <1>17, <1>18, <1>19, PromptNext

(* When all cancels are answered for no order works any more.               *)
LEMMA CancelledIsClosed ==
    ASSUME TypesInv, Regime, PromptInv, NEW t \in Tasks, CancelSettled(t)
    PROVE  /\ \A ex \in Ex : NoneOpen(orders, ex)
           /\ phase # "PLACING" /\ (task[t].why # "quit" => phase = "MONITORING")
<1>1. task[t].kind = "cancel" /\ \A ex \in Ex : task[t].wait[ex] = 0
  BY DEF CancelSettled
<1>2. CancelKnows(task[t], phase, leg, orders)
  BY <1>1 DEF PromptInv, Knows
<1> QED BY <1>1, <1>2, NothingOpen DEF CancelKnows

LEMMA TwoTimers ==
    /\ \A n : Append(<<>>, Timer("idle", n)) \in Seq(Countdown(n))
    /\ <<>> \o <<Timer("idle", 3), Timer("idle", 3)>> \in Seq(Countdown(3))
    /\ <<>> \o <<Timer("idle", 3), Timer("execute", 1)>> \in Seq(Countdown(3))
<1>1. \A n : Timer("idle", n) \in Countdown(n)
  BY DEF Countdown
<1>2. Timer("execute", 1) \in Countdown(3)
  BY DEF Countdown
<1>3. ASSUME NEW n
      PROVE  Append(<<>>, Timer("idle", n)) \in Seq(Countdown(n))
  <2>1. PICK S : S = Countdown(n)
    OBVIOUS
  <2>2. PICK x \in S : x = Timer("idle", n)
    BY <1>1, <2>1
  <2>3. Append(<<>>, x) \in Seq(S)
    OBVIOUS
  <2> QED BY <2>1, <2>2, <2>3
<1>4. PICK S : S = Countdown(3)
  OBVIOUS
<1>5. PICK x \in S, y \in S : x = Timer("idle", 3) /\ y = Timer("execute", 1)
  BY <1>1, <1>2, <1>4
<1>6. <<>> \o <<x, x>> \in Seq(S) /\ <<>> \o <<x, y>> \in Seq(S)
  <2>1. <<x, x>> \in Seq(S) /\ <<x, y>> \in Seq(S)
    OBVIOUS
  <2>2. <<>> \in Seq(S)
    OBVIOUS
  <2> QED BY <2>1, <2>2, ConcatProperties
<1> QED BY <1>3, <1>4, <1>5, <1>6

LEMMA CancelEndsPrompt ==
    ASSUME TypesInv, Regime, PromptInv, NEW t \in Tasks,
           CancelledByKey(t) \/ CancelledForAmend(t) \/ CancelledByTimeout(t)
    PROVE  PromptInv'
<1>1. /\ CancelSettled(t) /\ task[t].why # "quit" /\ phase' \in Results /\ task' = End(t)
      /\ UNCHANGED <<leg, timeout, screen, orders>>
  BY DEF CancelledByKey, CancelledForAmend, CancelledByTimeout, Results
<1>2. phase = "MONITORING" /\ \A ex \in Ex : NoneOpen(orders, ex)
  BY <1>1, CancelledIsClosed
<1>3. timers = <<>> /\ timeout.leaked = 0 /\ screen # "SYMBOL_SELECT"
  BY <1>2 DEF PromptInv, ClockInv
<1>4. timers' \in Seq(Countdown(3))
  BY <1>3, TwoTimers DEF CancelledByKey, CancelledForAmend, CancelledByTimeout
<1>5. ~ timeout.own
  BY <1>1 DEF PromptInv, CallsFit, CancelSettled
<1>6. ClockInv'
  <2>1. phase' \notin {"IDLE", "PLACING", "MONITORING"}
    BY <1>1 DEF Results
  <2> QED BY <1>1, <1>3, <1>4, <1>5, <2>1 DEF ClockInv
<1>7. \A u \in Tasks : Knows(task'[u], phase', leg', orders')
  BY <1>1, NoCall DEF CancelSettled
<1>8. BookInv(phase', leg', orders') /\ CallsFit(phase', timeout', task')
  BY <1>1, <1>2, <1>5 DEF BookInv, CallsFit, Results
<1> QED BY <1>6, <1>7, <1>8, PromptNext

-----------------------------------------------------------------------------
(* Polling and the single-leg protection *)

(* What the calls are after one began, changed or ended.                    *)
LEMMA CallsNow ==
    ASSUME TypesInv, Regime, NEW r
    PROVE  /\ Settled /\ HasSlot => \A t \in Tasks : Begin(r)[t].kind \in {"none", r.kind}
           /\ \A t \in Tasks : task[t].kind # "none" =>
                \A u \in Tasks : [task EXCEPT ![t] = r][u].kind \in {"none", r.kind}
<1>1. ASSUME Settled, HasSlot
      PROVE  \A t \in Tasks : Begin(r)[t].kind \in {"none", r.kind}
  <2>1. PICK s \in Tasks : s = Slot
    BY <1>1 DEF HasSlot, Slot, Idle
  <2>2. \A t \in Tasks : Begin(r)[t] = IF t = s THEN r ELSE task[t]
    BY <2>1 DEF Begin, TypesInv, TasksOK
  <2> QED BY <1>1, <2>2 DEF Settled, Idle
<1>2. ASSUME NEW t \in Tasks, task[t].kind # "none", NEW u \in Tasks
      PROVE  [task EXCEPT ![t] = r][u].kind \in {"none", r.kind}
  <2>1. u # t => task[u].kind = "none"
    BY <1>2, AloneInFlight DEF Regime
  <2> QED BY <2>1 DEF TypesInv, TasksOK
<1> QED BY <1>1, <1>2

LEMMA NothingInFlight ==
    ASSUME TypesInv, Regime, NEW t \in Tasks, task[t].kind # "none"
    PROVE  \A u \in Tasks : End(t)[u].kind = "none"
BY CallsNow, KindsOfCalls DEF End

LEMMA FitsOtherCalls ==
    ASSUME NEW ph, ph # "PLACING", NEW to, NEW tk, \A t \in Tasks : tk[t].kind # "cancel"
    PROVE  CallsFit(ph, to, tk)
BY DEF CallsFit

LEMMA PollStartPrompt ==
    ASSUME TypesInv, Regime, PromptInv, PollStart
    PROVE  PromptInv'
<1> DEFINE r == [kind |-> "poll", asked |-> [ex \in Ex |-> leg[ex].id],
                 seen |-> [ex \in Ex |-> IF leg[ex].id > 0
                                         THEN Status(ex, leg[ex].id) ELSE "none"]]
<1>1. /\ Settled /\ HasSlot /\ phase = "MONITORING" /\ task' = Begin(r)
      /\ UNCHANGED <<phase, leg, timeout, timers, screen, orders>>
  BY QuietIsSettled DEF PollStart, MayBegin
<1>2. r.kind = "poll" /\ \A ex \in Ex : /\ r.asked[ex] = leg[ex].id
                                        /\ leg[ex].id > 0 => r.seen[ex] = Status(ex, leg[ex].id)
  OBVIOUS
<1> HIDE DEF r
<1>3. ASSUME NEW ex \in Ex, IsFinal(r.seen[ex])
      PROVE  ~ orders[ex][leg[ex].id].open
  <2>1. leg[ex].id # 0
    BY <1>1 DEF PromptInv, BookInv, Works
  <2>2. leg[ex].id \in OrderIds /\ leg[ex].id > 0
    BY <2>1, OrdersOfLegs, BasisConstants DEF OrderIds
  <2> QED BY <1>2, <1>3, <2>2, OpenIsUnfilled
<1>4. Knows(r, phase, leg, orders)
  BY <1>1, <1>2, <1>3 DEF Knows, PollKnows
<1>5. \A t \in Tasks : Knows(task'[t], phase', leg', orders')
  BY <1>1, <1>4, OnlyBegun
<1>6. \A t \in Tasks : task'[t].kind # "cancel"
  BY <1>1, <1>2, CallsNow
<1>7. BookInv(phase', leg', orders') /\ CallsFit(phase', timeout', task') /\ ClockInv'
  BY <1>1, <1>6, FitsOtherCalls, ClockKept DEF PromptInv
<1> QED BY <1>5, <1>7, PromptNext

(* An answer that is final is about an order that works no more.            *)
LEMMA FinalAnswers ==
    ASSUME TypesInv, NEW t \in Tasks, task[t].kind = "poll", PollKnows(task[t], phase, leg, orders),
           NEW ex \in Ex, NEW a \in Answers(t, ex), IsFinal(a), leg[ex].id # 0
    PROVE  ~ orders[ex][leg[ex].id].open
<1>1. task[t].asked[ex] = leg[ex].id
      /\ (IsFinal(task[t].seen[ex]) => ~ orders[ex][leg[ex].id].open)
  BY DEF PollKnows
<1>2. leg[ex].id \in OrderIds /\ (a = task[t].seen[ex] \/ a = Status(ex, leg[ex].id))
  BY <1>1, AnswerFacts
<1>3. CASE a = task[t].seen[ex]
  BY <1>1, <1>3
<1>4. CASE a = Status(ex, leg[ex].id)
  BY <1>2, <1>4, OpenIsUnfilled
<1> QED BY <1>2, <1>3, <1>4

LEMMA PollAnsweredPrompt ==
    ASSUME TypesInv, Regime, PromptInv, NEW t \in Tasks, PollAnswered(t)
    PROVE  PromptInv'
<1>1. PICK ans \in [Ex -> Statuses \union {"none"}] :
        /\ \A ex \in Ex : ans[ex] \in Answers(t, ex)
        /\ leg' = Updated(ans)
        /\ \/ /\ BothFilled(leg')
              /\ timeout' = StoppedTimeout
              /\ phase' = "FILLED"
              /\ timers' = Append(timers, Timer("idle", 4))
              /\ task' = End(t)
           \/ /\ task' = IF params /\ \E ex \in Ex : Exposed(leg', ex)
                         THEN [task EXCEPT ![t] =
                                 ProtectTask(leg', CHOOSE ex \in Ex : Exposed(leg', ex))]
                         ELSE End(t)
              /\ UNCHANGED <<phase, timeout, timers>>
  BY DEF PollAnswered
<1>2. task[t].kind = "poll" /\ UNCHANGED <<screen, orders>>
  BY DEF PollAnswered
<1>3. PollKnows(task[t], phase, leg, orders)
  BY <1>2 DEF PromptInv, Knows
<1>4. phase = "MONITORING" /\ timers = <<>> /\ timeout.leaked = 0 /\ screen # "SYMBOL_SELECT"
  BY <1>3 DEF PollKnows, PromptInv, ClockInv
<1>5. \A ex \in Ex : Works(leg[ex], orders, ex)
  BY <1>4 DEF PromptInv, BookInv
<1>6. LegsOK(leg)
  BY DEF TypesInv
<1>7. \A ex \in Ex : leg'[ex].id = leg[ex].id
                     /\ leg'[ex].status = IF leg[ex].id = 0 \/ ans[ex] = "none"
                                          THEN leg[ex].status ELSE ans[ex]
  BY <1>1, <1>6, UpdatedLegs
<1>8. ASSUME NEW ex \in Ex
      PROVE  Works(leg'[ex], orders', ex)
  <2>1. leg[ex].id # 0 /\ OnlyOpen(orders, ex, leg[ex].id)
        /\ (orders[ex][leg[ex].id].open => ~ IsFinal(leg[ex].status))
    BY <1>5 DEF Works
  <2>2. ASSUME orders[ex][leg[ex].id].open, IsFinal(leg'[ex].status)
        PROVE  FALSE
    <3>1. CASE ans[ex] = "none"
      BY <1>7, <2>1, <2>2, <3>1
    <3>2. CASE ans[ex] # "none"
      <4>1. leg'[ex].status = ans[ex]
        BY <1>7, <2>1, <3>2
      <4> QED BY <1>1, <1>2, <1>3, <2>1, <2>2, <4>1, FinalAnswers
    <3> QED BY <3>1, <3>2
  <2> QED BY <1>2, <1>7, <2>1, <2>2 DEF Works
<1>9. CASE /\ BothFilled(leg') /\ timeout' = StoppedTimeout /\ phase' = "FILLED"
           /\ timers' = Append(timers, Timer("idle", 4)) /\ task' = End(t)
  <2>1. ASSUME NEW ex \in Ex
        PROVE  NoneOpen(orders', ex)
    <3>1. IsFinal(leg'[ex].status)
      BY <1>9 DEF BothFilled, IsFinal
    <3> QED BY <1>8, <3>1 DEF Works, OnlyOpen, NoneOpen
  <2>2. BookInv(phase', leg', orders')
    BY <1>9, <2>1 DEF BookInv
  <2>3. timeout'.leaked = 0 /\ ~ timeout'.own
    <3>1. timeout \in [own : BOOLEAN, leaked : Nat]
      BY DEF TypesInv, ScalarsOK
    <3> QED BY <1>4, <1>9, <3>1 DEF StoppedTimeout
  <2>4. timers' \in Seq(Countdown(4))
    BY <1>4, <1>9, TwoTimers
  <2>5. ClockInv'
    BY <1>2, <1>4, <1>9, <2>3, <2>4 DEF ClockInv
  <2>6. \A u \in Tasks : Knows(task'[u], phase', leg', orders')
    BY <1>2, <1>9, NoCall
  <2>7. CallsFit(phase', timeout', task')
    BY <1>9, <2>3 DEF CallsFit
  <2> QED BY <2>2, <2>5, <2>6, <2>7, PromptNext
<1>10. CASE /\ task' = IF params /\ \E ex \in Ex : Exposed(leg', ex)
                       THEN [task EXCEPT ![t] =
                               ProtectTask(leg', CHOOSE ex \in Ex : Exposed(leg', ex))]
                       ELSE End(t)
            /\ UNCHANGED <<phase, timeout, timers>>
  <2>1. BookInv(phase', leg', orders')
    BY <1>4, <1>8, <1>10 DEF BookInv, Results
  <2>2. ClockInv'
    BY <1>2, <1>10, ClockKept DEF PromptInv
  <2>3. CASE task' = End(t)
    <3>1. \A u \in Tasks : task'[u].kind = "none"
      BY <1>2, <2>3, NothingInFlight
    <3>2. CallsFit(phase', timeout', task')
      BY <1>4, <1>10, <3>1, FitsOtherCalls
    <3> QED BY <2>1, <2>2, <3>1, <3>2, NothingKnown, PromptNext
  <2>4. CASE /\ \E ex \in Ex : Exposed(leg', ex)
             /\ task' = [task EXCEPT ![t] =
                           ProtectTask(leg', CHOOSE ex \in Ex : Exposed(leg', ex))]
    <3>1. PICK e \in Ex : e = (CHOOSE ex \in Ex : Exposed(leg', ex)) /\ Exposed(leg', e)
      BY <2>4
    <3>2. PICK r : r = ProtectTask(leg', e)
      OBVIOUS
    <3>3. r.kind = "protect" /\ r.mine /\ r.ex = e /\ r.id = leg'[e].id /\ r.stage = "cancel"
          /\ (r.market => leg'[e].amends >= MaxAmend)
      BY <3>2 DEF ProtectTask
    <3>4. leg'[Other(e)].status = "filled"
      BY <3>1 DEF Exposed
    <3>5. ProtectKnows(r, phase', leg', orders')
      BY <1>4, <1>10, <3>3, <3>4 DEF ProtectKnows
    <3>6. Knows(r, phase', leg', orders')
      BY <3>3, <3>5 DEF Knows
    <3>7. task' = [task EXCEPT ![t] = r]
      BY <2>4, <3>1, <3>2
    <3>8. \A u \in Tasks : Knows(task'[u], phase', leg', orders')
      BY <1>2, <3>6, <3>7, OnlyCall
    <3>9. \A u \in Tasks : task'[u].kind # "cancel"
      BY <1>2, <3>3, <3>7, CallsNow
    <3>10. CallsFit(phase', timeout', task')
      BY <1>4, <1>10, <3>9, FitsOtherCalls
    <3> QED BY <2>1, <2>2, <3>8, <3>10, PromptNext
  <2> QED BY <1>10, <2>3, <2>4
<1> QED BY <1>1, <1>9, <1>10

(* Orders that close, of themselves or cancelled, break nothing.            *)
Closing(os) == \A ex \in Ex, id \in OrderIds : os[ex][id].open => orders[ex][id].open

LEMMA ClosingKeeps ==
    ASSUME TypesInv, PromptInv, NEW os, Closing(os)
    PROVE  /\ BookInv(phase, leg, os)
           /\ \A t \in Tasks : Knows(task[t], phase, leg, os)
<1>1. \A ex \in Ex : \A i : OnlyOpen(orders, ex, i) => OnlyOpen(os, ex, i)
  BY DEF Closing, OnlyOpen
<1>2. \A ex \in Ex : NoneOpen(orders, ex) => NoneOpen(os, ex)
  BY DEF Closing, NoneOpen
<1>3. ASSUME NEW ex \in Ex, Works(leg[ex], orders, ex)
      PROVE  Works(leg[ex], os, ex) /\ (os[ex][leg[ex].id].open => orders[ex][leg[ex].id].open)
  <2>1. leg[ex].id \in OrderIds
    BY <1>3, OrdersOfLegs DEF Works
  <2> QED BY <1>1, <1>3, <2>1 DEF Works, Closing
<1>4. BookInv(phase, leg, os)
  BY <1>2, <1>3 DEF PromptInv, BookInv
<1>5. ASSUME NEW t \in Tasks
      PROVE  Knows(task[t], phase, leg, os)
  <2>1. Knows(task[t], phase, leg, orders)
    BY DEF PromptInv
  <2>2. task[t].kind = "exec" => ExecKnows(task[t], phase, os)
    BY <1>1, <2>1 DEF Knows, ExecKnows
  <2>3. task[t].kind = "cancel" => CancelKnows(task[t], phase, leg, os)
    BY <1>1, <2>1 DEF Knows, CancelKnows
  <2>4. ASSUME task[t].kind = "protect"
        PROVE  ProtectKnows(task[t], phase, leg, os)
    <3>1. task[t].ex \in Ex
      BY <2>4, CallKinds DEF TypesInv, TasksOK, ProtectCalls
    <3> QED BY <1>2, <2>1, <2>4, <3>1 DEF Knows, ProtectKnows
  <2>5. ASSUME task[t].kind = "poll"
        PROVE  PollKnows(task[t], phase, leg, os)
    <3>1. PollKnows(task[t], phase, leg, orders)
      BY <2>1, <2>5 DEF Knows
    <3>2. \A ex \in Ex : Works(leg[ex], orders, ex)
      BY <3>1 DEF PollKnows, PromptInv, BookInv
    <3> QED BY <1>3, <3>1, <3>2 DEF PollKnows
  <2> QED BY <2>1, <2>2, <2>3, <2>4, <2>5 DEF Knows
<1> QED BY <1>4, <1>5

LEMMA FillPrompt ==
    ASSUME TypesInv, PromptInv, NEW ex \in Ex, NEW id \in OrderIds, Fill(ex, id)
    PROVE  PromptInv'
<1>1. UNCHANGED <<phase, leg, timeout, timers, screen, task>>
  BY DEF Fill
<1>2. Closing(orders')
  BY OrderFilled DEF Closing, TypesInv
<1>3. /\ BookInv(phase, leg, orders')
      /\ \A t \in Tasks : Knows(task[t], phase, leg, orders')
  BY <1>2, ClosingKeeps
<1>4. ClockInv' /\ CallsFit(phase', timeout', task')
  BY <1>1, ClockKept DEF PromptInv
<1> QED BY <1>1, <1>3, <1>4, PromptNext

LEMMA ProtectCancelsPrompt ==
    ASSUME TypesInv, Regime, PromptInv, NEW t \in Tasks, ProtectCancels(t)
    PROVE  PromptInv'
<1>1. task[t].kind = "protect" /\ UNCHANGED <<phase, leg, timeout, timers, screen>>
  BY DEF ProtectCancels
<1>2. task[t] \in ProtectCalls /\ ProtectKnows(task[t], phase, leg, orders)
  BY <1>1, CallKinds DEF TypesInv, TasksOK, PromptInv, Knows
<1>3. PICK e \in Ex : e = task[t].ex
  BY <1>2 DEF ProtectCalls
<1>4. PICK id \in OrderIds : id = task[t].id
  BY <1>2 DEF ProtectCalls
<1>5. phase = "MONITORING" /\ id = leg[e].id
  BY <1>2, <1>3, <1>4 DEF ProtectKnows
<1>6. PICK out \in CancelOutcomes(e, id) : orders' = AfterCancel(e, id, out)
  BY <1>3, <1>4 DEF ProtectCancels
<1>7. out.effect
  BY OutcomeFacts DEF Regime
<1>8. OrdersOK(orders)
  BY DEF TypesInv
<1>9. \A x \in Ex, i \in OrderIds : orders'[x][i].open => orders[x][i].open /\ ~ (x = e /\ i = id)
  BY <1>6, <1>7, <1>8, CancelCloses
<1>10. Closing(orders')
  BY <1>9 DEF Closing
<1>11. OnlyOpen(orders, e, id)
  BY <1>5 DEF PromptInv, BookInv, Works
<1>12. NoneOpen(orders', e)
  BY <1>9, <1>11 DEF OnlyOpen, NoneOpen
<1>13. BookInv(phase', leg', orders') /\ Knows(task[t], phase', leg', orders')
  BY <1>1, <1>10, ClosingKeeps
<1>14. PICK r : r = [task[t] EXCEPT !.stage = "place"]
  OBVIOUS
<1>15. task' = End(t) \/ task' = [task EXCEPT ![t] = r]
  BY <1>14 DEF ProtectCancels
<1>16. r.kind = "protect" /\ r.mine = task[t].mine /\ r.ex = e /\ r.id = task[t].id
       /\ r.market = task[t].market /\ r.stage = "place"
  BY <1>2, <1>3, <1>14 DEF ProtectCalls
<1>17. Knows(r, phase', leg', orders')
  <2>1. ProtectKnows(task[t], phase', leg', orders')
    BY <1>1, <1>13 DEF Knows
  <2>2. ProtectKnows(r, phase', leg', orders')
    BY <1>3, <1>12, <1>16, <2>1 DEF ProtectKnows
  <2> QED BY <1>16, <2>2 DEF Knows
<1>18. \A u \in Tasks : Knows(task'[u], phase', leg', orders') /\ task'[u].kind # "cancel"
  <2>1. CASE task' = End(t)
    BY <1>1, <2>1, NothingInFlight, NothingKnown
  <2>2. CASE task' = [task EXCEPT ![t] = r]
    BY <1>1, <1>16, <1>17, <2>2, OnlyCall, CallsNow
  <2> QED BY <1>15, <2>1, <2>2
<1>19. CallsFit(phase', timeout', task') /\ ClockInv'
  BY <1>1, <1>5, <1>18, FitsOtherCalls, ClockKept DEF PromptInv
<1> QED BY <1>13, <1>18, <1>19, PromptNext

LEMMA ProtectPlacesPrompt ==
    ASSUME TypesInv, Regime, PromptInv, NEW t \in Tasks, ProtectPlaces(t)
    PROVE  PromptInv'
<1>1. task[t].kind = "protect" /\ task[t].stage = "place" /\ task' = End(t)
      /\ UNCHANGED <<phase, timeout, timers, screen>>
  BY DEF ProtectPlaces
<1>2. task[t] \in ProtectCalls /\ CallFits(task[t], leg) /\ ProtectKnows(task[t], phase, leg, orders)
  BY <1>1, CallKinds DEF TypesInv, TasksOK, PromptInv, Knows
<1>3. PICK e \in Ex : e = task[t].ex
  BY <1>2 DEF ProtectCalls
<1>4. phase = "MONITORING" /\ task[t].mine /\ task[t].id = leg[e].id /\ NoneOpen(orders, e)
  BY <1>1, <1>2, <1>3 DEF ProtectKnows
<1>5. HeldBy(task[t], e) = {}
  BY <1>1, <1>3, <1>4 DEF HeldBy
<1>6. FreeIds(e) # {} /\ ~ MayRefuse(e)
  BY <1>1, <1>4, <1>5, SomeIdIsFree
<1>7. PICK o : o = IF task[t].market THEN Executed ELSE Working
  OBVIOUS
<1>8. o \in OrderType /\ (o.open => o.exec < Qty) /\ (o.open => ~ task[t].market)
  BY <1>7, NewOrders
<1>9. PICK id \in OrderIds : id = FreshId(e)
  BY <1>6, FreshOrder
<1>10. orders' = WithOrder(e, id, o) /\ leg' = Replaced(t, id)
  BY <1>3, <1>6, <1>7, <1>9 DEF ProtectPlaces, Regime
<1>11. OrdersOK(orders) /\ LegsOK(leg)
  BY DEF TypesInv
<1>12. \A x \in Ex, i \in OrderIds :
          orders'[x][i] = IF x = e /\ i = id THEN o ELSE orders[x][i]
  BY <1>8, <1>10, <1>11, OrderSet
<1>13. /\ \A x \in Ex : x # e => leg'[x] = leg[x]
       /\ leg'[e].id = id /\ leg'[e].status = IF task[t].market THEN "filled" ELSE "new"
  BY <1>2, <1>3, <1>4, <1>10, <1>11, ReplacedLeg DEF TypesInv
<1>14. ASSUME NEW x \in Ex
       PROVE  Works(leg'[x], orders', x)
  <2>1. CASE x = e
    <3>1. OnlyOpen(orders', e, id)
      BY <1>4, <1>12 DEF OnlyOpen, NoneOpen
    <3>2. id # 0
      BY BasisConstants DEF OrderIds
    <3>3. orders'[e][id].open => leg'[e].status = "new"
      BY <1>8, <1>12, <1>13
    <3> QED BY <1>13, <2>1, <3>1, <3>2, <3>3 DEF Works, IsFinal
  <2>2. CASE x # e
    <3>1. Works(leg[x], orders, x)
      BY <1>4 DEF PromptInv, BookInv
    <3>2. leg[x].id \in OrderIds
      BY <3>1, OrdersOfLegs DEF Works
    <3> QED BY <1>12, <1>13, <2>2, <3>1, <3>2 DEF Works, OnlyOpen
  <2> QED BY <2>1, <2>2
<1>15. BookInv(phase', leg', orders')
  BY <1>1, <1>4, <1>14 DEF BookInv, Results
<1>16. \A u \in Tasks : task'[u].kind = "none"
  BY <1>1, NothingInFlight
<1>17. CallsFit(phase', timeout', task') /\ ClockInv'
  BY <1>1, <1>4, <1>16, FitsOtherCalls, ClockKept DEF PromptInv
<1> QED BY <1>15, <1>16, <1>17, NothingKnown, PromptNext

-----------------------------------------------------------------------------
(* Screens, recovery and the environment *)

LEMMA SettledPrompt ==
    ASSUME ClockInv', BookInv(phase', leg', orders'), phase' # "PLACING",
           \A t \in Tasks : task'[t].kind = "none"
    PROVE  PromptInv'
BY FitsOtherCalls, NothingKnown, PromptNext

LEMMA TimerPrompt ==
    ASSUME TypesInv, Regime, PromptInv, ReturnToIdle \/ ReExecute \/ Tick
    PROVE  PromptInv'
<1>1. Quiet
  BY DEF ReturnToIdle, ReExecute, Tick
<1>2. (\A t \in Tasks : task[t].kind = "none") /\ phase # "PLACING"
  BY <1>1, QuietIsSettled DEF Settled, Idle
<1>3. CASE ReturnToIdle
  <2>1. ClockInv' /\ phase \in Results \union {"IDLE"}
    BY <1>3, ReturnPrompt DEF PromptInv
  <2>2. phase' = "IDLE" /\ UNCHANGED <<leg, orders, task>>
    BY <1>3 DEF ReturnToIdle
  <2>3. BookInv(phase', leg', orders')
    BY <2>1, <2>2 DEF PromptInv, BookInv
  <2> QED BY <1>2, <2>1, <2>2, <2>3, SettledPrompt
<1>4. CASE ReExecute
  <2>1. ClockInv' /\ UNCHANGED <<phase, leg, task, orders>>
    BY <1>4, ReExecutePrompt DEF PromptInv
  <2> QED BY <1>2, <2>1, SettledPrompt DEF PromptInv
<1>5. CASE Tick
  <2>1. ClockInv'
    BY <1>5, TickPrompt DEF PromptInv
  <2>2. UNCHANGED <<phase, leg, task, orders>>
    BY <1>5 DEF Tick
  <2> QED BY <1>2, <2>1, <2>2, SettledPrompt DEF PromptInv
<1> QED BY <1>3, <1>4, <1>5

LEMMA ScreenPrompt ==
    ASSUME TypesInv, Regime, PromptInv, UserSelect \/ UserBack
    PROVE  PromptInv'
<1>1. Settled /\ DueTimers = {}
  BY QuietIsSettled DEF UserSelect, UserBack, UserMayAct, Regime
<1>2. phase = "IDLE" /\ timers = <<>> /\ timeout.leaked = 0
  <2>1. CASE UserSelect
    BY <2>1 DEF UserSelect, PromptInv, ClockInv
  <2>2. CASE UserBack
    BY <1>1, <2>2, IdleHasNoTimer DEF UserBack, PromptInv, ClockInv
  <2> QED BY <2>1, <2>2
<1>3. timeout' = StoppedTimeout /\ UNCHANGED <<phase, timers, orders>>
  BY DEF UserSelect, UserBack
<1>4. timeout'.leaked = 0 /\ ~ timeout'.own
  BY <1>2, <1>3 DEF StoppedTimeout, TypesInv, ScalarsOK
<1>5. ClockInv'
  BY <1>2, <1>3, <1>4 DEF ClockInv, Results
<1>6. BookInv(phase', leg', orders')
  BY <1>2, <1>3 DEF PromptInv, BookInv
<1>7. CASE UserBack
  <2>1. \A t \in Tasks : task'[t].kind = "none"
    BY <1>1, <1>7 DEF UserBack, Detach, Settled, Idle
  <2> QED BY <1>2, <1>3, <1>5, <1>6, <2>1, SettledPrompt
<1>8. CASE UserSelect
  <2> DEFINE r == [kind |-> "recover", seen |-> [ex \in Ex |-> OpenIds(ex)]]
  <2>1. task' = Detach(Begin(r), Ex) /\ HasSlot
    BY <1>8 DEF UserSelect, MayBegin
  <2>2. \A ex \in Ex : OpenIds(ex) = {}
    BY <1>2 DEF PromptInv, BookInv, NoneOpen, OpenIds
  <2>3. r.kind = "recover" /\ \A ex \in Ex : r.seen[ex] = {}
    BY <2>2
  <2> HIDE DEF r
  <2>4. Knows(r, phase', leg', orders')
    BY <1>2, <1>3, <2>3 DEF Knows, RecoverKnows
  <2>5. \A t \in Tasks : Knows(Begin(r)[t], phase', leg', orders')
                         /\ Begin(r)[t].kind \in {"none", "recover"}
    BY <1>1, <2>1, <2>3, <2>4, OnlyBegun, CallsNow
  <2>6. \A t \in Tasks : task'[t] = Begin(r)[t]
    BY <2>1, <2>5 DEF Detach
  <2>7. \A t \in Tasks : task'[t].kind # "cancel"
    BY <2>5, <2>6
  <2>8. CallsFit(phase', timeout', task')
    BY <1>2, <1>3, <2>7, FitsOtherCalls
  <2> QED BY <1>5, <1>6, <2>5, <2>6, <2>8, PromptNext
<1> QED BY <1>7, <1>8

LEMMA RecoveredPrompt ==
    ASSUME TypesInv, Regime, PromptInv, NEW t \in Tasks, Recovered(t)
    PROVE  PromptInv'
<1>1. task[t].kind = "recover" /\ UNCHANGED <<timeout, timers, screen, orders>>
      /\ task' = Detach(End(t), {ex \in Ex : leg'[ex] # leg[ex]})
  BY DEF Recovered
<1>2. RecoverKnows(task[t], phase)
  BY <1>1 DEF PromptInv, Knows
<1>3. phase = "IDLE" /\ \A ex \in Ex : OpenIds(ex) = {} /\ task[t].seen[ex] = {}
  BY <1>2 DEF RecoverKnows, PromptInv, BookInv, NoneOpen, OpenIds
<1>4. ASSUME NEW ex \in Ex
      PROVE  leg'[ex].id = 0
  <2>1. PICK l \in RecoveredLegs(t, ex) : l = leg'[ex]
    BY DEF Recovered
  <2>2. l = NoLeg
    BY <1>1, <1>3, RecoveredLeg DEF Regime
  <2> QED BY <2>1, <2>2, NoLegs
<1>5. phase' = "IDLE"
  BY <1>4 DEF Recovered
<1>6. BookInv(phase', leg', orders') /\ ClockInv'
  BY <1>1, <1>3, <1>5, ClockKept DEF PromptInv, BookInv
<1>7. \A u \in Tasks : task'[u].kind = "none"
  BY <1>1, NothingInFlight DEF Detach
<1> QED BY <1>5, <1>6, <1>7, SettledPrompt

LEMMA ExitPrompt ==
    ASSUME TypesInv, Regime, PromptInv, NEW t \in Tasks, Exit(t)
    PROVE  PromptInv'
<1>1. CancelSettled(t) /\ task' = End(t) /\ task[t].kind = "cancel"
      /\ UNCHANGED <<phase, leg, timeout, timers, screen, orders>>
  BY DEF Exit, CancelSettled
<1>2. phase # "PLACING"
  BY <1>1, CancelledIsClosed
<1>3. \A u \in Tasks : task'[u].kind = "none"
  BY <1>1, NothingInFlight
<1> QED BY <1>1, <1>2, <1>3, ClockKept, SettledPrompt DEF PromptInv

LEMMA GracePrompt ==
    ASSUME TypesInv, PromptInv, NEW ex \in Ex, GraceElapses(ex)
    PROVE  PromptInv'
<1>1. leg' = [leg EXCEPT ![ex].old = TRUE]
      /\ UNCHANGED <<phase, timeout, timers, screen, orders, task>>
  BY DEF GraceElapses
<1>2. PICK l : l = [leg[ex] EXCEPT !.old = TRUE]
  OBVIOUS
<1>3. leg \in [Ex -> LegsType]
  BY DEF TypesInv, LegsOK
<1>4. l.id = leg[ex].id /\ l.status = leg[ex].status /\ l.amends = leg[ex].amends
  BY <1>2, <1>3 DEF LegsType
<1>5. leg' = [leg EXCEPT ![ex] = l]
  BY <1>1, <1>2
<1>6. \A x \in Ex : leg'[x].id = leg[x].id /\ leg'[x].status = leg[x].status
                    /\ leg'[x].amends = leg[x].amends
  BY <1>3, <1>4, <1>5
<1>7. BookInv(phase', leg', orders')
  BY <1>1, <1>6 DEF PromptInv, BookInv, Works
<1>8. ASSUME NEW t \in Tasks
      PROVE  Knows(task'[t], phase', leg', orders')
  <2>1. Knows(task[t], phase, leg, orders)
    BY DEF PromptInv
  <2>2. ASSUME task[t].kind = "protect"
        PROVE  ProtectKnows(task[t], phase, leg', orders)
    <3>1. task[t].ex \in Ex
      BY <2>2, CallKinds DEF TypesInv, TasksOK, ProtectCalls
    <3>2. Other(task[t].ex) \in Ex
      BY <3>1, OtherExchange
    <3> QED BY <1>6, <2>1, <2>2, <3>1, <3>2 DEF Knows, ProtectKnows
  <2> QED BY <1>1, <1>6, <2>1, <2>2 DEF Knows, PollKnows, CancelKnows
<1>9. ClockInv' /\ CallsFit(phase', timeout', task')
  BY <1>1, ClockKept DEF PromptInv
<1> QED BY <1>7, <1>8, <1>9, PromptNext

-----------------------------------------------------------------------------
LEMMA PromptInit == Init => PromptInv
<1> SUFFICES ASSUME Init
             PROVE  PromptInv
  OBVIOUS
<1>1. phase = "IDLE" /\ timers = <<>> /\ ~ timeout.own /\ timeout.leaked = 0
      /\ \A t \in Tasks : task[t].kind = "none"
  BY KindsOfCalls DEF Init
<1>2. ClockInv
  BY <1>1 DEF ClockInv, Results
<1>3. \A ex \in Ex : NoneOpen(orders, ex)
  BY DEF Init, NoneOpen
<1>4. BookInv(phase, leg, orders)
  BY <1>1, <1>3 DEF BookInv
<1> QED BY <1>1, <1>2, <1>4, FitsOtherCalls, NothingKnown DEF PromptInv

LEMMA PromptStays ==
    ASSUME PromptInv, UNCHANGED <<phase, leg, timeout, timers, screen, task, orders>>
    PROVE  PromptInv'
BY ClockKept, PromptNext DEF PromptInv

LEMMA PromptStep ==
    ASSUME Regime, TypesInv, PromptInv, [Next]_vars
    PROVE  PromptInv'
<1>1. CASE UNCHANGED vars \/ FeedChanges \/ ForceExit \/ Exited
  BY <1>1, PromptStays DEF vars, FeedChanges, ForceExit, Exited
<1>2. CASE TimeoutFires \/ ReturnToIdle \/ ReExecute \/ Tick \/ PollStart
  BY <1>2, CancelKeysPrompt, TimerPrompt, PollStartPrompt
<1>3. ASSUME NEW t \in Tasks,
             \/ ExecPriced(t) \/ ExecUnpriced(t) \/ ExecPlaced(t) \/ ExecRejected(t)
             \/ DeadExecEnds(t)
             \/ CancelledByKey(t) \/ CancelledForAmend(t) \/ CancelledByTimeout(t)
             \/ PollFailed(t) \/ PollAnswered(t) \/ ProtectCancels(t) \/ ProtectPlaces(t)
             \/ Recovered(t) \/ Exit(t)
             \/ \E ex \in Ex : PlacementLands(t, ex) \/ CancelLands(t, ex)
      PROVE  PromptInv'
  <2>1. CASE ExecPriced(t) \/ ExecPlaced(t) \/ \E ex \in Ex : PlacementLands(t, ex) \/ CancelLands(t, ex)
    BY <2>1, PlacingPrompt, PlacedPrompt, LandingPrompt, CancelLandsPrompt
  <2>2. CASE CancelledByKey(t) \/ CancelledForAmend(t) \/ CancelledByTimeout(t) \/ Exit(t)
    BY <2>2, CancelEndsPrompt, ExitPrompt
  <2>3. CASE PollAnswered(t) \/ ProtectCancels(t) \/ ProtectPlaces(t) \/ Recovered(t)
    BY <2>3, PollAnsweredPrompt, ProtectCancelsPrompt, ProtectPlacesPrompt, RecoveredPrompt
  <2> QED BY <1>3, <2>1, <2>2, <2>3, NothingFails
<1>4. CASE User
  BY <1>4, ExecutePrompt, CancelKeysPrompt, ScreenPrompt DEF User
<1>5. ASSUME NEW ex \in Ex, GraceElapses(ex) \/ \E id \in OrderIds : Fill(ex, id)
      PROVE  PromptInv'
  BY <1>5, GracePrompt, FillPrompt
<1> QED BY <1>1, <1>2, <1>3, <1>4, <1>5 DEF Next, Program, Environment

-----------------------------------------------------------------------------
(* An answer that finds its order replaced would take a call in between.    *)
SessionOK == TypesInv /\ ExecInv /\ PromptInv /\ misread = {}

LEMMA PromptSessionInit == Init => SessionOK
BY TypesInit, ExecInit, PromptInit DEF SessionOK, Init

LEMMA PromptSessionStep ==
    ASSUME Regime, SessionOK, [Next]_vars
    PROVE  SessionOK'
<1>1. TypesInv' /\ ExecInv' /\ PromptInv'
  BY TypesStep, ExecStep, PromptStep DEF SessionOK
<1>2. ASSUME NEW t \in Tasks, task[t].kind = "poll", NEW ans
      PROVE  Misread(t, ans) = {}
  <2>1. \A ex \in Ex : task[t].asked[ex] = leg[ex].id
    BY <1>2 DEF SessionOK, PromptInv, Knows, PollKnows
  <2> QED BY <2>1 DEF Misread, SessionOK
<1>3. misread' = {}
  BY <1>2, MisreadStep DEF SessionOK
<1> QED BY <1>1, <1>3 DEF SessionOK

(* An idle session has left no order working: nothing escapes cancel, time- *)
(* out, single-leg protection, leaving the dashboard and coming back, when  *)
(* the exchanges answer promptly and refuse nothing.                        *)
THEOREM IdleLeavesNoOrderTheorem ==
    ASSUME Regime
    PROVE  Spec => []IdleLeavesNoOrder
<1>1. SessionOK /\ [Next]_vars => SessionOK'
  BY PromptSessionStep
<1>2. SessionOK => IdleLeavesNoOrder
  BY DEF SessionOK, PromptInv, BookInv, NoneOpen, OpenIds, IdleLeavesNoOrder
<1> QED BY <1>1, <1>2, PromptSessionInit, PTL DEF Spec

(* Replacing an order, by amend or by the protection, never leaves two of   *)
(* them working on one exchange.                                            *)
THEOREM OneWorkingOrderTheorem ==
    ASSUME Regime
    PROVE  Spec => []OneWorkingOrder
<1>1. SessionOK /\ [Next]_vars => SessionOK'
  BY PromptSessionStep
<1>2. ASSUME SessionOK, NEW ex \in Ex
      PROVE  Cardinality(OpenIds(ex)) <= 1
  <2>1. \E i : OnlyOpen(orders, ex, i)
    <3>1. CASE phase = "PLACING"
      <4>1. PICK t \in Tasks : task[t].kind = "exec"
        BY <1>2, <3>1 DEF SessionOK, PromptInv, CallsFit
      <4> QED BY <1>2, <4>1 DEF SessionOK, PromptInv, Knows, ExecKnows
    <3>2. CASE phase = "MONITORING"
      BY <1>2, <3>2 DEF SessionOK, PromptInv, BookInv, Works
    <3>3. CASE phase \in Results \union {"IDLE"}
      BY <1>2, <3>3, NothingOpen DEF SessionOK, PromptInv, BookInv
    <3> QED BY <1>2, <3>1, <3>2, <3>3 DEF SessionOK, TypesInv, ScalarsOK, Phases, Results
  <2>2. PICK i : OnlyOpen(orders, ex, i)
    BY <2>1
  <2>3. OpenIds(ex) = {} \/ OpenIds(ex) = {i}
    BY <2>2 DEF OnlyOpen, OpenIds
  <2>4. Cardinality(OpenIds(ex)) \in {0, 1}
    BY <2>3, FS_EmptySet, FS_Singleton
  <2> QED BY <2>4
<1>3. SessionOK => OneWorkingOrder
  BY <1>2 DEF OneWorkingOrder
<1> QED BY <1>1, <1>3, PromptSessionInit, PTL DEF Spec

(* The market order of the protection is placed only when the amends are    *)
(* used up, the other leg has executed and the order it replaces is gone.   *)
THEOREM MarketIsLastResortTheorem ==
    ASSUME Regime
    PROVE  Spec => MarketIsLastResort
<1>1. SessionOK /\ [Next]_vars => SessionOK'
  BY PromptSessionStep
<1>2. ASSUME SessionOK, NEW t \in Tasks, ProtectPlaces(t), task[t].market
      PROVE  /\ leg[task[t].ex].amends = MaxAmend
             /\ Status(Other(task[t].ex), leg[Other(task[t].ex)].id) = "filled"
             /\ OpenIds(task[t].ex) = {}
  <2>1. task[t].kind = "protect" /\ task[t].stage = "place"
    BY <1>2 DEF ProtectPlaces
  <2>2. task[t] \in ProtectCalls /\ ProtectKnows(task[t], phase, leg, orders)
    BY <1>2, <2>1, CallKinds DEF SessionOK, TypesInv, TasksOK, PromptInv, Knows
  <2>3. PICK e \in Ex : e = task[t].ex
    BY <2>2 DEF ProtectCalls
  <2>4. TypesInv /\ ExecInv /\ misread = {}
    BY <1>2 DEF SessionOK
  <2>5. leg[e].amends = MaxAmend
    <3>1. leg[e].amends >= MaxAmend
      BY <1>2, <2>2, <2>3 DEF ProtectKnows
    <3>2. leg[e].amends \in 0 .. MaxAmend + AtATime - 1 /\ AtATime = 1
      BY <2>4, OrdersOfLegs, CallsAtATime DEF LegsType, Regime
    <3> QED BY <3>1, <3>2, BasisConstants
  <2>6. PICK o \in Ex : o = Other(e)
    BY OtherExchange
  <2>7. leg[o].status = "filled"
    BY <2>2, <2>3, <2>6 DEF ProtectKnows
  <2>8. leg[o].id \in OrderIds /\ orders[o][leg[o].id].exec = Qty
    BY <2>4, <2>7, OrdersOfLegs DEF ExecInv, LegsExecuted
  <2>9. orders[o][leg[o].id] \in OrderType
    BY <2>4, <2>8 DEF TypesInv, OrdersOK
  <2>10. Status(o, leg[o].id) = "filled"
    BY <2>8, <2>9, StatusFacts DEF Status
  <2>11. OpenIds(e) = {}
    BY <2>1, <2>2, <2>3 DEF ProtectKnows, NoneOpen, OpenIds
  <2> QED BY <2>3, <2>5, <2>6, <2>10, <2>11
<1>3. SessionOK /\ [Next]_vars =>
        [\A t \in Tasks :
            ProtectPlaces(t) /\ task[t].market =>
               /\ leg[task[t].ex].amends = MaxAmend
               /\ Status(Other(task[t].ex), leg[Other(task[t].ex)].id) = "filled"
               /\ OpenIds(task[t].ex) = {}]_vars
  BY <1>2
<1> QED BY <1>1, <1>3, PromptSessionInit, PTL DEF Spec, MarketIsLastResort

-----------------------------------------------------------------------------
(* How the orders of basis-cli are sized and priced.                        *)

(* The prices are well above what the legs cross the spread by, so that no  *)
(* price to sell at is raised to one tick.                                  *)
Raw(ex, q, bps) == Whole * q[ex].bid - bps * (q["bn"].bid + q["bn"].ask + q["okx"].bid + q["okx"].ask)
PricesAreHigh ==
    \A ex \in Exchanges, q \in Quotes, slip \in Slippages, n \in 0 .. AmendLimit :
        Raw(ex, q, slip + n * AmendBps) >= 3 * (Whole * Ticks[ex])

LEMMA SizingConstants ==
    /\ QtyStep \in Nat \ {0} /\ FirstQty \in Nat \ {0} /\ BnStep \in Nat \ {0} /\ BnMin \in Nat \ {0}
    /\ CtVal \in Nat \ {0} /\ Slippages \subseteq Nat /\ AmendBps \in Nat /\ AmendLimit \in Nat
    /\ \A ex \in Exchanges : Ticks[ex] \in Nat \ {0}
    /\ Quotes \subseteq [Exchanges -> [bid : Nat, ask : Nat]]
BY SizingAssumption

-----------------------------------------------------------------------------
(* Rounding *)

LEMMA Division ==
    ASSUME NEW x \in Int, NEW g \in Nat \ {0}
    PROVE  /\ x \div g \in Int /\ (x \div g) * g <= x /\ x < (x \div g) * g + g
           /\ x % g = 0 => (x \div g) * g = x
<1>1. /\ x \div g \in Int /\ x % g \in 0 .. g - 1
      /\ x = (x \div g) * g + (x % g)
  OBVIOUS
<1> QED BY <1>1

LEMMA Products ==
    ASSUME NEW n \in Int, NEW g \in Nat \ {0}
    PROVE  /\ n * g \in Int /\ (n - 1) * g = n * g - g /\ (n + 1) * g = n * g + g /\ (-n) * g = -(n * g)
           /\ \A m \in Int : n * g <= m * g => n <= m
           /\ \A m \in Int : n * g < m * g => n < m
OBVIOUS

LEMMA FloorFacts ==
    ASSUME NEW x \in Int, NEW g \in Nat \ {0}, NEW n \in Floors(x, g)
    PROVE  n \in Int /\ n * g <= x /\ x <= n * g + g
<1>1. PICK d \in Int : d = x \div g
  BY Division
<1>2. d * g <= x /\ x < d * g + g /\ (x % g = 0 => d * g = x) /\ d * g \in Int
  BY <1>1, Division, Products
<1>3. n = d \/ (n = d - 1 /\ x % g = 0)
  BY <1>1 DEF Floors
<1>4. (d - 1) * g = d * g - g
  BY Products
<1> QED BY <1>2, <1>3, <1>4

LEMMA AboveFacts ==
    ASSUME NEW x \in Int, NEW g \in Nat \ {0}
    PROVE  /\ Above(x, g) \in Int /\ x <= Above(x, g) * g /\ Above(x, g) * g < x + g
           /\ x % g = 0 => Above(x, g) * g = x
<1>1. PICK e \in Int : e = (-x) \div g
  BY Division
<1>2. e * g <= -x /\ -x < e * g + g /\ e * g \in Int /\ (-e) * g = -(e * g)
  BY <1>1, Division, Products
<1>3. Above(x, g) = -e
  BY <1>1 DEF Above
<1>4. ASSUME x % g = 0
      PROVE  (-e) * g = x
  <2>1. PICK d \in Int : d * g = x
    BY <1>4, Division
  <2>2. (-d) * g = -x /\ (-d) * g < (e + 1) * g /\ e * g <= (-d) * g
    BY <1>2, <2>1, Products
  <2>3. -d < e + 1 /\ e <= -d
    BY <2>2, Products
  <2>4. -e = d
    BY <2>3
  <2> QED BY <2>1, <2>4
<1> QED BY <1>2, <1>3, <1>4

LEMMA CeilingFacts ==
    ASSUME NEW x \in Int, NEW g \in Nat \ {0}, NEW n \in Ceilings(x, g)
    PROVE  n \in Int /\ x <= n * g /\ n * g <= x + g
<1>1. PICK d \in Int : d = Above(x, g)
  BY AboveFacts
<1>2. x <= d * g /\ d * g < x + g /\ (x % g = 0 => d * g = x) /\ d * g \in Int
  BY <1>1, AboveFacts, Products
<1>3. CASE n = d
  BY <1>2, <1>3
<1>4. CASE n = x \div g + 1 /\ x % g = 0
  <2>1. PICK e \in Int : e = x \div g /\ e * g = x
    BY <1>4, Division
  <2>2. (e + 1) * g = e * g + g
    BY Products
  <2> QED BY <1>4, <2>1, <2>2
<1> QED BY <1>1, <1>3, <1>4 DEF Ceilings

(* Binance trades a lot more or less than it is asked for.                  *)
LEMMA BnLotFacts ==
    ASSUME NEW q \in Nat, q >= BnMin, NEW r \in BnLots(q)
    PROVE  r \in Nat /\ r >= BnMin /\ q - BnStep <= r /\ r <= q + BnStep
<1>1. PICK n \in Floors(q, BnStep), min \in {BnMin, BnMin + 1} :
         r = IF n * BnStep < min THEN Above(min, BnStep) * BnStep ELSE n * BnStep
  BY DEF BnLots
<1>2. n \in Int /\ n * BnStep \in Int /\ n * BnStep <= q /\ q <= n * BnStep + BnStep
  BY FloorFacts, SizingConstants, Products
<1>3. PICK a \in Int : a = Above(min, BnStep) * BnStep /\ min <= a /\ a < min + BnStep
  <2>1. min \in Int /\ BnStep \in Nat \ {0}
    BY SizingConstants
  <2>2. PICK m : m = Above(min, BnStep)
    OBVIOUS
  <2>3. m \in Int /\ min <= m * BnStep /\ m * BnStep < min + BnStep
    BY <2>1, <2>2, AboveFacts
  <2>4. m * BnStep \in Int
    BY <2>1, <2>3, Products
  <2> QED BY <2>2, <2>3, <2>4
<1> QED BY <1>1, <1>2, <1>3, SizingConstants

(* OKX trades at most a contract less, if it is asked for one at all.       *)
LEMMA OkxFacts ==
    ASSUME NEW q \in Nat, q >= CtVal, NEW r \in OkxContracts(q)
    PROVE  r \in Nat /\ q - CtVal <= r /\ r <= q
<1>1. PICK n \in Floors(q, CtVal) : r = CtVal * AtLeast(1, n)
  BY DEF OkxContracts
<1>2. n \in Int /\ n * CtVal \in Int /\ n * CtVal <= q /\ q <= n * CtVal + CtVal
  BY FloorFacts, SizingConstants, Products
<1>3. CASE n >= 1
  <2>1. r = n * CtVal
    BY <1>1, <1>2, <1>3, SizingConstants DEF AtLeast
  <2>2. r >= 0
    BY <1>2, <1>3, <2>1, SizingConstants
  <2> QED BY <1>2, <2>1, <2>2, SizingConstants
<1>4. CASE n < 1
  <2>1. r = CtVal
    BY <1>1, <1>2, <1>4, SizingConstants DEF AtLeast
  <2>2. n <= 0 /\ n * CtVal <= 0
    BY <1>2, <1>4, SizingConstants
  <2> QED BY <1>2, <2>1, <2>2, SizingConstants
<1> QED BY <1>2, <1>3, <1>4

(* Rounded for its side, a price is at most a tick further than it was.     *)
LEMMA BuyRounded ==
    ASSUME NEW raw \in Nat, NEW tick \in Nat \ {0}, NEW p \in Rounded(raw, "buy", tick)
    PROVE  p \in Nat /\ raw <= Whole * p /\ Whole * p <= raw + Whole * tick
<1>1. PICK g \in Nat \ {0} : g = Whole * tick
  BY DEF Whole
<1>2. PICK n \in Ceilings(raw, g) : p = AtLeast(tick, n * tick)
  BY <1>1 DEF Rounded
<1>3. n \in Int /\ raw <= n * g /\ n * g <= raw + g
  BY CeilingFacts
<1>4. n * g = Whole * (n * tick) /\ n * tick \in Int
  BY <1>1, <1>3 DEF Whole
<1>5. CASE n * tick < tick
  <2>1. n <= 0
    BY <1>3, <1>5
  <2>2. n * g <= 0
    BY <1>3, <2>1
  <2> QED BY <1>1, <1>2, <1>3, <1>5, <2>2 DEF AtLeast
<1>6. CASE ~ n * tick < tick
  BY <1>1, <1>2, <1>3, <1>4, <1>6 DEF AtLeast
<1> QED BY <1>5, <1>6

LEMMA SellRounded ==
    ASSUME NEW raw \in Int, NEW tick \in Nat \ {0}, NEW p \in Rounded(raw, "sell", tick),
           raw >= 2 * (Whole * tick)
    PROVE  p \in Nat /\ raw - Whole * tick <= Whole * p /\ Whole * p <= raw
<1>1. PICK g \in Nat \ {0} : g = Whole * tick
  BY DEF Whole
<1>2. PICK n \in Floors(raw, g) : p = AtLeast(tick, n * tick)
  BY <1>1 DEF Rounded
<1>3. n \in Int /\ n * g <= raw /\ raw <= n * g + g
  BY FloorFacts
<1>4. n * g = Whole * (n * tick) /\ n * tick \in Int
  BY <1>1, <1>3 DEF Whole
<1>5. n >= 1
  BY <1>1, <1>3
<1>6. ~ n * tick < tick
  BY <1>5, <1>3
<1> QED BY <1>1, <1>2, <1>3, <1>4, <1>6 DEF AtLeast

LEMMA QuoteFacts ==
    ASSUME NEW q \in Quotes
    PROVE  \A ex \in Exchanges : q[ex].bid \in Nat /\ q[ex].ask \in Nat
BY SizingConstants

(* What an order at price is beyond what was asked for, bps from a quote.   *)
Crossing(ex, side, q, bps, price) ==
    IF side = "buy"
    THEN Whole * (price - q[ex].ask) - bps * (q["bn"].bid + q["bn"].ask + q["okx"].bid + q["okx"].ask)
    ELSE Whole * (q[ex].bid - price) - bps * (q["bn"].bid + q["bn"].ask + q["okx"].bid + q["okx"].ask)

LEMMA SentPrices ==
    ASSUME quote \in Quotes, NEW ex \in Exchanges, NEW bps \in Nat, NEW dir,
           Raw(ex, quote, bps) >= 3 * (Whole * Ticks[ex]),
           NEW price \in PriceSent(ex, dir, SideOf(ex, dir), bps)
    PROVE  Crossing(ex, SideOf(ex, dir), quote, bps, price) \in 0 .. 2 * (Whole * Ticks[ex])
<1>1. PICK side \in {"buy", "sell"} : side = SideOf(ex, dir)
  BY DEF SideOf
<1>2. PICK tick \in Nat \ {0} : tick = Ticks[ex]
  BY SizingConstants
<1>3. PICK sum \in Nat :
         sum = quote["bn"].bid + quote["bn"].ask + quote["okx"].bid + quote["okx"].ask
  BY QuoteFacts DEF Exchanges
<1>4. PICK far \in Nat : far = bps * sum
  OBVIOUS
<1>5. PICK bid \in Nat, ask \in Nat : bid = quote[ex].bid /\ ask = quote[ex].ask
  BY QuoteFacts
<1>6. PICK p \in Rounded(RawPrice(ex, side, bps), side, tick) :
         price \in Rounded(Whole * p, side, tick)
  BY <1>1, <1>2 DEF PriceSent
<1>7. CASE side = "buy"
  <2>1. RawPrice(ex, side, bps) = Whole * ask + far /\ Whole * ask + far \in Nat
    BY <1>3, <1>4, <1>5, <1>7 DEF RawPrice, SumOfQuotes, Whole
  <2>2. p \in Nat /\ Whole * ask + far <= Whole * p /\ Whole * p <= Whole * ask + far + Whole * tick
    BY <1>6, <1>7, <2>1, BuyRounded
  <2>3. Whole * p \in Nat
    BY <2>2 DEF Whole
  <2>4. price \in Nat /\ Whole * p <= Whole * price /\ Whole * price <= Whole * p + Whole * tick
    BY <1>6, <1>7, <2>3, BuyRounded
  <2>5. Crossing(ex, side, quote, bps, price) = Whole * (price - ask) - far
    BY <1>3, <1>4, <1>5, <1>7 DEF Crossing
  <2>6. Whole * (price - ask) = Whole * price - Whole * ask
    BY <2>4 DEF Whole
  <2> QED BY <1>1, <1>2, <2>2, <2>4, <2>5, <2>6 DEF Whole
<1>8. CASE side = "sell"
  <2>1. PICK raw \in Int : raw = Whole * bid - far
    <3>1. Whole * bid \in Int
      BY DEF Whole
    <3> QED BY <3>1
  <2>2. RawPrice(ex, side, bps) = raw /\ raw >= 3 * (Whole * tick)
    BY <1>2, <1>3, <1>4, <1>5, <1>8, <2>1 DEF RawPrice, SumOfQuotes, Raw
  <2>3. PICK g \in Nat \ {0} : g = Whole * tick
    BY DEF Whole
  <2>4. p \in Nat /\ raw - g <= Whole * p /\ Whole * p <= raw
    BY <1>6, <1>8, <2>2, <2>3, SellRounded
  <2>5. Whole * p \in Int /\ Whole * p >= 2 * g
    BY <2>2, <2>3, <2>4 DEF Whole
  <2>6. price \in Nat /\ Whole * p - g <= Whole * price /\ Whole * price <= Whole * p
    BY <1>6, <1>8, <2>3, <2>5, SellRounded
  <2>7. Crossing(ex, side, quote, bps, price) = Whole * (bid - price) - far
    BY <1>3, <1>4, <1>5, <1>8 DEF Crossing
  <2>8. Whole * (bid - price) = Whole * bid - Whole * price
    BY <2>6 DEF Whole
  <2> QED BY <1>1, <1>2, <2>1, <2>3, <2>4, <2>6, <2>7, <2>8 DEF Whole
<1> QED BY <1>7, <1>8

-----------------------------------------------------------------------------
(* The session *)

(* The order of a leg, for the terms it was sent on.                        *)
AskedFor(ex, o) ==
    /\ o.side = SideOf(ex, terms.direction) /\ o.amends \in 0 .. AmendLimit
    /\ o.base \in BaseSent(ex, terms.quantity)
    /\ Crossing(ex, o.side, o.at, terms.slippage + o.amends * AmendBps, o.price)
          \in 0 .. 2 * (Whole * Ticks[ex])

IsPair(f) == f = [ex \in Exchanges |-> f[ex]]

SizingInv ==
    /\ direction \in Directions /\ quantity \in Nat \ {0} /\ slippage \in Slippages /\ quote \in Quotes
    /\ terms \in [direction : Directions, quantity : Nat \ {0}, slippage : Slippages]
    /\ IsPair(sent)
    /\ session = "executed" => \A ex \in Exchanges : AskedFor(ex, sent[ex])

LEMMA SentIsAsked ==
    ASSUME PricesAreHigh, quote \in Quotes, NEW ex \in Exchanges,
           NEW tm \in [direction : Directions, quantity : Nat \ {0}, slippage : Slippages],
           NEW amends \in 0 .. AmendLimit, NEW o \in Orders(ex, tm, SideOf(ex, tm.direction), amends),
           terms' = tm
    PROVE  AskedFor(ex, o)'
<1>1. PICK bps \in Nat : bps = tm.slippage + amends * AmendBps
  <2>1. tm.slippage \in Nat /\ amends \in Nat
    <3>1. tm.slippage \in Slippages
      OBVIOUS
    <3>2. amends \in Nat
      BY SizingConstants
    <3> QED BY <3>1, <3>2, SizingConstants
  <2>2. amends * AmendBps \in Nat
    BY <2>1, SizingConstants
  <2> QED BY <2>1, <2>2
<1>2. PICK base \in BaseSent(ex, tm.quantity),
           price \in PriceSent(ex, tm.direction, SideOf(ex, tm.direction), bps) :
         o = [side |-> SideOf(ex, tm.direction), base |-> base, price |-> price,
              amends |-> amends, at |-> quote]
  BY <1>1 DEF Orders
<1>3. Raw(ex, quote, bps) >= 3 * (Whole * Ticks[ex])
  BY <1>1 DEF PricesAreHigh
<1>4. Crossing(ex, SideOf(ex, tm.direction), quote, bps, price) \in 0 .. 2 * (Whole * Ticks[ex])
  BY <1>3, SentPrices
<1> QED BY <1>1, <1>2, <1>4 DEF AskedFor

LEMMA Pairs == \A bn, okx : IsPair(Pair(bn, okx))
BY DEF Pair, IsPair

LEMMA SizingStep ==
    ASSUME PricesAreHigh, SizingInv, [SizingNext]_sizingVars
    PROVE  SizingInv'
<1> USE DEF SizingInv
<1>1. CASE UNCHANGED sizingVars
  BY <1>1 DEF sizingVars, screenParams, AskedFor, IsPair
<1>2. CASE ToggleDirection \/ StartSlippageEdit \/ EndSlippageEdit \/ QuoteMoves
  BY <1>2 DEF ToggleDirection, StartSlippageEdit, EndSlippageEdit, QuoteMoves, MayChange, AskedFor,
       screenParams, IsPair
<1>3. ASSUME NEW delta \in {-1, 1}, AdjustQuantity(delta)
      PROVE  SizingInv'
  <2>1. quantity' \in Nat \ {0}
    <3>1. QtyStep \in Nat \ {0} /\ delta * QtyStep \in Int
      BY SizingConstants
    <3> QED BY <1>3, <3>1 DEF AdjustQuantity, AtLeast
  <2> QED BY <1>3, <2>1 DEF AdjustQuantity, MayChange, AskedFor, IsPair
<1>4. CASE ExecuteSized
  <2>1. PICK tm \in [direction : Directions, quantity : Nat \ {0}, slippage : Slippages] :
           tm = Shown /\ tm.direction = direction
    <3>1. Shown \in [direction : Directions, quantity : Nat \ {0}, slippage : Slippages]
          /\ Shown.direction = direction
      BY DEF Shown
    <3> QED BY <3>1
  <2>2. PICK bn \in Orders("bn", tm, SideOf("bn", tm.direction), 0),
             okx \in Orders("okx", tm, SideOf("okx", tm.direction), 0) : sent' = Pair(bn, okx)
    BY <1>4, <2>1 DEF ExecuteSized
  <2>3. terms' = tm /\ UNCHANGED <<screenParams, quote>>
    BY <1>4, <2>1 DEF ExecuteSized
  <2>4. AskedFor("bn", bn)' /\ AskedFor("okx", okx)'
    <3>1. 0 \in 0 .. AmendLimit /\ "bn" \in Exchanges /\ "okx" \in Exchanges
      BY SizingConstants DEF Exchanges
    <3> QED BY <2>2, <2>3, <3>1, SentIsAsked
  <2>5. \A ex \in Exchanges : AskedFor(ex, sent[ex])'
    BY <2>2, <2>4 DEF Pair, Exchanges
  <2>6. IsPair(sent')
    BY <2>2, Pairs
  <2> QED BY <2>3, <2>5, <2>6 DEF screenParams, IsPair
<1>5. CASE AskOpenOrders
  <2>1. IsPair(sent') /\ terms' = Shown /\ session' = "idle"
        /\ UNCHANGED <<screenParams, quote>>
    BY <1>5, Pairs DEF AskOpenOrders, MayChange
  <2> QED BY <2>1 DEF Shown, screenParams, IsPair
<1>6. CASE OpenOrdersFound \/ EndSession
  <2>1. session' # "executed" /\ UNCHANGED <<screenParams, quote, terms>>
    BY <1>6 DEF OpenOrdersFound, EndSession
  <2>2. IsPair(sent')
    <3>1. \A dir : IsPair([ex \in Exchanges |-> [side |-> SideOf(ex, dir), amends |-> 0]])
      BY DEF IsPair
    <3>2. (\E bn, okx : sent' = Pair(bn, okx))
          \/ \E dir : sent' = [ex \in Exchanges |-> [side |-> SideOf(ex, dir), amends |-> 0]]
      BY <1>6, Zenon DEF OpenOrdersFound, EndSession
    <3>3. CASE \E bn, okx : sent' = Pair(bn, okx)
      BY <3>3, Pairs
    <3>4. CASE \E dir : sent' = [ex \in Exchanges |-> [side |-> SideOf(ex, dir), amends |-> 0]]
      BY <3>4 DEF IsPair
    <3> QED BY <3>2, <3>3, <3>4
  <2> QED BY <2>1, <2>2 DEF screenParams, IsPair
<1>7. ASSUME NEW ex \in Exchanges, ProtectLeg(ex)
      PROVE  SizingInv'
  <2>1. UNCHANGED <<screenParams, quote, terms, session>>
    BY <1>7 DEF ProtectLeg
  <2>2. ASSUME session = "executed"
        PROVE  \A e \in Exchanges : AskedFor(e, sent[e])'
    <3>1. sent[ex].side = SideOf(ex, terms.direction) /\ sent[ex].amends \in 0 .. AmendLimit
          /\ sent[ex].amends < AmendLimit
      BY <1>7, <2>2 DEF ProtectLeg, AskedFor
    <3>2. PICK n \in 0 .. AmendLimit : n = sent[ex].amends + 1
      BY <3>1, SizingConstants
    <3>3. PICK o \in Orders(ex, terms, SideOf(ex, terms.direction), n) :
             sent' = [sent EXCEPT ![ex] = o]
      BY <1>7, <3>1, <3>2 DEF ProtectLeg
    <3>4. AskedFor(ex, o)'
      BY <2>1, <3>3, SentIsAsked
    <3>5. ASSUME NEW e \in Exchanges
          PROVE  AskedFor(e, sent[e])'
      <4>1. CASE e = ex
        BY <3>3, <3>4, <4>1 DEF IsPair
      <4>2. CASE e # ex
        BY <2>1, <2>2, <3>3, <4>2 DEF AskedFor
      <4> QED BY <4>1, <4>2
    <3> QED BY <3>5
  <2>3. IsPair(sent')
    <3>1. PICK o : sent' = [sent EXCEPT ![ex] = o]
      BY <1>7, Zenon DEF ProtectLeg
    <3> QED BY <3>1 DEF IsPair
  <2> QED BY <2>1, <2>2, <2>3 DEF screenParams, IsPair
<1> QED BY <1>1, <1>2, <1>3, <1>4, <1>5, <1>6, <1>7 DEF SizingNext

LEMMA SizingStarts == SizingInit => SizingInv
BY SizingConstants DEF SizingInit, SizingInv, Shown, IsPair

(* Each leg is a lot of its exchange from the quantity that was asked for.  *)
LEMMA BnBase ==
    ASSUME NEW q \in Nat, q >= BnMin, NEW base \in BaseSent("bn", q)
    PROVE  base \in Nat /\ q - 2 * BnStep <= base /\ base <= q + 2 * BnStep
<1>1. PICK n \in BnLots(q) : base \in BnLots(n)
  BY DEF BaseSent
<1>2. n \in Nat /\ n >= BnMin /\ q - BnStep <= n /\ n <= q + BnStep
  BY BnLotFacts
<1>3. base \in Nat /\ n - BnStep <= base /\ base <= n + BnStep
  BY <1>1, <1>2, BnLotFacts
<1> QED BY <1>2, <1>3, SizingConstants

LEMMA LegsAreClose == SizingInv => LegsWithinALot
<1> SUFFICES ASSUME SizingInv, session = "executed", terms.quantity >= AtLeast(BnMin, CtVal)
             PROVE  Distance(sent["bn"].base, sent["okx"].base) < 3 * BnStep + 2 * CtVal
  BY DEF LegsWithinALot
<1>1. PICK q \in Nat : q = terms.quantity
  BY DEF SizingInv
<1>2. q >= BnMin /\ q >= CtVal
  BY <1>1, SizingConstants DEF AtLeast
<1>3. sent["bn"].base \in BaseSent("bn", q) /\ sent["okx"].base \in OkxContracts(q)
  BY <1>1 DEF SizingInv, AskedFor, BaseSent, Exchanges
<1>4. /\ sent["bn"].base \in Nat /\ q - 2 * BnStep <= sent["bn"].base /\ sent["bn"].base <= q + 2 * BnStep
      /\ sent["okx"].base \in Nat /\ q - CtVal <= sent["okx"].base /\ sent["okx"].base <= q
  BY <1>2, <1>3, BnBase, OkxFacts
<1> QED BY <1>4, SizingConstants DEF Distance

LEMMA PricesAreCrossed == SizingInv => PricesCross
<1> SUFFICES ASSUME SizingInv, session = "executed", NEW ex \in Exchanges
             PROVE  Beyond(ex, sent[ex]) \in 0 .. 3 * Whole * Ticks[ex] - 1
  BY DEF PricesCross
<1>1. PICK c : c = Crossing(ex, sent[ex].side, sent[ex].at,
                            terms.slippage + sent[ex].amends * AmendBps, sent[ex].price)
  OBVIOUS
<1>2. Beyond(ex, sent[ex]) = c
  BY <1>1 DEF Beyond, Crossing
<1>3. c \in 0 .. 2 * (Whole * Ticks[ex])
  BY <1>1 DEF SizingInv, AskedFor
<1>4. PICK tick \in Nat \ {0} : tick = Ticks[ex]
  BY SizingConstants
<1> QED BY <1>2, <1>3, <1>4 DEF Whole

(* The orders of an executed session are the ones that were asked for, in   *)
(* size and in price, for every lot, tick, quote and quantity.              *)
THEOREM OrdersAreAskedTheorem ==
    ASSUME PricesAreHigh
    PROVE  SizingSpec => []OrdersAreAsked
<1>1. SizingInv /\ [SizingNext]_sizingVars => SizingInv'
  BY SizingStep
<1>2. SizingInit => SizingInv
  BY SizingStarts
<1>3. SizingInv => OrdersAreAsked
  BY LegsAreClose, PricesAreCrossed DEF OrdersAreAsked
<1> QED BY <1>1, <1>2, <1>3, PTL DEF SizingSpec
=============================================================================
