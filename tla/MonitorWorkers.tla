--------------------------- MODULE MonitorWorkers ---------------------------
(***************************************************************************)
(* The monitor's main thread (src/index.ts) and its worker threads, as far *)
(* as they decide what is subscribed to: discovery on an interval, PUT     *)
(* /config/symbols, the choice of the core symbols, their shards, the      *)
(* start of a worker, the updates it gets, and the life of the sockets of  *)
(* its two connectors.                                                     *)
(*                                                                         *)
(* A connector holds one socket in this.ws, but a socket that it has lost  *)
(* sight of keeps its handlers and its reconnection.  The model follows    *)
(* each line of descent (socket, reconnect timer, next socket, ...) as a   *)
(* chain.                                                                  *)
(*                                                                         *)
(* Abstractions.  A symbol is a number, in alphabetical order; all scores  *)
(* of the universe are zero (nothing sets them).  What both exchanges list *)
(* is one set.  Thresholds and the health reports change no subscription   *)
(* and are left out.                                                       *)
(***************************************************************************)
EXTENDS Integers, Sequences, FiniteSets, SequencesExt, ArrayFilter

CONSTANTS
    Symbols,   \* the symbols there may be
    Hash,      \* fnv1a of each symbol
    Shards,    \* desiredWorkers
    CoreMax,   \* CORE_MAX_SYMBOLS
    Config,    \* SYMBOLS of the configuration
    Listings,  \* what the exchanges may list
    Puts,      \* what PUT /config/symbols may be given
    Conns,     \* the connectors of a worker
    MaxChains, \* bound: sockets and reconnect timers of a connector
    MaxPosts,  \* bound: messages posted to a worker and not taken
    Faults     \* what may go wrong

Workers == 0 .. Shards - 1
Lists == {s \in UNION {[1 .. n -> Symbols] : n \in 0 .. Cardinality(Symbols)} : IsInjective(s)}

ASSUME WorkersAssumption ==
    /\ Symbols \subseteq Nat /\ IsFiniteSet(Symbols)
    /\ Hash \in [Symbols -> Nat] /\ Shards \in Nat \ {0} /\ CoreMax \in Nat \ {0}
    /\ Config \in Lists /\ Config # <<>> /\ Puts \subseteq Lists
    /\ Listings \subseteq SUBSET Symbols
    /\ Conns \subseteq {"binance", "okx"}
    /\ MaxChains \in Nat \ {0} /\ MaxPosts \in Nat \ {0}
    /\ Faults \subseteq {"socket lost", "refresh failed", "init failed"}

VARIABLES
    answer,     \* what discovery.refresh was answered and has not returned yet
    lastGood,   \* SymbolDiscoveryService.lastGoodSymbols
    discovered, \* UniverseManager.discovered
    preferred,  \* preferredSymbols
    assigned,   \* assignedSymbols
    inbox,      \* messages posted to each worker and not taken
    worker,     \* starting (publisher and database), running or dead
    symbols,    \* MonitorWorkerService.symbols
    queue,      \* the queue of each connector: none, live, or ended by close()
    current,    \* this.ws: the chain of a socket that is not closed, or 0
    chains      \* the sockets and timers of each connector

mainVars == <<answer, lastGood, discovered, preferred, assigned>>
connVars == <<queue, current, chains>>
vars == <<mainVars, inbox, worker, symbols, connVars>>

ChainIds == 1 .. MaxChains
NoChain == [state |-> "none", symbols |-> {}, subscribed |-> {}]
Socket(ss) == [state |-> "connecting", symbols |-> ss, subscribed |-> {}]
Timer(ss) == [state |-> "waiting", symbols |-> ss, subscribed |-> {}]

-----------------------------------------------------------------------------
(* The choice of the symbols. *)

(* The symbols of d by name: the n-th has n - 1 before it.                  *)
ByName(d) ==
    [n \in 1 .. Cardinality(d) |-> CHOOSE s \in d : Cardinality({t \in d : t < s}) = n - 1]

Core(ranked) == SubSeq(ranked, 1, IF Len(ranked) < CoreMax THEN Len(ranked) ELSE CoreMax)

(* Mutant: the cap cuts before the preferred symbols are moved up. *)
CutFirst(d, p) ==
    LET core == Core(ByName(d))
    IN  Filter(p, ToSet(core)) \o Filter(core, d \ ToSet(p))

(* Mutant: what is preferred is listed again by name. *)
ListedTwice(d, p) == Core(Filter(p, d) \o ByName(d))

(* selectAssignedSymbols: what is preferred first, then by name.            *)
Selected(d, p) == Core(Filter(p, d) \o ByName(d \ ToSet(p)))

(* assignSymbols *)
Shard(list, w) == {s \in ToSet(list) : Hash[s] % Shards = w}

Init ==
    /\ answer = {}
    /\ lastGood \in Listings \union {ToSet(Config)}   \* the first refresh may fail
    /\ discovered = lastGood
    /\ preferred = Config
    /\ assigned = Selected(discovered, preferred)
    /\ Shards <= Len(assigned)
    /\ inbox = [w \in Workers |-> <<>>]
    /\ worker = [w \in Workers |-> "starting"]
    /\ symbols = [w \in Workers |-> Shard(assigned, w)]
    /\ queue = [w \in Workers |-> [c \in Conns |-> "none"]]
    /\ current = [w \in Workers |-> [c \in Conns |-> 0]]
    /\ chains = [w \in Workers |-> [c \in Conns |-> [i \in ChainIds |-> NoChain]]]

-----------------------------------------------------------------------------
(* The main thread. *)

MayPost == \A w \in Workers : Len(inbox[w]) < MaxPosts

(* Mutant: a worker that is to have nothing is told nothing. *)
SkipEmpty(next) ==
    LET list == IF next = <<>> THEN assigned ELSE next
    IN  /\ assigned' = list
        /\ inbox' = [w \in Workers |->
                        IF worker[w] = "dead" \/ Shard(list, w) = {} THEN inbox[w]
                        ELSE Append(inbox[w], Shard(list, w))]

(* updateWorkerSymbols: an empty list leaves the assignment alone, and is   *)
(* posted all the same.                                                     *)
UpdateWorkerSymbols(next) ==
    LET list == IF next = <<>> THEN assigned ELSE next
    IN  /\ assigned' = list
        /\ inbox' = [w \in Workers |-> IF worker[w] = "dead" THEN inbox[w]
                                       ELSE Append(inbox[w], Shard(list, w))]

PutSymbols ==
    /\ MayPost
    /\ \E put \in Puts :
         /\ preferred' = put
         /\ discovered' = ToSet(put)
         /\ UpdateWorkerSymbols(Selected(ToSet(put), put))
    /\ UNCHANGED <<answer, lastGood, worker, symbols, connVars>>

(* The interval of the discovery: both exchanges answer at some moment, and *)
(* what they listed then is used at a later one.  Bound: one at a time.     *)
AnswerRefresh ==
    /\ answer = {}
    /\ answer' \in Listings
    /\ UNCHANGED <<lastGood, discovered, preferred, assigned, inbox, worker, symbols,
                   connVars>>

ApplyRefresh(good) ==
    /\ MayPost
    /\ lastGood' = good
    /\ discovered' = good
    /\ LET next == Selected(good, preferred)
       IN  IF next # assigned THEN UpdateWorkerSymbols(next)
           ELSE UNCHANGED <<assigned, inbox>>
    /\ answer' = {}
    /\ UNCHANGED <<preferred, worker, symbols, connVars>>

(* Nothing that both list: the last good symbols stay.                      *)
RefreshReturns ==
    \/ answer # {} /\ ApplyRefresh(answer)
    \/ "refresh failed" \in Faults /\ ApplyRefresh(lastGood)

-----------------------------------------------------------------------------
(* A worker. *)

(* The end of the thread: its sockets end with it.                          *)
Dies(w) ==
    /\ worker' = [worker EXCEPT ![w] = "dead"]
    /\ inbox' = [inbox EXCEPT ![w] = <<>>]
    /\ queue' = [queue EXCEPT ![w] = [c \in Conns |-> "none"]]
    /\ current' = [current EXCEPT ![w] = [c \in Conns |-> 0]]
    /\ chains' = [chains EXCEPT ![w] = [c \in Conns |-> [i \in ChainIds |-> NoChain]]]

(* runConnector of every exchange, next to the chains that are left: a new  *)
(* queue, and a new socket in this.ws.                                      *)
Connect(w, left, ss) ==
    LET free(c) == CHOOSE i \in ChainIds : left[c][i] = NoChain
                       /\ \A j \in 1 .. i - 1 : left[c][j] # NoChain
    IN  /\ queue' = [queue EXCEPT ![w] = [c \in Conns |-> "live"]]
        /\ current' = [current EXCEPT ![w] = [c \in Conns |-> free(c)]]
        /\ chains' = [chains EXCEPT ![w] =
                        [c \in Conns |-> [left[c] EXCEPT ![free(c)] = Socket(ss)]]]

(* start(), once the publisher and the database are there: what an update   *)
(* has connected meanwhile stays.                                           *)
Start(w) ==
    /\ worker[w] = "starting"
    /\ worker' = [worker EXCEPT ![w] = "running"]
    /\ \/ symbols[w] # {} /\ Connect(w, chains[w], symbols[w])
       \/ symbols[w] = {} /\ UNCHANGED connVars
    /\ UNCHANGED <<mainVars, inbox, symbols>>

(* An init that rejects is not caught: it ends the thread.                  *)
StartFails(w) ==
    /\ worker[w] = "starting" /\ "init failed" \in Faults
    /\ Dies(w)
    /\ UNCHANGED <<mainVars, symbols>>

(* What close() of the connectors leaves: this.ws and its handlers are      *)
(* gone, other sockets and timers stay.                                     *)
Closed(w) ==
    [c \in Conns |-> [i \in ChainIds |->
        IF i = current[w][c] THEN NoChain ELSE chains[w][c][i]]]

(* close() of a socket that is still connecting: the library emits an error *)
(* that has no handler any more, which ends the thread.                     *)
ClosesConnecting(w) ==
    \E c \in Conns : current[w][c] # 0 /\ chains[w][c][current[w][c]].state = "connecting"

(* Bound: the chains that are left, and that of this update, leave one for  *)
(* a start to come.                                                         *)
Fits(w, left) ==
    \A c \in Conns :
        Cardinality({i \in ChainIds : left[c][i] # NoChain})
            + (IF worker[w] = "starting" THEN 1 ELSE 0) < MaxChains

(* applyConfig; running is true from the first line of start().             *)
ApplyConfig(w) ==
    /\ worker[w] # "dead" /\ inbox[w] # <<>>
    /\ symbols' = [symbols EXCEPT ![w] = Head(inbox[w])]
    /\ \/ ClosesConnecting(w) /\ Dies(w)
       \/ /\ ~ ClosesConnecting(w)
          /\ Fits(w, Closed(w))
          /\ inbox' = [inbox EXCEPT ![w] = Tail(@)]
          /\ IF symbols'[w] # {} THEN Connect(w, Closed(w), symbols'[w])
             ELSE /\ queue' = [queue EXCEPT ![w] = [c \in Conns |-> "ended"]]
                  /\ current' = [current EXCEPT ![w] = [c \in Conns |-> 0]]
                  /\ chains' = [chains EXCEPT ![w] = Closed(w)]
          /\ UNCHANGED worker
    /\ UNCHANGED mainVars

-----------------------------------------------------------------------------
(* A connector: the events of a socket. *)

Chain(w, c, i) == chains[w][c][i]
IsSocket(w, c, i) == Chain(w, c, i).state \in {"connecting", "open"}

(* Binance subscribes with the address, OKX with a message that the handler *)
(* of "open" sends on this.ws - which may be another socket, may be closed, *)
(* or may be connecting: then send() throws, and nobody catches it.         *)
Opened(w, c, i) ==
    LET opened == [chains EXCEPT ![w][c][i].state = "open"]
        target == IF c = "binance" THEN i ELSE current[w][c]
    IN  IF target = 0 THEN opened
        ELSE [opened EXCEPT ![w][c][target].subscribed = @ \union Chain(w, c, i).symbols]

SendThrows(w, c, i) ==
    /\ c = "okx" /\ current[w][c] \notin {0, i}
    /\ Chain(w, c, current[w][c]).state = "connecting"

Open(w, c, i) ==
    /\ Chain(w, c, i).state = "connecting"
    /\ \/ SendThrows(w, c, i) /\ Dies(w)
       \/ /\ ~ SendThrows(w, c, i)
          /\ chains' = Opened(w, c, i)
          /\ UNCHANGED <<worker, inbox, queue, current>>
    /\ UNCHANGED <<mainVars, symbols>>

(* Mutant: only the socket in this.ws is replaced. *)
RetriesCurrent(w, c, i) == queue[w][c] = "live" /\ current[w][c] = i

(* Mutant: a connection that was never open is not tried again. *)
RetriesOpen(w, c, i) == queue[w][c] = "live" /\ Chain(w, c, i).state = "open"

(* Handler of "close" and scheduleReconnect: not after close().             *)
Retries(w, c, i) == queue[w][c] = "live"

Ends(w, c, i) ==
    /\ chains' = [chains EXCEPT ![w][c][i] =
                    IF Retries(w, c, i) THEN Timer(@.symbols) ELSE NoChain]
    /\ current' = [current EXCEPT ![w][c] = IF @ = i THEN 0 ELSE @]
    /\ UNCHANGED <<mainVars, inbox, worker, symbols, queue>>

Lost(w, c, i) ==
    /\ "socket lost" \in Faults /\ IsSocket(w, c, i)
    /\ Ends(w, c, i)

(* OKX ends a connection on which nothing is subscribed.                    *)
IdleEnds(w, i) ==
    /\ "okx" \in Conns
    /\ Chain(w, "okx", i).state = "open" /\ Chain(w, "okx", i).subscribed = {}
    /\ Ends(w, "okx", i)

Reconnect(w, c, i) ==
    /\ Chain(w, c, i).state = "waiting"
    /\ \/ /\ queue[w][c] = "live"
          /\ chains' = [chains EXCEPT ![w][c][i] = Socket(@.symbols)]
          /\ current' = [current EXCEPT ![w][c] = i]
       \/ /\ queue[w][c] # "live"
          /\ chains' = [chains EXCEPT ![w][c][i] = NoChain]
          /\ UNCHANGED current
    /\ UNCHANGED <<mainVars, inbox, worker, symbols, queue>>

-----------------------------------------------------------------------------
WorkerStep(w) ==
    \/ Start(w) \/ ApplyConfig(w)
    \/ \E i \in ChainIds :
         \/ IdleEnds(w, i)
         \/ \E c \in Conns : Open(w, c, i) \/ Reconnect(w, c, i)

Loss == \E w \in Workers : StartFails(w) \/ \E c \in Conns, i \in ChainIds : Lost(w, c, i)

Next ==
    \/ PutSymbols \/ AnswerRefresh \/ RefreshReturns
    \/ Loss \/ \E w \in Workers : WorkerStep(w)

Spec == Init /\ [][Next]_vars

(* Messages arrive, timers fire and connections are answered.               *)
Fairness ==
    \A w \in Workers :
        /\ WF_vars(Start(w)) /\ WF_vars(ApplyConfig(w))
        /\ \A i \in ChainIds :
             /\ WF_vars(IdleEnds(w, i))
             /\ \A c \in Conns : WF_vars(Open(w, c, i)) /\ WF_vars(Reconnect(w, c, i))

FairSpec == Spec /\ Fairness

-----------------------------------------------------------------------------
(* Types, and: this.ws is a socket that is not closed, or stands for none;  *)
(* a dead worker has no sockets.                                            *)
TypeOK ==
    /\ answer \subseteq Symbols /\ lastGood \subseteq Symbols /\ discovered \subseteq Symbols
    /\ preferred \in Lists /\ assigned \in Lists
    /\ \A w \in Workers :
         /\ worker[w] \in {"starting", "running", "dead"}
         /\ symbols[w] \subseteq Symbols
         /\ \A c \in Conns :
              /\ queue[w][c] \in {"none", "live", "ended"}
              /\ current[w][c] # 0 => IsSocket(w, c, current[w][c])
              /\ \A i \in ChainIds :
                   /\ Chain(w, c, i).state \in {"none", "connecting", "open", "waiting"}
                   /\ Chain(w, c, i) # NoChain => worker[w] # "dead"

(* The core is cut by what is discovered and CORE_MAX_SYMBOLS alone, and a  *)
(* symbol that was put gives way to symbols that were put only - whatever   *)
(* discoveries came between, late or failed.                                *)
PreferredFirst ==
    discovered # {} =>
        /\ ToSet(assigned) \subseteq discovered
        /\ \/ Len(assigned) = CoreMax
           \/ ToSet(assigned) = discovered
        /\ (discovered \intersect ToSet(preferred)) \ ToSet(assigned) # {}
              => ToSet(assigned) \subseteq ToSet(preferred)

(* A worker that has taken all its messages works on its shard of what the  *)
(* main thread has assigned, and the shards of the workers alive are all    *)
(* there is: no symbol is left out, none is worked on twice.                *)
ShardsAreCurrent ==
    \A s \in Symbols :
        (\A w \in Workers : worker[w] # "dead" /\ inbox[w] = <<>>)
        => Cardinality({w \in Workers : s \in symbols[w]})
             = (IF s \in ToSet(assigned) THEN 1 ELSE 0)

(* A running worker with symbols never loses the line of descent that will  *)
(* subscribe to them, whatever sockets it has lost sight of, and they are   *)
(* heard: the queue is live.  Without symbols nothing is heard.             *)
ChainIsKept ==
    \A w \in Workers, c \in Conns : worker[w] = "running" =>
        /\ symbols[w] # {} => \E i \in ChainIds : Chain(w, c, i).state # "none"
                                                /\ Chain(w, c, i).symbols = symbols[w]
        /\ symbols[w] # {} <=> queue[w][c] = "live"

(* When sockets are lost no more and the assignment stays, every assigned   *)
(* symbol ends up subscribed to on every exchange, unless its worker died.  *)
Calm == <>[][\/ (~ Loss /\ UNCHANGED <<assigned, inbox>>)
              \/ \E w \in Workers : WorkerStep(w)]_vars
Subscribed(w, c, s) ==
    \E i \in ChainIds : Chain(w, c, i).state = "open" /\ s \in Chain(w, c, i).subscribed
Covered ==
    \A w \in Workers : worker[w] # "dead" =>
        \A c \in Conns : \A s \in Shard(assigned, w) : Subscribed(w, c, s)
SubscribedInTheEnd == Calm => <>[]Covered
=============================================================================
