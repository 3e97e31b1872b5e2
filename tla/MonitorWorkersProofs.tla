------------------------ MODULE MonitorWorkersProofs ------------------------
(***************************************************************************)
(* The monitor's workers, for every number of them, every set of symbols   *)
(* and every fault: what is assigned is what discovery and PUT ask for,    *)
(* the shards divide it among the workers, and no worker loses the line of *)
(* descent that will subscribe to its shard.  And the ledger of the back   *)
(* test balances for every series and every configuration.                 *)
(***************************************************************************)
EXTENDS MonitorWorkers, MeanReversion, ArrayProofs

-----------------------------------------------------------------------------
(* The choice of the symbols. *)

(* Lists are the arrays of symbols that hold none twice.                    *)
LEMMA ListsAreInjective ==
    ASSUME NEW list PROVE list \in Lists <=> list \in Seq(Symbols) /\ IsInjective(list)
<1>1. IsFiniteSet(Symbols) /\ Cardinality(Symbols) \in Nat
  BY WorkersAssumption, FS_CardinalityType
<1>2. ASSUME list \in Seq(Symbols), IsInjective(list) PROVE list \in Lists
  <2> DEFINE n == Len(list)
  <2>1. n \in Nat /\ list \in [1 .. n -> Symbols]
    BY <1>2
  <2> HIDE DEF n
  <2>2. list \in Injection(1 .. n, Symbols)
    BY <1>2, <2>1 DEF Injection
  <2>3. Cardinality(1 .. n) <= Cardinality(Symbols)
    BY <1>1, <2>2, FS_Injection
  <2>4. Cardinality(1 .. n) = n
    BY <2>1, FS_Interval
  <2>5. n \in 0 .. Cardinality(Symbols)
    BY <1>1, <2>1, <2>3, <2>4
  <2> QED BY <1>2, <2>1, <2>5 DEF Lists
<1>3. ASSUME list \in Lists PROVE list \in Seq(Symbols) /\ IsInjective(list)
  BY <1>1, <1>3 DEF Lists
<1> QED BY <1>2, <1>3

(* getAllSymbols: all the symbols, each once.                               *)
LEMMA ByNameFacts ==
    ASSUME NEW d \in SUBSET Symbols
    PROVE  ByName(d) \in Seq(d) /\ IsInjective(ByName(d)) /\ ToSet(ByName(d)) = d
<1> DEFINE R == {pair \in d \X d : pair[1] < pair[2]}
<1>1. IsFiniteSet(d) /\ d \in SUBSET Nat
  BY WorkersAssumption, FS_Subset
<1>2. StrictOrder(d, R)
  BY <1>1 DEF StrictOrder
<1>3. ByName(d) = ByRank(d, R)
  <2>1. \A s \in d : {t \in d : t < s} = {t \in d : <<t, s>> \in R}
    OBVIOUS
  <2>2. \A s \in d : Rank(d, R, s) = Cardinality({t \in d : t < s})
    BY <2>1 DEF Rank
  <2> QED BY <2>2 DEF ByName, ByRank
<1> HIDE DEF R
<1>4. /\ ByName(d) \in Seq(d) /\ Len(ByName(d)) = Cardinality(d)
      /\ IsInjective(ByName(d))
      /\ {ByName(d)[n] : n \in 1 .. Cardinality(d)} = d
  BY <1>1, <1>2, <1>3, RankedOnce
<1>5. DOMAIN ByName(d) = 1 .. Cardinality(d)
  BY <1>4
<1> QED BY <1>4, <1>5 DEF ToSet

(* slice(0, coreMaxSymbols)                                                 *)
LEMMA CoreFacts ==
    ASSUME NEW list \in Seq(Symbols), IsInjective(list)
    PROVE  /\ Core(list) \in Seq(Symbols) /\ IsInjective(Core(list))
           /\ Len(Core(list)) \in Nat
           /\ Len(Core(list)) = CoreMax \/ Core(list) = list
           /\ Len(Core(list)) <= Len(list)
           /\ \A k \in 1 .. Len(Core(list)) : Core(list)[k] = list[k]
           /\ list # <<>> => Core(list) # <<>>
<1> DEFINE n == IF Len(list) < CoreMax THEN Len(list) ELSE CoreMax
<1>1. n \in Nat /\ n <= Len(list) /\ Len(list) \in Nat /\ (list # <<>> => n # 0)
      /\ (n = CoreMax \/ n = Len(list))
  <2>1. CoreMax \in Nat /\ 0 < CoreMax
    <3>1. CoreMax \in Nat \ {0}
      BY WorkersAssumption, Zenon
    <3> QED BY <3>1
  <2>2. Len(list) \in Nat /\ (list # <<>> => Len(list) # 0)
    OBVIOUS
  <2> QED BY <2>1, <2>2
<1> HIDE DEF n
<1>2. Core(list) = SubSeq(list, 1, n)
  BY DEF Core, n
<1>3. Core(list) \in Seq(Symbols) /\ Len(Core(list)) = n /\ \A k \in 1 .. n : Core(list)[k] = list[k]
  BY <1>1, <1>2
<1>4. IsInjective(Core(list))
  BY <1>1, <1>3 DEF IsInjective
<1>5. n = Len(list) => Core(list) = list
  BY <1>1, <1>3
<1> QED BY <1>1, <1>3, <1>4, <1>5

LEMMA SelectedFacts ==
    ASSUME NEW d \in SUBSET Symbols, NEW p \in Lists
    PROVE  LET sel == Selected(d, p)
           IN  /\ sel \in Lists
               /\ ToSet(sel) \subseteq d
               /\ d # {} => sel # <<>>
               /\ Len(sel) = CoreMax \/ ToSet(sel) = d
               /\ (d \intersect ToSet(p)) \ ToSet(sel) # {} => ToSet(sel) \subseteq ToSet(p)
<1> DEFINE known == Filter(p, d)
           rest == ByName(d \ ToSet(p))
           ranked == known \o rest
           sel == Selected(d, p)
<1>1. p \in Seq(Symbols) /\ IsInjective(p)
  BY ListsAreInjective
<1>2. known \in Seq(Symbols) /\ IsInjective(known) /\ ToSet(known) = ToSet(p) \intersect d
  <2>1. known \in Seq(Symbols)
    BY <1>1, FilterFacts
  <2>2. {known[k] : k \in 1 .. Len(known)} = {p[i] : i \in 1 .. Len(p)} \intersect d
    BY <1>1, FilterSet
  <2>3. DOMAIN known = 1 .. Len(known) /\ DOMAIN p = 1 .. Len(p)
    <3> HIDE DEF known
    <3> QED BY <1>1, <2>1
  <2>4. IsInjective(known)
    BY <1>1, FilterSet
  <2> HIDE DEF known
  <2> QED BY <2>1, <2>2, <2>3, <2>4 DEF ToSet
<1>3. rest \in Seq(Symbols) /\ IsInjective(rest) /\ ToSet(rest) = d \ ToSet(p)
  <2>1. rest \in Seq(d \ ToSet(p)) /\ IsInjective(rest) /\ ToSet(rest) = d \ ToSet(p)
    BY ByNameFacts
  <2> HIDE DEF rest
  <2> QED BY <2>1
<1> HIDE DEF known, rest
<1> DEFINE K == Len(known)  M == Len(rest)
<1>4. /\ K \in Nat /\ M \in Nat /\ ranked \in Seq(Symbols) /\ Len(ranked) = K + M
      /\ \A i \in 1 .. K : ranked[i] = known[i]
      /\ \A i \in K + 1 .. K + M : ranked[i] = rest[i - K]
  BY <1>2, <1>3
<1>5. /\ \A i \in 1 .. K : known[i] \in ToSet(p) \intersect d
      /\ \A i \in 1 .. M : rest[i] \in d \ ToSet(p)
  <2>1. DOMAIN known = 1 .. K /\ DOMAIN rest = 1 .. M
    BY <1>2, <1>3
  <2> QED BY <1>2, <1>3, <2>1 DEF ToSet
<1>6. IsInjective(ranked)
  <2> SUFFICES ASSUME NEW i \in 1 .. K + M, NEW j \in 1 .. K + M, ranked[i] = ranked[j]
               PROVE  i = j
    BY <1>4 DEF IsInjective
  <2>1. DOMAIN known = 1 .. K /\ DOMAIN rest = 1 .. M
    BY <1>2, <1>3
  <2>2. CASE i <= K /\ j <= K
    BY <2>1, <2>2, <1>2, <1>4 DEF IsInjective
  <2>3. CASE i > K /\ j > K
    <3>1. i - K \in 1 .. M /\ j - K \in 1 .. M /\ rest[i - K] = rest[j - K]
      BY <2>3, <1>4
    <3>2. i - K = j - K
      BY <3>1, <2>1, <1>3 DEF IsInjective
    <3> QED BY <3>2, <1>4
  <2>4. CASE i <= K /\ j > K
    BY <2>4, <1>4, <1>5
  <2>5. CASE i > K /\ j <= K
    BY <2>5, <1>4, <1>5
  <2> QED BY <2>2, <2>3, <2>4, <2>5, <1>4
<1>7. /\ ToSet(ranked) = d
      /\ d # {} => ranked # <<>>
  <2>1. DOMAIN known = 1 .. K /\ DOMAIN rest = 1 .. M /\ DOMAIN ranked = 1 .. K + M
    BY <1>2, <1>3, <1>4
  <2>2. ASSUME NEW s \in d PROVE \E i \in 1 .. K + M : ranked[i] = s
    <3>1. CASE s \in ToSet(p)
      <4>1. PICK i \in 1 .. K : known[i] = s
        BY <3>1, <1>2, <2>1 DEF ToSet
      <4>2. i \in 1 .. K + M /\ ranked[i] = s
        BY <4>1, <1>4
      <4> QED BY <4>2
    <3>2. CASE s \notin ToSet(p)
      <4>1. PICK i \in 1 .. M : rest[i] = s
        BY <3>2, <1>3, <2>1 DEF ToSet
      <4>2. K + i \in 1 .. K + M /\ K + i \in K + 1 .. K + M /\ (K + i) - K = i
        BY <4>1, <1>4
      <4>3. ranked[K + i] = s
        BY <4>1, <4>2, <1>4
      <4> QED BY <4>2, <4>3
    <3> QED BY <3>1, <3>2
  <2>3. ASSUME NEW i \in 1 .. K + M PROVE ranked[i] \in d
    <3>1. CASE i <= K
      BY <3>1, <1>4, <1>5
    <3>2. CASE i > K
      <4>1. i \in K + 1 .. K + M /\ i - K \in 1 .. M
        BY <3>2, <1>4
      <4> QED BY <4>1, <1>4, <1>5
    <3> QED BY <3>1, <3>2, <1>4
  <2>4. ranked = <<>> => K + M = 0
    BY <1>4
  <2>5. ToSet(ranked) = d
    <3> HIDE DEF ranked
    <3> QED BY <2>1, <2>2, <2>3 DEF ToSet
  <2>6. d # {} => K + M # 0
    BY <2>2, <1>4
  <2> QED BY <2>4, <2>5, <2>6
<1>8. sel = Core(ranked)
  BY DEF Selected, known, rest
<1>9. DOMAIN ranked = 1 .. K + M
  BY <1>4
<1> HIDE DEF ranked, sel, K, M
<1> DEFINE C == Len(sel)
<1>10. /\ sel \in Seq(Symbols) /\ IsInjective(sel) /\ C \in Nat
       /\ C = CoreMax \/ sel = ranked
       /\ C <= K + M
       /\ \A k \in 1 .. C : sel[k] = ranked[k]
       /\ ranked # <<>> => sel # <<>>
  BY <1>4, <1>6, <1>8, CoreFacts
<1>11. ToSet(sel) \subseteq d
  <2>1. DOMAIN sel = 1 .. C /\ 1 .. C \subseteq 1 .. K + M
    BY <1>4, <1>10
  <2> QED BY <1>7, <1>9, <1>10, <2>1 DEF ToSet
<1>12. ASSUME NEW s \in (d \intersect ToSet(p)) \ ToSet(sel) PROVE ToSet(sel) \subseteq ToSet(p)
  <2>1. PICK i \in 1 .. K : known[i] = s
    <3>1. DOMAIN known = 1 .. K
      BY <1>2 DEF K
    <3> QED BY <1>2, <3>1 DEF ToSet
  <2>2. ranked[i] = s
    BY <1>4, <2>1
  <2>3. DOMAIN sel = 1 .. C
    BY <1>10
  <2>4. ~ (i <= C)
    BY <1>10, <2>1, <2>2, <2>3, <1>4 DEF ToSet
  <2>5. \A k \in 1 .. C : k \in 1 .. K /\ sel[k] = known[k]
    BY <2>1, <2>4, <1>4, <1>10
  <2> QED BY <2>3, <2>5, <1>5 DEF ToSet
<1>13. sel \in Lists
  BY <1>10, ListsAreInjective
<1> QED BY <1>7, <1>10, <1>11, <1>12, <1>13 DEF sel
-----------------------------------------------------------------------------
(* The invariant. *)

ChainRecords ==
    [state : {"none", "connecting", "open", "waiting"},
     symbols : SUBSET Symbols, subscribed : SUBSET Symbols]

MainTypes ==
    /\ answer \subseteq Symbols /\ lastGood \subseteq Symbols /\ discovered \subseteq Symbols
    /\ preferred \in Lists /\ assigned \in Lists

WorkerTypes ==
    /\ inbox \in [Workers -> Seq(SUBSET Symbols)]
    /\ worker \in [Workers -> {"starting", "running", "dead"}]
    /\ symbols \in [Workers -> SUBSET Symbols]

ConnTypes ==
    /\ queue \in [Workers -> [Conns -> {"none", "live", "ended"}]]
    /\ current \in [Workers -> [Conns -> 0 .. MaxChains]]
    /\ chains \in [Workers -> [Conns -> [ChainIds -> ChainRecords]]]

(* What is assigned is what the discovered and the preferred symbols give:  *)
(* an update is never forgotten, and only an empty list is passed over.     *)
AssignedIsSelected == discovered # {} => assigned = Selected(discovered, preferred)

(* The last thing a worker was told, or will be, is its shard.              *)
LastPost(w) == IF inbox[w] = <<>> THEN symbols[w] ELSE inbox[w][Len(inbox[w])]
AssignmentIsPosted == \A w \in Workers : worker[w] # "dead" => LastPost(w) = Shard(assigned, w)

(* The sockets and timers of a connector, in a worker that is told what to  *)
(* watch: there is room for the chain of a start that is still to come, and *)
(* a queue is live as long as a chain carries the symbols of the worker.    *)
Busy(f) == {i \in ChainIds : f[i] # NoChain}
ConnInv(w, c) ==
    /\ \A i \in ChainIds : chains[w][c][i].state = "none" => chains[w][c][i] = NoChain
    /\ current[w][c] # 0 => chains[w][c][current[w][c]].state \in {"connecting", "open"}
    /\ worker[w] = "dead" => Busy(chains[w][c]) = {}
    /\ worker[w] = "starting" => Cardinality(Busy(chains[w][c])) < MaxChains
    /\ worker[w] = "running" => (symbols[w] # {} => queue[w][c] = "live")
    /\ queue[w][c] = "live" =>
          /\ symbols[w] # {}
          /\ \E i \in Busy(chains[w][c]) : chains[w][c][i].symbols = symbols[w]
ChainsInv == \A w \in Workers, c \in Conns : ConnInv(w, c)

WorkersInv ==
    /\ MainTypes /\ WorkerTypes /\ ConnTypes
    /\ AssignedIsSelected /\ AssignmentIsPosted /\ ChainsInv

(* What the assumption says of the single constants.                        *)
LEMMA WorkersConstants ==
    /\ MaxChains \in Nat \ {0} /\ Shards \in Nat \ {0} /\ Hash \in [Symbols -> Nat]
    /\ Config \in Lists /\ Puts \subseteq Lists /\ Listings \subseteq SUBSET Symbols
BY WorkersAssumption, Zenon

LEMMA ListIsOfSymbols ==
    ASSUME NEW list \in Lists PROVE ToSet(list) \subseteq Symbols /\ \A w : Shard(list, w) \subseteq Symbols
<1>1. list \in Seq(Symbols)
  BY ListsAreInjective
<1>2. DOMAIN list = 1 .. Len(list)
  BY <1>1
<1>3. ToSet(list) \subseteq Symbols
  BY <1>1, <1>2 DEF ToSet
<1> QED BY <1>3 DEF Shard

LEMMA WorkersInit == Init => WorkersInv
<1> SUFFICES ASSUME Init PROVE WorkersInv
  OBVIOUS
<1>1. lastGood \subseteq Symbols
  <2>1. ToSet(Config) \subseteq Symbols
    BY WorkersConstants, ListIsOfSymbols
  <2>2. lastGood \in Listings \union {ToSet(Config)}
    BY DEF Init
  <2> QED BY <2>1, <2>2, WorkersConstants
<1>2. preferred \in Lists /\ discovered = lastGood /\ answer = {}
      /\ assigned = Selected(discovered, preferred)
  BY WorkersConstants DEF Init
<1>3. assigned \in Lists
  BY <1>1, <1>2, SelectedFacts
<1>4. MainTypes /\ AssignedIsSelected
  BY <1>1, <1>2, <1>3 DEF MainTypes, AssignedIsSelected
<1>5. WorkerTypes /\ AssignmentIsPosted
  <2>1. \A w \in Workers : Shard(assigned, w) \subseteq Symbols
    BY <1>3, ListIsOfSymbols
  <2>2. inbox \in [Workers -> Seq(SUBSET Symbols)]
    BY DEF Init
  <2>3. worker \in [Workers -> {"starting", "running", "dead"}]
    BY DEF Init
  <2>4. symbols \in [Workers -> SUBSET Symbols]
    BY <2>1 DEF Init
  <2>5. \A w \in Workers : LastPost(w) = Shard(assigned, w)
    BY DEF LastPost, Init
  <2> QED BY <2>2, <2>3, <2>4, <2>5 DEF WorkerTypes, AssignmentIsPosted
<1>6. ConnTypes
  <2>1. NoChain \in ChainRecords
    BY DEF NoChain, ChainRecords
  <2>2. 0 \in 0 .. MaxChains
    BY WorkersConstants
  <2> QED BY <2>1, <2>2 DEF Init, ConnTypes
<1>7. ASSUME NEW w \in Workers, NEW c \in Conns PROVE ConnInv(w, c)
  <2>1. /\ worker[w] = "starting" /\ queue[w][c] = "none" /\ current[w][c] = 0
        /\ chains[w][c] = [i \in ChainIds |-> NoChain]
    BY DEF Init
  <2>2. Busy(chains[w][c]) = {}
    BY <2>1 DEF Busy
  <2>3. Cardinality(Busy(chains[w][c])) < MaxChains
    BY <2>2, FS_EmptySet, WorkersConstants
  <2>4. \A i \in ChainIds : chains[w][c][i] = NoChain
    BY <2>1
  <2> QED BY <2>1, <2>2, <2>3, <2>4 DEF ConnInv
<1> QED BY <1>4, <1>5, <1>6, <1>7 DEF WorkersInv, ChainsInv

-----------------------------------------------------------------------------
(* The main thread. *)

(* postMessage to every worker of its shard.                                *)
LEMMA PostStep ==
    ASSUME WorkersInv, NEW next \in Lists, UpdateWorkerSymbols(next), UNCHANGED <<worker, symbols>>
    PROVE  /\ assigned' = IF next = <<>> THEN assigned ELSE next
           /\ assigned' \in Lists /\ WorkerTypes' /\ AssignmentIsPosted'
<1> DEFINE list == IF next = <<>> THEN assigned ELSE next
<1>1. assigned' = list /\ list \in Lists
  BY DEF UpdateWorkerSymbols, WorkersInv, MainTypes
<1>2. inbox' = [w \in Workers |-> IF worker[w] = "dead" THEN inbox[w]
                                   ELSE Append(inbox[w], Shard(list, w))]
  BY DEF UpdateWorkerSymbols
<1>3. \A w \in Workers : Shard(list, w) \in SUBSET Symbols
  BY <1>1, ListIsOfSymbols
<1> HIDE DEF list
<1>4. \A w \in Workers : inbox[w] \in Seq(SUBSET Symbols)
  BY DEF WorkersInv, WorkerTypes
<1>5. inbox' \in [Workers -> Seq(SUBSET Symbols)]
  BY <1>2, <1>3, <1>4
<1>6. ASSUME NEW w \in Workers, worker[w] # "dead" PROVE LastPost(w)' = Shard(assigned', w)
  <2>1. inbox'[w] = Append(inbox[w], Shard(list, w))
    BY <1>2, <1>6
  <2>2. inbox'[w] # <<>> /\ inbox'[w][Len(inbox'[w])] = Shard(list, w)
    BY <2>1, <1>4
  <2> QED BY <2>2, <1>1 DEF LastPost
<1>7. AssignmentIsPosted'
  BY <1>6 DEF AssignmentIsPosted
<1>8. WorkerTypes'
  BY <1>5 DEF WorkerTypes, WorkersInv
<1> QED BY <1>1, <1>7, <1>8 DEF list

(* A connector of which nothing changes keeps its part of the invariant.    *)
LEMMA ConnStays ==
    ASSUME NEW w \in Workers, NEW c \in Conns, ConnInv(w, c),
           worker'[w] = worker[w], symbols'[w] = symbols[w], queue'[w][c] = queue[w][c],
           current'[w][c] = current[w][c], chains'[w][c] = chains[w][c]
    PROVE  ConnInv(w, c)'
BY DEF ConnInv, Busy

LEMMA ConnsStay ==
    ASSUME WorkersInv, UNCHANGED <<worker, symbols, connVars>>
    PROVE  ConnTypes' /\ ChainsInv'
<1>1. UNCHANGED <<worker, symbols, queue, current, chains>>
  BY DEF connVars
<1>2. ConnTypes'
  BY <1>1 DEF WorkersInv, ConnTypes
<1>3. ASSUME NEW w \in Workers, NEW c \in Conns PROVE ConnInv(w, c)'
  <2>1. ConnInv(w, c)
    BY DEF WorkersInv, ChainsInv
  <2> QED BY <1>1, <2>1, ConnStays
<1> QED BY <1>2, <1>3 DEF ChainsInv

LEMMA PutStep == ASSUME WorkersInv, PutSymbols PROVE WorkersInv'
<1>1. PICK put \in Puts : /\ preferred' = put /\ discovered' = ToSet(put)
                          /\ UpdateWorkerSymbols(Selected(ToSet(put), put))
  BY DEF PutSymbols
<1>2. UNCHANGED <<answer, lastGood, worker, symbols, connVars>>
  BY DEF PutSymbols
<1> DEFINE next == Selected(ToSet(put), put)
<1>3. put \in Lists /\ ToSet(put) \in SUBSET Symbols
  BY WorkersConstants, ListIsOfSymbols
<1>4. next \in Lists /\ (ToSet(put) # {} => next # <<>>)
  BY <1>3, SelectedFacts
<1> HIDE DEF next
<1>5. /\ assigned' = IF next = <<>> THEN assigned ELSE next
      /\ assigned' \in Lists /\ WorkerTypes' /\ AssignmentIsPosted'
  BY <1>1, <1>2, <1>4, PostStep DEF next
<1>6. MainTypes'
  BY <1>1, <1>2, <1>3, <1>5 DEF MainTypes, WorkersInv
<1>7. AssignedIsSelected'
  BY <1>1, <1>4, <1>5 DEF AssignedIsSelected, next
<1>8. ConnTypes' /\ ChainsInv'
  BY <1>2, ConnsStay
<1> QED BY <1>5, <1>6, <1>7, <1>8 DEF WorkersInv

LEMMA AnswerStep == ASSUME WorkersInv, AnswerRefresh PROVE WorkersInv'
<1>1. answer' \subseteq Symbols /\ UNCHANGED <<lastGood, discovered, preferred, assigned, inbox,
                                               worker, symbols, connVars>>
  BY WorkersConstants DEF AnswerRefresh
<1>2. MainTypes' /\ AssignedIsSelected'
  BY <1>1 DEF MainTypes, AssignedIsSelected, WorkersInv
<1>3. WorkerTypes' /\ AssignmentIsPosted'
  BY <1>1 DEF WorkerTypes, AssignmentIsPosted, LastPost, WorkersInv
<1>4. ConnTypes' /\ ChainsInv'
  BY <1>1, ConnsStay
<1> QED BY <1>2, <1>3, <1>4 DEF WorkersInv

LEMMA RefreshStep == ASSUME WorkersInv, RefreshReturns PROVE WorkersInv'
<1>1. PICK good \in {answer, lastGood} : ApplyRefresh(good)
  BY DEF RefreshReturns
<1> DEFINE next == Selected(good, preferred)
<1>2. /\ lastGood' = good /\ discovered' = good /\ answer' = {}
      /\ IF next # assigned THEN UpdateWorkerSymbols(next) ELSE UNCHANGED <<assigned, inbox>>
      /\ UNCHANGED <<preferred, worker, symbols, connVars>>
  BY <1>1 DEF ApplyRefresh
<1>3. good \in SUBSET Symbols /\ preferred \in Lists
  BY DEF WorkersInv, MainTypes
<1>4. next \in Lists /\ (good # {} => next # <<>>)
  BY <1>3, SelectedFacts
<1> HIDE DEF next
<1>5. /\ assigned' = IF next = <<>> THEN assigned ELSE next
      /\ assigned' \in Lists /\ WorkerTypes' /\ AssignmentIsPosted'
  <2>1. CASE next # assigned
    BY <2>1, <1>2, <1>4, PostStep
  <2>2. CASE next = assigned
    BY <2>2, <1>2 DEF WorkersInv, MainTypes, WorkerTypes, AssignmentIsPosted, LastPost
  <2> QED BY <2>1, <2>2
<1>6. MainTypes'
  BY <1>2, <1>3, <1>5 DEF MainTypes
<1>7. AssignedIsSelected'
  BY <1>2, <1>4, <1>5 DEF AssignedIsSelected, next
<1>8. ConnTypes' /\ ChainsInv'
  BY <1>2, ConnsStay
<1> QED BY <1>5, <1>6, <1>7, <1>8 DEF WorkersInv

-----------------------------------------------------------------------------
(* The end of a worker, and what connecting does. *)

LEMMA MainStays ==
    ASSUME WorkersInv, UNCHANGED mainVars PROVE MainTypes' /\ AssignedIsSelected'
BY DEF WorkersInv, MainTypes, AssignedIsSelected, mainVars

LEMMA DiesStep ==
    ASSUME WorkersInv, NEW w \in Workers, Dies(w), UNCHANGED mainVars,
           symbols' \in [Workers -> SUBSET Symbols],
           \A v \in Workers : v # w => symbols'[v] = symbols[v]
    PROVE  WorkersInv'
<1>1. WorkerTypes /\ ConnTypes /\ AssignmentIsPosted /\ ChainsInv
  BY DEF WorkersInv
<1>2. WorkerTypes' /\ worker'[w] = "dead"
      /\ \A v \in Workers : v # w => worker'[v] = worker[v] /\ inbox'[v] = inbox[v]
  <2>1. <<>> \in Seq(SUBSET Symbols)
    OBVIOUS
  <2> QED BY <1>1, <2>1 DEF WorkerTypes, Dies
<1>3. AssignmentIsPosted'
  <2> SUFFICES ASSUME NEW v \in Workers, worker'[v] # "dead"
               PROVE  LastPost(v)' = Shard(assigned', v)
    BY DEF AssignmentIsPosted
  <2>1. v # w
    BY <1>2
  <2>2. LastPost(v)' = LastPost(v) /\ worker[v] # "dead"
    BY <2>1, <1>2 DEF LastPost
  <2>3. Shard(assigned', v) = Shard(assigned, v)
    BY DEF mainVars
  <2> QED BY <1>1, <2>2, <2>3 DEF AssignmentIsPosted
<1>4. /\ queue'[w] = [c \in Conns |-> "none"] /\ current'[w] = [c \in Conns |-> 0]
      /\ chains'[w] = [c \in Conns |-> [i \in ChainIds |-> NoChain]]
      /\ \A v \in Workers : v # w => /\ queue'[v] = queue[v] /\ current'[v] = current[v]
                                     /\ chains'[v] = chains[v]
  BY <1>1 DEF ConnTypes, Dies
<1>5. ConnTypes'
  <2>1. NoChain \in ChainRecords /\ 0 \in 0 .. MaxChains
    BY WorkersConstants DEF NoChain, ChainRecords
  <2>2. [c \in Conns |-> [i \in ChainIds |-> NoChain]] \in [Conns -> [ChainIds -> ChainRecords]]
    BY <2>1
  <2>3. [c \in Conns |-> 0] \in [Conns -> 0 .. MaxChains]
    BY <2>1
  <2>4. [c \in Conns |-> "none"] \in [Conns -> {"none", "live", "ended"}]
    OBVIOUS
  <2> QED BY <1>1, <2>2, <2>3, <2>4 DEF ConnTypes, Dies
<1>6. ASSUME NEW v \in Workers, NEW c \in Conns PROVE ConnInv(v, c)'
  <2>1. CASE v = w
    <3>1. /\ queue'[w][c] = "none" /\ current'[w][c] = 0
          /\ \A i \in ChainIds : chains'[w][c][i] = NoChain
      BY <1>4
    <3>2. Busy(chains'[w][c]) = {}
      BY <3>1 DEF Busy
    <3> QED BY <2>1, <3>1, <3>2, <1>2 DEF ConnInv
  <2>2. CASE v # w
    <3>1. ConnInv(v, c)
      BY <1>1 DEF ChainsInv
    <3> QED BY <2>2, <3>1, <1>2, <1>4, ConnStays
  <2> QED BY <2>1, <2>2
<1>7. ChainsInv'
  BY <1>6 DEF ChainsInv
<1> QED BY <1>2, <1>3, <1>5, <1>7, MainStays DEF WorkersInv

(* The bound of Fits leaves a chain for the socket that a start opens.      *)
LEMMA ChainIsFree ==
    ASSUME NEW f, Cardinality(Busy(f)) < MaxChains
    PROVE  \E i \in ChainIds : f[i] = NoChain /\ \A j \in 1 .. i - 1 : f[j] # NoChain
<1> DEFINE Free == {i \in ChainIds : f[i] = NoChain}
<1>1. MaxChains \in Nat /\ 0 < MaxChains
  BY WorkersConstants
<1>2. Free # {}
  <2> SUFFICES ASSUME Free = {} PROVE FALSE
    OBVIOUS
  <2>1. Busy(f) = 1 .. MaxChains
    BY DEF Busy, ChainIds
  <2>2. Cardinality(1 .. MaxChains) = MaxChains
    BY <1>1, FS_Interval
  <2> QED BY <1>1, <2>1, <2>2
<1>3. Free \in SUBSET Nat
  BY DEF ChainIds
<1>4. PICK i \in Free : \A j \in Free : i <= j
  <2> HIDE DEF Free
  <2> QED BY <1>2, <1>3, LeastNumber
<1>5. ASSUME NEW j \in 1 .. i - 1 PROVE f[j] # NoChain
  <2>1. j \in ChainIds /\ ~ (i <= j)
    BY <1>1, <1>4 DEF ChainIds
  <2> QED BY <1>4, <2>1
<1> QED BY <1>4, <1>5

LEMMA BusyIsFinite == ASSUME NEW f PROVE IsFiniteSet(Busy(f)) /\ Cardinality(Busy(f)) \in Nat
<1>1. IsFiniteSet(ChainIds)
  BY WorkersConstants, FS_Interval DEF ChainIds
<1>2. Busy(f) \in SUBSET ChainIds
  BY DEF Busy
<1> QED BY <1>1, <1>2, FS_Subset, FS_CardinalityType

(* One more socket.                                                         *)
LEMMA OneMoreBusy ==
    ASSUME NEW f, NEW g, NEW i \in ChainIds, g[i] # NoChain,
           \A j \in ChainIds : j # i => g[j] = f[j]
    PROVE  Cardinality(Busy(g)) <= Cardinality(Busy(f)) + 1
<1>2. Busy(g) = Busy(f) \union {i}
  BY DEF Busy
<1>4. IsFiniteSet(Busy(f)) /\ Cardinality(Busy(f)) \in Nat
  BY BusyIsFinite
<1>5. Cardinality(Busy(f) \union {i}) <= Cardinality(Busy(f)) + 1
  <2> DEFINE B == Busy(f)
  <2>1. IsFiniteSet(B) /\ Cardinality(B) \in Nat
    BY <1>4
  <2> HIDE DEF B
  <2>2. Cardinality(B \union {i}) = IF i \in B THEN Cardinality(B) ELSE Cardinality(B) + 1
    BY <2>1, FS_AddElement
  <2>3. Cardinality(B \union {i}) <= Cardinality(B) + 1
    BY <2>1, <2>2
  <2> QED BY <2>3 DEF B
<1> QED BY <1>2, <1>5

(* Connect: each connector gets a socket for ss next to what is left.       *)
LEMMA ConnectFacts ==
    ASSUME ConnTypes, NEW w \in Workers, NEW ss \in SUBSET Symbols,
           NEW left \in [Conns -> [ChainIds -> ChainRecords]],
           \A c \in Conns : Cardinality(Busy(left[c])) < MaxChains,
           Connect(w, left, ss)
    PROVE  /\ ConnTypes'
           /\ \A c \in Conns :
                 /\ queue'[w][c] = "live"
                 /\ current'[w][c] \in ChainIds
                 /\ chains'[w][c][current'[w][c]] = Socket(ss)
                 /\ \A j \in ChainIds : j # current'[w][c] => chains'[w][c][j] = left[c][j]
           /\ \A v \in Workers : v # w =>
                 queue'[v] = queue[v] /\ current'[v] = current[v] /\ chains'[v] = chains[v]
<1> DEFINE free(c) == CHOOSE i \in ChainIds : left[c][i] = NoChain
                          /\ \A j \in 1 .. i - 1 : left[c][j] # NoChain
           placed == [c \in Conns |-> free(c)]
           filled == [c \in Conns |-> [left[c] EXCEPT ![free(c)] = Socket(ss)]]
<1>1. /\ queue' = [queue EXCEPT ![w] = [c \in Conns |-> "live"]]
      /\ current' = [current EXCEPT ![w] = placed]
      /\ chains' = [chains EXCEPT ![w] = filled]
  BY DEF Connect
<1>2. \A c \in Conns : free(c) \in ChainIds
  <2> SUFFICES ASSUME NEW c \in Conns PROVE free(c) \in ChainIds
    OBVIOUS
  <2>1. \E i \in ChainIds : left[c][i] = NoChain /\ \A j \in 1 .. i - 1 : left[c][j] # NoChain
    BY ChainIsFree
  <2> QED BY <2>1
<1>3. Socket(ss) \in ChainRecords
  BY DEF Socket, ChainRecords
<1> HIDE DEF free
<1>4. placed \in [Conns -> 0 .. MaxChains] /\ filled \in [Conns -> [ChainIds -> ChainRecords]]
  <2>1. \A c \in Conns : free(c) \in 0 .. MaxChains
    BY <1>2, WorkersConstants DEF ChainIds
  <2> QED BY <1>2, <1>3, <2>1
<1> HIDE DEF placed, filled
<1>5. [c \in Conns |-> "live"] \in [Conns -> {"none", "live", "ended"}]
  OBVIOUS
<1>6. ConnTypes'
  BY <1>1, <1>4, <1>5 DEF ConnTypes
<1>7. \A v \in Workers : v # w =>
        queue'[v] = queue[v] /\ current'[v] = current[v] /\ chains'[v] = chains[v]
  BY <1>1 DEF ConnTypes
<1>8. queue'[w] = [c \in Conns |-> "live"] /\ current'[w] = placed /\ chains'[w] = filled
  BY <1>1 DEF ConnTypes
<1>9. ASSUME NEW c \in Conns
      PROVE  /\ current'[w][c] = free(c) /\ chains'[w][c][free(c)] = Socket(ss)
             /\ \A j \in ChainIds : j # free(c) => chains'[w][c][j] = left[c][j]
  <2>1. current'[w][c] = free(c) /\ chains'[w][c] = [left[c] EXCEPT ![free(c)] = Socket(ss)]
    BY <1>8 DEF placed, filled
  <2> QED BY <2>1, <1>2
<1> QED BY <1>2, <1>6, <1>7, <1>8, <1>9

-----------------------------------------------------------------------------
(* The steps of a worker. *)

LEMMA StartStep == ASSUME WorkersInv, NEW w \in Workers, Start(w) PROVE WorkersInv'
<1>1. WorkerTypes /\ ConnTypes /\ AssignmentIsPosted /\ ChainsInv
  BY DEF WorkersInv
<1>2. /\ worker[w] = "starting" /\ worker' = [worker EXCEPT ![w] = "running"]
      /\ UNCHANGED <<mainVars, inbox, symbols>>
  BY DEF Start
<1>3. WorkerTypes' /\ AssignmentIsPosted'
  <2>1. WorkerTypes'
    BY <1>1, <1>2 DEF WorkerTypes
  <2>2. \A v \in Workers : worker'[v] # "dead" => worker[v] # "dead"
    BY <1>1, <1>2 DEF WorkerTypes
  <2>3. UNCHANGED <<assigned, inbox, symbols>>
    BY <1>2 DEF mainVars
  <2> QED BY <1>1, <2>1, <2>2, <2>3 DEF AssignmentIsPosted, LastPost
<1>4. worker'[w] = "running" /\ \A v \in Workers : v # w => worker'[v] = worker[v]
  BY <1>1, <1>2 DEF WorkerTypes
<1>5. CASE symbols[w] # {} /\ Connect(w, chains[w], symbols[w])
  <2>1. chains[w] \in [Conns -> [ChainIds -> ChainRecords]] /\ symbols[w] \in SUBSET Symbols
    BY <1>1 DEF ConnTypes, WorkerTypes
  <2>2. \A c \in Conns : Cardinality(Busy(chains[w][c])) < MaxChains
    BY <1>1, <1>2 DEF ChainsInv, ConnInv
  <2>3. /\ ConnTypes'
        /\ \A c \in Conns :
              /\ queue'[w][c] = "live" /\ current'[w][c] \in ChainIds
              /\ chains'[w][c][current'[w][c]] = Socket(symbols[w])
              /\ \A j \in ChainIds : j # current'[w][c] => chains'[w][c][j] = chains[w][c][j]
        /\ \A v \in Workers : v # w =>
              queue'[v] = queue[v] /\ current'[v] = current[v] /\ chains'[v] = chains[v]
    <3>1. PICK l \in [Conns -> [ChainIds -> ChainRecords]], ss \in SUBSET Symbols :
                 l = chains[w] /\ ss = symbols[w] /\ Connect(w, l, ss)
      BY <1>5, <2>1 DEF Connect
    <3>2. \A c \in Conns : Cardinality(Busy(l[c])) < MaxChains
      BY <2>2, <3>1
    <3>3. /\ ConnTypes'
          /\ \A c \in Conns :
                /\ queue'[w][c] = "live" /\ current'[w][c] \in ChainIds
                /\ chains'[w][c][current'[w][c]] = Socket(ss)
                /\ \A j \in ChainIds : j # current'[w][c] => chains'[w][c][j] = l[c][j]
          /\ \A v \in Workers : v # w =>
                queue'[v] = queue[v] /\ current'[v] = current[v] /\ chains'[v] = chains[v]
      <4>1. ConnTypes /\ Connect(w, l, ss)
        BY <1>1, <3>1
      <4> QED BY <3>2, <4>1, ConnectFacts
    <3>4. l = chains[w] /\ Socket(ss) = Socket(symbols[w])
      BY <3>1
    <3> QED BY <3>3, <3>4
  <2>4. ASSUME NEW v \in Workers, NEW c \in Conns PROVE ConnInv(v, c)'
    <3>1. ConnInv(v, c)
      BY <1>1 DEF ChainsInv
    <3>2. CASE v # w
      BY <3>1, <3>2, <2>3, <1>2, <1>4, ConnStays
    <3>3. CASE v = w
      <4> DEFINE i == current'[w][c]  f == chains[w][c]
      <4>1. i \in ChainIds
        BY <2>3
      <4>2. /\ chains'[w][c][i] = Socket(symbols[w])
            /\ \A j \in ChainIds : j # i => chains'[w][c][j] = f[j]
        BY <2>3
      <4>3. \A j \in ChainIds : f[j].state = "none" => f[j] = NoChain
        BY <3>1, <3>3 DEF ConnInv
      <4> HIDE DEF i, f
      <4>4. \A j \in ChainIds : chains'[w][c][j].state = "none" => chains'[w][c][j] = NoChain
        BY <4>1, <4>2, <4>3 DEF Socket
      <4>5. i \in Busy(chains'[w][c]) /\ chains'[w][c][i].symbols = symbols[w]
            /\ chains'[w][c][i].state = "connecting"
        BY <4>1, <4>2 DEF Busy, Socket, NoChain
      <4> QED BY <3>3, <4>4, <4>5, <1>2, <1>4, <1>5, <2>3 DEF ConnInv, i
    <3> QED BY <3>2, <3>3
  <2> QED BY <1>2, <1>3, <2>3, <2>4, MainStays DEF WorkersInv, ChainsInv
<1>6. CASE symbols[w] = {} /\ UNCHANGED connVars
  <2>1. UNCHANGED <<queue, current, chains, symbols>>
    BY <1>2, <1>6 DEF connVars
  <2>2. ConnTypes'
    BY <1>1, <2>1 DEF ConnTypes
  <2>3. ASSUME NEW v \in Workers, NEW c \in Conns PROVE ConnInv(v, c)'
    <3>1. ConnInv(v, c)
      BY <1>1 DEF ChainsInv
    <3>2. CASE v # w
      BY <3>1, <3>2, <2>1, <1>4, ConnStays
    <3>3. CASE v = w
      BY <3>1, <3>3, <2>1, <1>4, <1>6 DEF ConnInv, Busy
    <3> QED BY <3>2, <3>3
  <2> QED BY <1>2, <1>3, <2>2, <2>3, MainStays DEF WorkersInv, ChainsInv
<1> QED BY <1>5, <1>6 DEF Start

LEMMA StartFailsStep == ASSUME WorkersInv, NEW w \in Workers, StartFails(w) PROVE WorkersInv'
<1>1. Dies(w) /\ UNCHANGED mainVars /\ UNCHANGED symbols
  BY DEF StartFails
<1>2. symbols' \in [Workers -> SUBSET Symbols] /\ \A v \in Workers : v # w => symbols'[v] = symbols[v]
  BY <1>1 DEF WorkersInv, WorkerTypes
<1> QED BY <1>1, <1>2, DiesStep

(* applyConfig: the connectors are closed, and opened for what the message  *)
(* says.                                                                    *)
LEMMA ApplyConfigStep == ASSUME WorkersInv, NEW w \in Workers, ApplyConfig(w) PROVE WorkersInv'
<1>1. WorkerTypes /\ ConnTypes /\ AssignmentIsPosted /\ ChainsInv
  BY DEF WorkersInv
<1> DEFINE told == Head(inbox[w])
<1>2. worker[w] # "dead" /\ inbox[w] # <<>> /\ UNCHANGED mainVars
      /\ symbols' = [symbols EXCEPT ![w] = told]
  BY DEF ApplyConfig
<1>3. inbox[w] \in Seq(SUBSET Symbols) /\ told \in SUBSET Symbols
  BY <1>1, <1>2 DEF WorkerTypes
<1> HIDE DEF told
<1>4. /\ symbols' \in [Workers -> SUBSET Symbols] /\ symbols'[w] = told
      /\ \A v \in Workers : v # w => symbols'[v] = symbols[v]
  BY <1>1, <1>2, <1>3 DEF WorkerTypes
<1>5. CASE Dies(w)
  BY <1>2, <1>4, <1>5, DiesStep
<1>6. CASE /\ Fits(w, Closed(w)) /\ inbox' = [inbox EXCEPT ![w] = Tail(@)] /\ UNCHANGED worker
           /\ IF symbols'[w] # {} THEN Connect(w, Closed(w), symbols'[w])
              ELSE /\ queue' = [queue EXCEPT ![w] = [c \in Conns |-> "ended"]]
                   /\ current' = [current EXCEPT ![w] = [c \in Conns |-> 0]]
                   /\ chains' = [chains EXCEPT ![w] = Closed(w)]
  <2>1. WorkerTypes' /\ AssignmentIsPosted'
    <3>1. Tail(inbox[w]) \in Seq(SUBSET Symbols)
      BY <1>2, <1>3
    <3>2. inbox'[w] = Tail(inbox[w]) /\ \A v \in Workers : v # w => inbox'[v] = inbox[v]
      BY <1>1, <1>6 DEF WorkerTypes
    <3>3. WorkerTypes'
      BY <1>1, <1>4, <1>6, <3>1 DEF WorkerTypes
    <3>4. LastPost(w)' = LastPost(w)
      <4>1. /\ Tail(inbox[w]) = <<>> => inbox[w][Len(inbox[w])] = told
            /\ Tail(inbox[w]) # <<>> =>
                  Tail(inbox[w])[Len(Tail(inbox[w]))] = inbox[w][Len(inbox[w])]
        BY <1>2, <1>3, TailEnds DEF told
      <4> QED BY <4>1, <3>2, <1>2, <1>4 DEF LastPost
    <3>5. \A v \in Workers : LastPost(v)' = LastPost(v)
      BY <3>2, <3>4, <1>4 DEF LastPost
    <3>6. \A v \in Workers : Shard(assigned', v) = Shard(assigned, v)
      BY <1>2 DEF mainVars
    <3> QED BY <1>1, <1>6, <3>3, <3>5, <3>6 DEF AssignmentIsPosted
  <2> DEFINE left == Closed(w)
  <2>2. left \in [Conns -> [ChainIds -> ChainRecords]]
    <3>1. NoChain \in ChainRecords
      BY DEF NoChain, ChainRecords
    <3>2. chains[w] \in [Conns -> [ChainIds -> ChainRecords]]
      BY <1>1 DEF ConnTypes
    <3> QED BY <3>1, <3>2 DEF Closed
  <2>3. \A c \in Conns, i \in ChainIds : left[c][i].state = "none" => left[c][i] = NoChain
    <3>1. \A c \in Conns, i \in ChainIds : chains[w][c][i].state = "none" => chains[w][c][i] = NoChain
      BY <1>1 DEF ChainsInv, ConnInv
    <3> QED BY <3>1 DEF Closed
  <2>4. \A c \in Conns : Cardinality(Busy(left[c])) + (IF worker[w] = "starting" THEN 1 ELSE 0) < MaxChains
    BY <1>6 DEF Fits, Busy
  <2> HIDE DEF left
  <2>5. \A c \in Conns : Cardinality(Busy(left[c])) \in Nat
    BY BusyIsFinite
  <2>6. \A c \in Conns : Cardinality(Busy(left[c])) < MaxChains
    BY <2>4, <2>5, WorkersConstants
  <2>7. CASE told # {}
    <3>1. Connect(w, left, told)
      BY <1>4, <1>6, <2>7 DEF left
    <3>2. /\ ConnTypes'
          /\ \A c \in Conns :
                /\ queue'[w][c] = "live" /\ current'[w][c] \in ChainIds
                /\ chains'[w][c][current'[w][c]] = Socket(told)
                /\ \A j \in ChainIds : j # current'[w][c] => chains'[w][c][j] = left[c][j]
          /\ \A v \in Workers : v # w =>
                queue'[v] = queue[v] /\ current'[v] = current[v] /\ chains'[v] = chains[v]
      <4>1. PICK l \in [Conns -> [ChainIds -> ChainRecords]], ss \in SUBSET Symbols :
                   l = left /\ ss = told /\ Connect(w, l, ss)
        BY <1>3, <2>2, <3>1 DEF Connect
      <4>2. \A c \in Conns : Cardinality(Busy(l[c])) < MaxChains
        BY <2>6, <4>1
      <4> QED BY <1>1, <4>1, <4>2, ConnectFacts
    <3>3. ASSUME NEW v \in Workers, NEW c \in Conns PROVE ConnInv(v, c)'
      <4>1. ConnInv(v, c)
        BY <1>1 DEF ChainsInv
      <4>2. CASE v # w
        BY <4>1, <4>2, <3>2, <1>4, <1>6, ConnStays
      <4>3. CASE v = w
        <5> DEFINE i == current'[w][c]  f == left[c]
        <5>1. i \in ChainIds
          BY <3>2
        <5>2. /\ chains'[w][c][i] = Socket(told)
              /\ \A j \in ChainIds : j # i => chains'[w][c][j] = f[j]
          BY <3>2
        <5>3. Cardinality(Busy(chains'[w][c])) <= Cardinality(Busy(f)) + 1
          <6>1. chains'[w][c][i] # NoChain
            BY <5>2 DEF Socket, NoChain
          <6> HIDE DEF i, f
          <6> QED BY <5>1, <5>2, <6>1, OneMoreBusy
        <5>4. Cardinality(Busy(chains'[w][c])) \in Nat
          BY BusyIsFinite
        <5>5. worker'[w] = "starting" => Cardinality(Busy(chains'[w][c])) < MaxChains
          BY <5>3, <5>4, <2>4, <2>5, <1>6, WorkersConstants
        <5> HIDE DEF i, f
        <5>6. \A j \in ChainIds : chains'[w][c][j].state = "none" => chains'[w][c][j] = NoChain
          BY <5>1, <5>2, <2>3 DEF Socket, f
        <5>7. i \in Busy(chains'[w][c]) /\ chains'[w][c][i].symbols = told
              /\ chains'[w][c][i].state = "connecting"
          BY <5>1, <5>2 DEF Busy, Socket, NoChain
        <5> QED BY <4>3, <5>5, <5>6, <5>7, <1>2, <1>4, <1>6, <2>7, <3>2 DEF ConnInv, i
      <4> QED BY <4>2, <4>3
    <3> QED BY <1>2, <2>1, <3>2, <3>3, MainStays DEF WorkersInv, ChainsInv
  <2>8. CASE told = {}
    <3>1. /\ queue' = [queue EXCEPT ![w] = [c \in Conns |-> "ended"]]
          /\ current' = [current EXCEPT ![w] = [c \in Conns |-> 0]]
          /\ chains' = [chains EXCEPT ![w] = left]
      BY <1>4, <1>6, <2>8 DEF left
    <3>2. ConnTypes'
      <4>1. [c \in Conns |-> 0] \in [Conns -> 0 .. MaxChains]
        BY WorkersConstants
      <4>2. [c \in Conns |-> "ended"] \in [Conns -> {"none", "live", "ended"}]
        OBVIOUS
      <4> QED BY <1>1, <2>2, <3>1, <4>1, <4>2 DEF ConnTypes
    <3>3. ASSUME NEW v \in Workers, NEW c \in Conns PROVE ConnInv(v, c)'
      <4>1. ConnInv(v, c)
        BY <1>1 DEF ChainsInv
      <4>2. CASE v # w
        <5>1. queue'[v] = queue[v] /\ current'[v] = current[v] /\ chains'[v] = chains[v]
          BY <1>1, <3>1, <4>2 DEF ConnTypes
        <5> QED BY <4>1, <4>2, <5>1, <1>4, <1>6, ConnStays
      <4>3. CASE v = w
        <5>1. queue'[w][c] = "ended" /\ current'[w][c] = 0 /\ chains'[w][c] = left[c]
          BY <1>1, <3>1 DEF ConnTypes
        <5> QED BY <4>3, <5>1, <1>2, <1>4, <1>6, <2>3, <2>6, <2>8 DEF ConnInv
      <4> QED BY <4>2, <4>3
    <3> QED BY <1>2, <2>1, <3>2, <3>3, MainStays DEF WorkersInv, ChainsInv
  <2> QED BY <2>7, <2>8
<1> QED BY <1>5, <1>6 DEF ApplyConfig

-----------------------------------------------------------------------------
(* The events of a socket. *)

(* An event of one connector leaves the others alone.  It adds no chain,    *)
(* and as long as the queue is live it loses none.                          *)
LEMMA EventStep ==
    ASSUME WorkersInv, NEW w \in Workers, NEW c \in Conns,
           UNCHANGED <<mainVars, inbox, worker, symbols, queue>>, ConnTypes',
           \A v \in Workers, e \in Conns : ~ (v = w /\ e = c) =>
               current'[v][e] = current[v][e] /\ chains'[v][e] = chains[v][e],
           \A j \in ChainIds : chains'[w][c][j].state = "none" => chains'[w][c][j] = NoChain,
           current'[w][c] # 0 => chains'[w][c][current'[w][c]].state \in {"connecting", "open"},
           \A j \in ChainIds : chains'[w][c][j] # NoChain => chains[w][c][j] # NoChain,
           queue[w][c] = "live" => \A j \in Busy(chains[w][c]) :
               chains'[w][c][j] # NoChain /\ chains'[w][c][j].symbols = chains[w][c][j].symbols
    PROVE  WorkersInv'
<1>1. UNCHANGED <<worker, symbols, queue>> /\ ChainsInv
  BY DEF WorkersInv
<1>2. WorkerTypes' /\ AssignmentIsPosted'
  BY DEF WorkersInv, WorkerTypes, AssignmentIsPosted, LastPost, mainVars
<1>3. ConnInv(w, c)'
  <2>1. ConnInv(w, c)
    BY <1>1 DEF ChainsInv
  <2> DEFINE B == Busy(chains[w][c])  C == Busy(chains'[w][c])
  <2>2. C \in SUBSET B
    BY DEF Busy
  <2>3. IsFiniteSet(B) /\ Cardinality(B) \in Nat /\ Cardinality(C) \in Nat
    BY BusyIsFinite
  <2>4. Cardinality(C) <= Cardinality(B)
    <3> HIDE DEF B, C
    <3> QED BY <2>2, <2>3, FS_Subset
  <2>5. worker[w] = "starting" => Cardinality(C) < MaxChains
    <3>1. worker[w] = "starting" => Cardinality(B) < MaxChains
      BY <2>1 DEF ConnInv
    <3> HIDE DEF B, C
    <3> QED BY <3>1, <2>3, <2>4, WorkersConstants
  <2>6. worker[w] = "dead" => C = {}
    <3>1. worker[w] = "dead" => B = {}
      BY <2>1 DEF ConnInv
    <3> HIDE DEF B, C
    <3> QED BY <3>1, <2>2
  <2>7. queue[w][c] = "live" =>
           symbols[w] # {} /\ \E i \in C : chains'[w][c][i].symbols = symbols[w]
    <3> SUFFICES ASSUME queue[w][c] = "live"
                 PROVE  symbols[w] # {} /\ \E i \in C : chains'[w][c][i].symbols = symbols[w]
      OBVIOUS
    <3>1. symbols[w] # {} /\ \E i \in B : chains[w][c][i].symbols = symbols[w]
      BY <2>1 DEF ConnInv
    <3>2. PICK i \in B : chains[w][c][i].symbols = symbols[w]
      BY <3>1
    <3>3. i \in C /\ chains'[w][c][i].symbols = symbols[w]
      BY <3>2 DEF Busy
    <3> QED BY <3>1, <3>3
  <2>8. worker[w] = "running" => (symbols[w] # {} => queue[w][c] = "live")
    BY <2>1 DEF ConnInv
  <2> QED BY <1>1, <2>5, <2>6, <2>7, <2>8 DEF ConnInv
<1>4. ASSUME NEW v \in Workers, NEW e \in Conns PROVE ConnInv(v, e)'
  <2>1. CASE v = w /\ e = c
    BY <2>1, <1>3
  <2>2. CASE ~ (v = w /\ e = c)
    <3>1. ConnInv(v, e)
      BY <1>1 DEF ChainsInv
    <3> QED BY <1>1, <2>2, <3>1, ConnStays
  <2> QED BY <2>1, <2>2
<1> QED BY <1>2, <1>4, MainStays DEF WorkersInv, ChainsInv

(* One chain is replaced.                                                   *)
LEMMA OneChain ==
    ASSUME NEW g \in [Workers -> [Conns -> [ChainIds -> ChainRecords]]],
           NEW w \in Workers, NEW c \in Conns, NEW i \in ChainIds, NEW r \in ChainRecords
    PROVE  LET h == [g EXCEPT ![w][c][i] = r]
           IN  /\ h \in [Workers -> [Conns -> [ChainIds -> ChainRecords]]]
               /\ h[w][c][i] = r
               /\ \A j \in ChainIds : j # i => h[w][c][j] = g[w][c][j]
               /\ \A v \in Workers, e \in Conns : ~ (v = w /\ e = c) => h[v][e] = g[v][e]
OBVIOUS

LEMMA OpenStep ==
    ASSUME WorkersInv, NEW w \in Workers, NEW c \in Conns, NEW i \in ChainIds, Open(w, c, i)
    PROVE  WorkersInv'
<1>1. WorkerTypes /\ ConnTypes /\ ChainsInv /\ UNCHANGED <<mainVars, symbols>>
      /\ chains[w][c][i].state = "connecting"
  BY DEF WorkersInv, Open, Chain
<1>2. CASE Dies(w)
  BY <1>1, <1>2, DiesStep DEF WorkerTypes
<1>3. CASE chains' = Opened(w, c, i) /\ UNCHANGED <<worker, inbox, queue, current>>
  <2> DEFINE f == chains[w][c]
             opened == [chains EXCEPT ![w][c][i].state = "open"]
             target == IF c = "binance" THEN i ELSE current[w][c]
  <2>1. f \in [ChainIds -> ChainRecords] /\ current[w][c] \in 0 .. MaxChains
    BY <1>1 DEF ConnTypes
  <2>2. ConnInv(w, c)
    BY <1>1 DEF ChainsInv
  <2>3. /\ opened \in [Workers -> [Conns -> [ChainIds -> ChainRecords]]]
        /\ \A v \in Workers, e \in Conns : ~ (v = w /\ e = c) => opened[v][e] = chains[v][e]
        /\ \A j \in ChainIds : j # i => opened[w][c][j] = f[j]
        /\ opened[w][c][i].state = "open" /\ opened[w][c][i].symbols = f[i].symbols
    <3> DEFINE r == [f[i] EXCEPT !.state = "open"]
    <3>1. r \in ChainRecords /\ r.state = "open" /\ r.symbols = f[i].symbols
      BY <2>1 DEF ChainRecords
    <3>2. opened = [chains EXCEPT ![w][c][i] = r]
      BY <1>1 DEF ConnTypes
    <3> HIDE DEF r, opened
    <3>3. chains \in [Workers -> [Conns -> [ChainIds -> ChainRecords]]]
      BY <1>1 DEF ConnTypes
    <3>4. /\ opened \in [Workers -> [Conns -> [ChainIds -> ChainRecords]]]
          /\ opened[w][c][i] = r
          /\ \A j \in ChainIds : j # i => opened[w][c][j] = chains[w][c][j]
          /\ \A v \in Workers, e \in Conns : ~ (v = w /\ e = c) => opened[v][e] = chains[v][e]
      BY <3>1, <3>2, <3>3, OneChain
    <3> QED BY <3>1, <3>4
  <2>5. target # 0 => target \in ChainIds /\ f[target].state \in {"connecting", "open"}
    <3>1. \A k : k \in 0 .. MaxChains /\ k # 0 => k \in ChainIds
      BY WorkersConstants DEF ChainIds
    <3> QED BY <1>1, <2>1, <2>2, <3>1 DEF ConnInv
  <2>6. f[i].symbols \in SUBSET Symbols
    BY <2>1 DEF ChainRecords
  <2>7. chains' = IF target = 0 THEN opened
                  ELSE [opened EXCEPT ![w][c][target].subscribed = @ \union f[i].symbols]
    BY <1>3 DEF Opened, Chain
  <2> HIDE DEF opened, target
  <2>8. /\ chains' \in [Workers -> [Conns -> [ChainIds -> ChainRecords]]]
        /\ \A v \in Workers, e \in Conns : ~ (v = w /\ e = c) => chains'[v][e] = opened[v][e]
        /\ \A j \in ChainIds : j # target => chains'[w][c][j] = opened[w][c][j]
        /\ target # 0 => /\ chains'[w][c][target].state = opened[w][c][target].state
                         /\ chains'[w][c][target].symbols = opened[w][c][target].symbols
    <3>1. CASE target = 0
      BY <2>3, <2>7, <3>1
    <3>2. CASE target # 0
      <4> DEFINE r == [opened[w][c][target] EXCEPT !.subscribed = @ \union f[i].symbols]
      <4>1. target \in ChainIds /\ opened[w][c][target] \in ChainRecords
        BY <2>3, <2>5, <3>2
      <4>2. /\ r \in ChainRecords /\ r.state = opened[w][c][target].state
            /\ r.symbols = opened[w][c][target].symbols
        BY <2>6, <4>1 DEF ChainRecords
      <4>3. chains' = [opened EXCEPT ![w][c][target] = r]
        BY <2>3, <2>7, <3>2, <4>1
      <4> HIDE DEF r, f
      <4>4. /\ chains' \in [Workers -> [Conns -> [ChainIds -> ChainRecords]]]
            /\ chains'[w][c][target] = r
            /\ \A j \in ChainIds : j # target => chains'[w][c][j] = opened[w][c][j]
            /\ \A v \in Workers, e \in Conns : ~ (v = w /\ e = c) => chains'[v][e] = opened[v][e]
        BY <2>3, <4>1, <4>2, <4>3, OneChain
      <4> QED BY <4>2, <4>4
    <3> QED BY <3>1, <3>2
  <2>9. ASSUME NEW j \in ChainIds
        PROVE  /\ chains'[w][c][j].symbols = f[j].symbols
               /\ j = i => chains'[w][c][j].state = "open"
               /\ j # i => chains'[w][c][j].state = f[j].state
               /\ (j # i /\ j # target) => chains'[w][c][j] = f[j]
    <3>1. 0 \notin ChainIds
      BY DEF ChainIds
    <3> QED BY <2>3, <2>5, <2>8, <3>1
  <2>10. \A j \in ChainIds : f[j].state = "none" => f[j] = NoChain
    BY <2>2 DEF ConnInv
  <2>11. f[i] # NoChain /\ \A j \in ChainIds : j = target => f[j] # NoChain
    BY <1>1, <2>5 DEF NoChain, ChainIds
  <2>12. ASSUME NEW j \in ChainIds
         PROVE  /\ chains'[w][c][j].state = "none" => chains'[w][c][j] = NoChain
                /\ chains'[w][c][j] # NoChain <=> f[j] # NoChain
    <3>1. NoChain.state = "none"
      BY DEF NoChain
    <3>2. CASE j = i
      BY <3>1, <3>2, <2>9, <2>11
    <3>3. CASE j # i /\ j = target
      <4>1. f[j].state \in {"connecting", "open"}
        <5>1. target # 0
          BY <3>3, WorkersConstants DEF ChainIds
        <5> QED BY <2>5, <3>3, <5>1
      <4> QED BY <3>1, <3>3, <4>1, <2>9, <2>11
    <3>4. CASE j # i /\ j # target
      BY <3>4, <2>9, <2>10
    <3> QED BY <3>2, <3>3, <3>4
  <2>13. current'[w][c] # 0 => chains'[w][c][current'[w][c]].state \in {"connecting", "open"}
    <3>1. \A k : k \in 0 .. MaxChains /\ k # 0 => k \in ChainIds
      BY WorkersConstants DEF ChainIds
    <3> QED BY <1>3, <2>1, <2>2, <2>9, <3>1 DEF ConnInv
  <2>14. ConnTypes'
    BY <1>1, <1>3, <2>8 DEF ConnTypes
  <2>15. \A v \in Workers, e \in Conns : ~ (v = w /\ e = c) =>
            current'[v][e] = current[v][e] /\ chains'[v][e] = chains[v][e]
    BY <1>3, <2>3, <2>8
  <2> HIDE DEF f
  <2>16. \A j \in Busy(chains[w][c]) :
            chains'[w][c][j] # NoChain /\ chains'[w][c][j].symbols = chains[w][c][j].symbols
    BY <2>9, <2>12 DEF Busy, f
  <2> QED BY <1>1, <1>3, <2>12, <2>13, <2>14, <2>15, <2>16, EventStep DEF f
<1> QED BY <1>2, <1>3 DEF Open

LEMMA EndsStep ==
    ASSUME WorkersInv, NEW w \in Workers, NEW c \in Conns, NEW i \in ChainIds,
           IsSocket(w, c, i), Ends(w, c, i)
    PROVE  WorkersInv'
<1> DEFINE f == chains[w][c]
           left == IF Retries(w, c, i) THEN Timer(f[i].symbols) ELSE NoChain
<1>1. WorkerTypes /\ ConnTypes /\ ConnInv(w, c)
      /\ UNCHANGED <<mainVars, inbox, worker, symbols, queue>>
  BY DEF WorkersInv, ChainsInv, Ends
<1>2. f \in [ChainIds -> ChainRecords] /\ left \in ChainRecords
  <2>1. f \in [ChainIds -> ChainRecords]
    BY <1>1 DEF ConnTypes
  <2> QED BY <2>1 DEF ChainRecords, NoChain, Timer
<1>3. chains' = [chains EXCEPT ![w][c][i] = left]
      /\ current' = [current EXCEPT ![w][c] = IF @ = i THEN 0 ELSE @]
  BY DEF Ends
<1>4. f[i] # NoChain
  BY DEF IsSocket, Chain, NoChain
<1>5. /\ left = NoChain \/ (left.state = "waiting" /\ left.symbols = f[i].symbols)
      /\ queue[w][c] = "live" => left # NoChain /\ left.symbols = f[i].symbols
  BY DEF Timer, NoChain, Retries
<1> HIDE DEF left
<1>6. ConnTypes'
  <2>1. chains' \in [Workers -> [Conns -> [ChainIds -> ChainRecords]]]
    BY <1>1, <1>2, <1>3 DEF ConnTypes
  <2>2. current' \in [Workers -> [Conns -> 0 .. MaxChains]]
    BY <1>1, <1>3, WorkersConstants DEF ConnTypes
  <2> QED BY <1>1, <2>1, <2>2 DEF ConnTypes
<1>7. /\ chains'[w][c][i] = left /\ \A j \in ChainIds : j # i => chains'[w][c][j] = f[j]
      /\ current'[w][c] = IF current[w][c] = i THEN 0 ELSE current[w][c]
      /\ \A v \in Workers, e \in Conns : ~ (v = w /\ e = c) =>
            current'[v][e] = current[v][e] /\ chains'[v][e] = chains[v][e]
  BY <1>1, <1>3 DEF ConnTypes
<1>8. ASSUME NEW j \in ChainIds
      PROVE  /\ chains'[w][c][j].state = "none" => chains'[w][c][j] = NoChain
             /\ chains'[w][c][j] # NoChain => f[j] # NoChain
  BY <1>1, <1>4, <1>5, <1>7 DEF ConnInv
<1>9. current'[w][c] # 0 => chains'[w][c][current'[w][c]].state \in {"connecting", "open"}
  <2> SUFFICES ASSUME current'[w][c] # 0
               PROVE  chains'[w][c][current'[w][c]].state \in {"connecting", "open"}
    OBVIOUS
  <2>1. current'[w][c] = current[w][c] /\ current[w][c] # i /\ current[w][c] # 0
    BY <1>7
  <2>2. current[w][c] \in ChainIds
    BY <1>1, <2>1, WorkersConstants DEF ConnTypes, ChainIds
  <2>3. f[current[w][c]].state \in {"connecting", "open"}
    BY <1>1, <2>1 DEF ConnInv
  <2> QED BY <1>7, <2>1, <2>2, <2>3
<1>10. queue[w][c] = "live" => \A j \in Busy(chains[w][c]) :
          chains'[w][c][j] # NoChain /\ chains'[w][c][j].symbols = chains[w][c][j].symbols
  BY <1>5, <1>7 DEF Busy
<1> QED BY <1>1, <1>6, <1>7, <1>8, <1>9, <1>10, EventStep

LEMMA ReconnectStep ==
    ASSUME WorkersInv, NEW w \in Workers, NEW c \in Conns, NEW i \in ChainIds, Reconnect(w, c, i)
    PROVE  WorkersInv'
<1> DEFINE f == chains[w][c]
           live == queue[w][c] = "live"
           next == IF live THEN Socket(f[i].symbols) ELSE NoChain
<1>1. WorkerTypes /\ ConnTypes /\ ConnInv(w, c)
      /\ UNCHANGED <<mainVars, inbox, worker, symbols, queue>> /\ f[i].state = "waiting"
  BY DEF WorkersInv, ChainsInv, Reconnect, Chain
<1>2. f \in [ChainIds -> ChainRecords] /\ next \in ChainRecords
  <2>1. f \in [ChainIds -> ChainRecords]
    BY <1>1 DEF ConnTypes
  <2> QED BY <2>1 DEF ChainRecords, NoChain, Socket
<1>3. chains' = [chains EXCEPT ![w][c][i] = next]
      /\ IF live THEN current' = [current EXCEPT ![w][c] = i] ELSE UNCHANGED current
  BY DEF Reconnect
<1>4. f[i] # NoChain /\ i \in 0 .. MaxChains
  BY <1>1, WorkersConstants DEF NoChain, ChainIds
<1>5. IF live THEN next # NoChain /\ next.state = "connecting" /\ next.symbols = f[i].symbols
      ELSE next = NoChain
  BY DEF Socket, NoChain
<1> HIDE DEF next
<1>6. ConnTypes'
  <2>1. chains' \in [Workers -> [Conns -> [ChainIds -> ChainRecords]]]
    BY <1>1, <1>2, <1>3 DEF ConnTypes
  <2>2. current' \in [Workers -> [Conns -> 0 .. MaxChains]]
    <3>1. CASE live
      <4>1. current' = [current EXCEPT ![w][c] = i]
        BY <3>1, <1>3
      <4>2. current \in [Workers -> [Conns -> 0 .. MaxChains]]
        BY <1>1 DEF ConnTypes
      <4> QED BY <4>1, <4>2, <1>4
    <3>2. CASE ~ live
      BY <3>2, <1>1, <1>3 DEF ConnTypes
    <3> QED BY <3>1, <3>2
  <2> QED BY <1>1, <2>1, <2>2 DEF ConnTypes
<1>7. /\ chains'[w][c][i] = next /\ \A j \in ChainIds : j # i => chains'[w][c][j] = f[j]
      /\ current'[w][c] = IF live THEN i ELSE current[w][c]
      /\ \A v \in Workers, e \in Conns : ~ (v = w /\ e = c) =>
            current'[v][e] = current[v][e] /\ chains'[v][e] = chains[v][e]
  BY <1>1, <1>3 DEF ConnTypes
<1>8. ASSUME NEW j \in ChainIds
      PROVE  /\ chains'[w][c][j].state = "none" => chains'[w][c][j] = NoChain
             /\ chains'[w][c][j] # NoChain => f[j] # NoChain
  BY <1>1, <1>4, <1>5, <1>7 DEF ConnInv
<1>9. current'[w][c] # 0 => chains'[w][c][current'[w][c]].state \in {"connecting", "open"}
  <2>1. CASE live
    BY <2>1, <1>5, <1>7
  <2>2. CASE ~ live /\ current[w][c] # 0
    <3>1. current[w][c] \in ChainIds
      BY <1>1, <2>2, WorkersConstants DEF ConnTypes, ChainIds
    <3>2. f[current[w][c]].state \in {"connecting", "open"}
      BY <1>1, <2>2 DEF ConnInv
    <3>3. current[w][c] # i
      BY <1>1, <3>2
    <3> QED BY <1>7, <2>2, <3>1, <3>2, <3>3
  <2> QED BY <1>7, <2>1, <2>2
<1>10. live => \A j \in Busy(chains[w][c]) :
          chains'[w][c][j] # NoChain /\ chains'[w][c][j].symbols = chains[w][c][j].symbols
  BY <1>5, <1>7 DEF Busy
<1> QED BY <1>1, <1>6, <1>7, <1>8, <1>9, <1>10, EventStep

-----------------------------------------------------------------------------
(* The theorems. *)

LEMMA WorkersStep == WorkersInv /\ [Next]_vars => WorkersInv'
<1> SUFFICES ASSUME WorkersInv, [Next]_vars PROVE WorkersInv'
  OBVIOUS
<1>1. CASE PutSymbols
  BY <1>1, PutStep
<1>2. CASE AnswerRefresh
  BY <1>2, AnswerStep
<1>3. CASE RefreshReturns
  BY <1>3, RefreshStep
<1>4. CASE Loss
  <2>1. PICK w \in Workers : StartFails(w) \/ \E c \in Conns, i \in ChainIds : Lost(w, c, i)
    BY <1>4 DEF Loss
  <2>2. CASE StartFails(w)
    BY <2>2, StartFailsStep
  <2>3. ASSUME NEW c \in Conns, NEW i \in ChainIds, Lost(w, c, i) PROVE WorkersInv'
    BY <2>3, EndsStep DEF Lost
  <2> QED BY <2>1, <2>2, <2>3
<1>5. ASSUME NEW w \in Workers, WorkerStep(w) PROVE WorkersInv'
  <2>1. CASE Start(w)
    BY <2>1, StartStep
  <2>2. CASE ApplyConfig(w)
    BY <2>2, ApplyConfigStep
  <2>3. ASSUME NEW i \in ChainIds, IdleEnds(w, i) PROVE WorkersInv'
    <3>1. "okx" \in Conns /\ IsSocket(w, "okx", i) /\ Ends(w, "okx", i)
      BY <2>3 DEF IdleEnds, IsSocket
    <3> QED BY <3>1, EndsStep
  <2>4. ASSUME NEW i \in ChainIds, NEW c \in Conns, Open(w, c, i) PROVE WorkersInv'
    BY <2>4, OpenStep
  <2>5. ASSUME NEW i \in ChainIds, NEW c \in Conns, Reconnect(w, c, i) PROVE WorkersInv'
    BY <2>5, ReconnectStep
  <2> QED BY <1>5, <2>1, <2>2, <2>3, <2>4, <2>5 DEF WorkerStep
<1>6. CASE UNCHANGED vars
  <2>1. UNCHANGED <<mainVars, inbox, worker, symbols, connVars>>
    BY <1>6 DEF vars
  <2>2. ConnTypes' /\ ChainsInv' /\ MainTypes' /\ AssignedIsSelected'
    BY <2>1, ConnsStay, MainStays
  <2>3. WorkerTypes' /\ AssignmentIsPosted'
    BY <2>1 DEF WorkersInv, WorkerTypes, AssignmentIsPosted, LastPost, mainVars
  <2> QED BY <2>2, <2>3 DEF WorkersInv
<1> QED BY <1>1, <1>2, <1>3, <1>4, <1>5, <1>6 DEF Next

LEMMA WorkersInvHolds == Spec => []WorkersInv
BY WorkersInit, WorkersStep, PTL DEF Spec

(* For every number of workers, symbols, hashes, listings, updates, sockets *)
(* and faults: this.ws is a socket that is not closed or stands for none,   *)
(* and a dead worker has no sockets.                                        *)
THEOREM WorkersTypeOK == Spec => []TypeOK
<1>1. WorkersInv => TypeOK
  <2> SUFFICES ASSUME WorkersInv PROVE TypeOK
    OBVIOUS
  <2>1. ASSUME NEW w \in Workers, NEW c \in Conns
        PROVE  /\ queue[w][c] \in {"none", "live", "ended"}
               /\ current[w][c] # 0 => IsSocket(w, c, current[w][c])
               /\ \A i \in ChainIds :
                     /\ Chain(w, c, i).state \in {"none", "connecting", "open", "waiting"}
                     /\ Chain(w, c, i) # NoChain => worker[w] # "dead"
    <3>1. ConnInv(w, c)
      BY DEF WorkersInv, ChainsInv
    <3>2. queue[w][c] \in {"none", "live", "ended"} /\ chains[w][c] \in [ChainIds -> ChainRecords]
      BY DEF WorkersInv, ConnTypes
    <3>3. \A i \in ChainIds : Chain(w, c, i).state \in {"none", "connecting", "open", "waiting"}
      BY <3>2 DEF Chain, ChainRecords
    <3> QED BY <3>1, <3>2, <3>3 DEF ConnInv, Busy, IsSocket, Chain
  <2>2. \A w \in Workers : worker[w] \in {"starting", "running", "dead"} /\ symbols[w] \subseteq Symbols
    BY DEF WorkersInv, WorkerTypes
  <2>3. MainTypes
    BY DEF WorkersInv
  <2> QED BY <2>1, <2>2, <2>3 DEF TypeOK, MainTypes
<1> QED BY <1>1, WorkersInvHolds, PTL

(* For every history of discoveries and PUTs: the core is cut by what is    *)
(* discovered and CORE_MAX_SYMBOLS alone, and what was put gives way only   *)
(* to what was put.                                                         *)
THEOREM PreferredFirstTheorem == Spec => []PreferredFirst
<1>1. WorkersInv => PreferredFirst
  <2> SUFFICES ASSUME WorkersInv, discovered # {} PROVE PreferredFirst
    BY DEF PreferredFirst
  <2>1. assigned = Selected(discovered, preferred) /\ discovered \in SUBSET Symbols /\ preferred \in Lists
    BY DEF WorkersInv, AssignedIsSelected, MainTypes
  <2>2. PICK d \in SUBSET Symbols, p \in Lists : d = discovered /\ p = preferred
    BY <2>1
  <2>3. assigned = Selected(d, p)
    BY <2>1, <2>2 DEF Selected, ByName
  <2> QED BY <2>2, <2>3, SelectedFacts DEF PreferredFirst
<1> QED BY <1>1, WorkersInvHolds, PTL

(* For every number of workers and every hash: once all have taken their    *)
(* messages, each assigned symbol is worked on by exactly one of them, and  *)
(* no other symbol by any.                                                  *)
THEOREM ShardsAreCurrentTheorem == Spec => []ShardsAreCurrent
<1>1. WorkersInv => ShardsAreCurrent
  <2> SUFFICES ASSUME WorkersInv, NEW s \in Symbols,
                      \A w \in Workers : worker[w] # "dead" /\ inbox[w] = <<>>
               PROVE  Cardinality({w \in Workers : s \in symbols[w]})
                        = (IF s \in ToSet(assigned) THEN 1 ELSE 0)
    BY DEF ShardsAreCurrent
  <2> DEFINE home == Hash[s] % Shards
             on == {w \in Workers : s \in symbols[w]}
  <2>1. \A w \in Workers : symbols[w] = Shard(assigned, w)
    BY DEF WorkersInv, AssignmentIsPosted, LastPost
  <2>2. \A w \in Workers : s \in symbols[w] <=> s \in ToSet(assigned) /\ home = w
    BY <2>1 DEF Shard
  <2>3. home \in Workers
    <3>1. Hash[s] \in Nat /\ Shards \in Nat /\ 0 < Shards
      BY WorkersConstants
    <3> QED BY <3>1 DEF Workers
  <2> HIDE DEF home
  <2>4. CASE s \in ToSet(assigned)
    <3>1. on = {home}
      BY <2>2, <2>3, <2>4
    <3> QED BY <3>1, <2>4, FS_Singleton
  <2>5. CASE s \notin ToSet(assigned)
    <3>1. on = {}
      BY <2>2, <2>5
    <3> QED BY <3>1, <2>5, FS_EmptySet
  <2> QED BY <2>4, <2>5
<1> QED BY <1>1, WorkersInvHolds, PTL

(* For every interleaving of updates, losses, reconnections and starts: a   *)
(* running worker with symbols keeps a chain that carries them and a queue  *)
(* that hears it, and one without hears nothing.                            *)
THEOREM ChainIsKeptTheorem == Spec => []ChainIsKept
<1>1. WorkersInv => ChainIsKept
  <2> SUFFICES ASSUME WorkersInv, NEW w \in Workers, NEW c \in Conns, worker[w] = "running"
               PROVE  /\ symbols[w] # {} => \E i \in ChainIds : /\ Chain(w, c, i).state # "none"
                                                                /\ Chain(w, c, i).symbols = symbols[w]
                      /\ symbols[w] # {} <=> queue[w][c] = "live"
    BY DEF ChainIsKept
  <2>1. ConnInv(w, c)
    BY DEF WorkersInv, ChainsInv
  <2>2. symbols[w] # {} <=> queue[w][c] = "live"
    BY <2>1 DEF ConnInv
  <2>3. ASSUME symbols[w] # {}
        PROVE  \E i \in ChainIds : Chain(w, c, i).state # "none" /\ Chain(w, c, i).symbols = symbols[w]
    <3>1. PICK i \in Busy(chains[w][c]) : chains[w][c][i].symbols = symbols[w]
      BY <2>1, <2>2, <2>3 DEF ConnInv
    <3>2. i \in ChainIds /\ chains[w][c][i].state # "none"
      BY <2>1 DEF ConnInv, Busy
    <3> QED BY <3>1, <3>2 DEF Chain
  <2> QED BY <2>2, <2>3
<1> QED BY <1>1, WorkersInvHolds, PTL

-----------------------------------------------------------------------------
(* The ledger of the back test.  The indicators play no part: all that is   *)
(* used of them is that a signal is only given in a ranging bar.            *)

(* What LedgerBalances needs to be inductive: the types, that a position is *)
(* only carried out of a ranging bar, and that there is none before the     *)
(* first.                                                                   *)
LedgerInv ==
    /\ bars \in Seq(Int) /\ ranging \in BOOLEAN
    /\ position \in {-1, 0, 1} /\ hold \in Nat
    /\ entry \in Int /\ closed \in Int /\ total \in Int /\ range \in Int
    /\ position # 0 => ranging /\ bars # <<>>
    /\ LedgerBalances

(* A signal is long, short or flat, and flat outside the ranging regime:    *)
(* the condition around the assignment of signal.                           *)
LEMMA SignalIsRanging ==
    ASSUME NEW s
    PROVE  Signal(s) \in {-1, 0, 1} /\ (Signal(s) # 0 => IsRanging(s))
BY DEF Signal

(* What a series ends with once a bar is added.                             *)
LEMMA LastValue ==
    ASSUME NEW s \in Seq(Int), NEW v \in Int
    PROVE  /\ Append(s, v) \in Seq(Int) /\ Append(s, v) # <<>>
           /\ Value(Append(s, v)) = v /\ Value(s) \in Int
BY DEF Value

LEMMA LedgerInit == ReversionInit => LedgerInv
<1> SUFFICES ASSUME ReversionInit PROVE LedgerInv
  OBVIOUS
<1>1. MaxHoldBars \in Nat /\ 0 < MaxHoldBars
  BY ReversionAssumption
<1>2. bars \in Seq(Int)
  BY DEF ReversionInit
<1>3. ranging \in BOOLEAN
  BY DEF ReversionInit
<1>4. position = 0 /\ hold = 0 /\ entry = 0 /\ closed = 0 /\ total = 0 /\ range = 0
  BY DEF ReversionInit
<1>5. Value(bars) = 0
  BY DEF ReversionInit, Value
<1>6. LedgerBalances
  BY <1>1, <1>4, <1>5 DEF LedgerBalances, AllTrades
<1> QED  BY <1>2, <1>3, <1>4, <1>6 DEF LedgerInv

(* A bar that books its step and then enters, exits or carries the position.*)
LEMMA LedgerStep ==
    ASSUME LedgerInv, NEW v \in Values, Bar(v)
    PROVE  LedgerInv'
<1> DEFINE last == Value(bars)
<1>1. v \in Int /\ MaxHoldBars \in Nat \ {0, 1}
  BY ReversionAssumption
<1>2. /\ bars' \in Seq(Int) /\ bars' # <<>>
      /\ Value(bars') = v /\ last \in Int
  BY <1>1, LastValue DEF LedgerInv, Bar
<1>3. ranging' = IsRanging(bars') /\ ranging' \in BOOLEAN
  BY DEF Bar, IsRanging
<1>4. /\ total' = total + position * Step(v) /\ total' \in Int
      /\ range' = total'
      /\ total' = closed + position * (v - entry)
  <2>1. CASE position = 0
    <3>1. Step(v) \in Int
      BY <1>1, <1>2 DEF Step
    <3>2. total = closed /\ range = total
      BY <2>1, <1>2 DEF LedgerInv, LedgerBalances, AllTrades
    <3>3. total' = total /\ range' = range
      BY <2>1, <3>1 DEF LedgerInv, Bar, MarkToMarket
    <3>4. total' = total + position * Step(v) /\ closed + position * (v - entry) = closed
      BY <2>1, <3>1, <1>1 DEF LedgerInv, Bar, MarkToMarket
    <3> QED  BY <3>2, <3>3, <3>4 DEF LedgerInv
  <2>2. CASE position # 0
    <3>1. Step(v) = v - last /\ ranging
      BY <2>2 DEF LedgerInv, Step
    <3>2. total = closed + position * (last - entry) /\ range = total
      BY DEF LedgerInv, LedgerBalances, AllTrades
    <3>3. total' = total + position * (v - last) /\ range' = range + position * (v - last)
      BY <3>1 DEF Bar, MarkToMarket
    <3>4. CASE position = 1
      BY <3>4, <3>1, <3>2, <3>3, <1>1, <1>2 DEF LedgerInv
    <3>5. CASE position = -1
      <4>1. /\ last \in Int /\ v \in Int /\ entry \in Int
            /\ closed \in Int /\ total \in Int /\ range \in Int
        BY <1>1, <1>2 DEF LedgerInv
      <4>2. /\ position * (v - last) = last - v
            /\ position * (last - entry) = entry - last
            /\ position * (v - entry) = entry - v
        BY <3>5, <4>1
      <4>3. total' = total + (last - v) /\ range' = total' /\ total = closed + (entry - last)
        BY <3>2, <3>3, <4>2
      <4> HIDE DEF last
      <4> QED  BY <3>1, <3>3, <4>1, <4>2, <4>3
    <3> QED  BY <2>2, <3>4, <3>5 DEF LedgerInv
  <2> QED  BY <2>1, <2>2
<1>5. CASE Enter(bars')
  <2>1. /\ position = 0 /\ position' \in {-1, 0, 1} /\ closed' = closed
        /\ position' # 0 => ranging' /\ entry' = v /\ hold' = 0
        /\ position' = 0 => entry' = entry /\ hold' = hold
    BY <1>5, <1>2, <1>3, SignalIsRanging DEF Enter
  <2>2. entry' \in Int /\ hold' \in Nat /\ hold' < MaxHoldBars
    BY <2>1, <1>1 DEF LedgerInv, LedgerBalances
  <2>3. total' = closed' + position' * (v - entry')
    BY <2>1, <2>2, <1>1, <1>4 DEF LedgerInv
  <2> QED  BY <2>1, <2>2, <2>3, <1>2, <1>3, <1>4 DEF LedgerInv, LedgerBalances, AllTrades
<1>6. CASE Exit(bars')
  <2>1. /\ position' = 0 /\ hold' = 0 /\ entry' = entry
        /\ closed' = closed + position * (v - entry)
    BY <1>6, <1>2 DEF Exit
  <2>2. closed' = total'
    BY <2>1, <1>4
  <2> QED  BY <2>1, <2>2, <1>1, <1>2, <1>3, <1>4 DEF LedgerInv, LedgerBalances, AllTrades
<1>7. CASE Carry(bars')
  <2>1. /\ position # 0 /\ position' = position /\ entry' = entry /\ closed' = closed
        /\ hold' = hold + 1 /\ hold' < MaxHoldBars /\ ranging'
    BY <1>7, <1>1, <1>3 DEF Carry, ShouldExit, Held, LedgerInv
  <2> QED  BY <2>1, <1>2, <1>3, <1>4 DEF LedgerInv, LedgerBalances, AllTrades
<1> QED  BY <1>5, <1>6, <1>7 DEF Bar

(* For every configuration and every series: the step-by-step result is the *)
(* sum of the trades, all of it is booked to the ranging regime, and no     *)
(* position is held for maxHoldBars.                                        *)
THEOREM LedgerBalancesTheorem == ReversionSpec => []LedgerBalances
<1>1. LedgerInv /\ [ReversionNext]_reversionVars => LedgerInv'
  <2> SUFFICES ASSUME LedgerInv, [ReversionNext]_reversionVars PROVE LedgerInv'
    OBVIOUS
  <2>1. CASE ReversionNext
    BY <2>1, LedgerStep DEF ReversionNext
  <2>2. CASE UNCHANGED reversionVars
    BY <2>2 DEF reversionVars, ledger, LedgerInv, LedgerBalances, AllTrades, Value
  <2> QED  BY <2>1, <2>2
<1>2. LedgerInv => LedgerBalances
  BY DEF LedgerInv
<1> QED  BY LedgerInit, <1>1, <1>2, PTL DEF ReversionSpec
=============================================================================
