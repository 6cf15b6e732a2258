--------------------------- MODULE LinkedListHeap ---------------------------
(***************************************************************************)
(* The shape of the heap, for any number of threads, lists of any length,  *)
(* and any choice of malloc's: the nodes of a list are a sequence `at`     *)
(* that the links tell both ways, and what a thread has is its own.  With  *)
(* it, that the lists are the sequences their callers take them for,       *)
(* however long they grow and wherever malloc puts their blocks, and never *)
(* hold more nodes than there are places for.                              *)
(***************************************************************************)
EXTENDS LinkedListProofs, FiniteSetTheorems, SequenceTheorems

IsNode(a) ==
  /\ a \in DOMAIN heap /\ DOMAIN heap[a] = {"size", "prev", "value", "next"}
  /\ heap[a].size = NODE /\ heap[a].prev \in Address \cup {NULL} /\ heap[a].next \in Address \cup {NULL}
IsProp(a) ==
  /\ a \in DOMAIN heap /\ DOMAIN heap[a] = {"size", "value"}
  /\ heap[a].size = PROP /\ heap[a].value \in Value
IsList(a) == a \in DOMAIN heap /\ DOMAIN heap[a] = {"size"} /\ heap[a].size = LIST

Doings ==
  {Nothing}
  \cup [op : {"init_list", "new_property", "property", "add_last"}, created : Address]
  \cup [op : {"remove_element"}, current : Address]
  \cup [op : {"free_list"}, current : Address \cup {NULL}, i : Nat, todo : Seq(Address)]
ListRecords ==
  [at : Address, first : Address \cup {NULL}, last : Address \cup {NULL}, size : Nat]

(* What is left of a list: all of it, but while it is freed.               *)
Freed(t) == doing[t].op = "free_list"
Begin(t) == IF Freed(t) THEN doing[t].current ELSE list[t].first
Count(t) == IF Freed(t) THEN list[t].size - doing[t].i + 1 ELSE list[t].size
Rest(t) == IF list[t] = NoList THEN << >> ELSE Walk(Begin(t), Count(t))

(* The node a holds a value as the lists of t do.                          *)
Filled(t, a) == IF t \in Owner THEN IsProp(heap[a].value) ELSE heap[a].value \in Value

Joined(t, at) ==
  LET n == Len(at)
  IN /\ n = Count(t)
     /\ n = 0 /\ ~ Freed(t) => list[t].first = NULL /\ list[t].last = NULL
     /\ n > 0 => at[1] = Begin(t) /\ at[n] = list[t].last /\ heap[at[n]].next = NULL
     /\ n > 0 /\ ~ Freed(t) => heap[at[1]].prev = NULL
     /\ \A i \in 1 .. n - 1 : heap[at[i]].next = at[i + 1] /\ heap[at[i + 1]].prev = at[i]

Kept(t, at) ==
  /\ \A i \in 1 .. Len(at) : IsNode(at[i]) /\ Filled(t, at[i])
  /\ \A i, j \in 1 .. Len(at) : at[i] = at[j] => i = j
  /\ t \in Owner =>
       \A i, j \in 1 .. Len(at) : heap[at[i]].value = heap[at[j]].value => i = j

(* A node apart from the list, a value apart from it.                      *)
NodeApart(a, at) == IsNode(a) /\ \A i \in 1 .. Len(at) : at[i] # a
PropApart(p, at) == IsProp(p) /\ \A i \in 1 .. Len(at) : heap[at[i]].value # p

InHands(t, at) ==
  LET d == doing[t]
  IN /\ d.op = "init_list" => IsList(d.created)
     /\ d.op \in {"new_property", "property"} => t \in Owner /\ PropApart(d.created, at)
     /\ d.op = "add_last" =>
          /\ NodeApart(d.created, at) /\ Filled(t, d.created)
          /\ heap[d.created].prev = NULL /\ heap[d.created].next = NULL
          /\ t \in Owner => PropApart(heap[d.created].value, at)
     /\ d.op = "remove_element" => NodeApart(d.current, at)
     /\ d.op = "free_list" =>
          \/ d.todo = << >> /\ call[t] = Idle
          \/ Len(at) = 0 /\ d.todo = << list[t].at >>
          \/ Len(d.todo) = 1 /\ NodeApart(d.todo[1], at)
          \/ Len(d.todo) = 2 /\ t \in Owner /\ PropApart(d.todo[1], at) /\ NodeApart(d.todo[2], at)

Orderly(t, at) ==
  /\ at \in Seq(Address)
  /\ doing[t].op = "nothing" => call[t] = Idle
  /\ list[t] = NoList => at = << >> /\ doing[t].op \in {"nothing", "init_list"}
  /\ list[t] # NoList =>
       /\ doing[t].op # "init_list"
       /\ IsList(list[t].at)
       /\ Freed(t) => doing[t].i >= 1
       /\ Joined(t, at)
  /\ Kept(t, at) /\ InHands(t, at)

HeapTyped ==
  /\ DOMAIN heap \subseteq Address
  /\ list \in [Thread -> {NoList} \cup ListRecords]
  /\ doing \in [Thread -> Doings]
InOrder == \A t \in Thread : Orderly(t, Rest(t))
HeapInv == AllocTypeOK /\ HeapTyped /\ InOrder /\ NothingElseLost

-----------------------------------------------------------------------------
(* Every set of numbers has a least one: how what holds up to a number is  *)
(* carried to the next.                                                    *)
LEMMA Least ==
  ASSUME NEW S \in SUBSET Nat, S # {}
  PROVE  \E m \in S : \A k \in S : m <= k
<1> DEFINE R == StrictSubsetOrdering(Nat)
           F == FiniteSubsetsOf(Nat)
           T == {0 .. n : n \in S}
<1>1. IsWellFoundedOn(R, F)  BY FS_StrictSubsetOrderingWellFounded, Zenon
<1>2. T \subseteq F
  <2>1. ASSUME NEW n \in S  PROVE 0 .. n \in F
    <3>1. IsFiniteSet(0 .. n)  BY FS_Interval
    <3> QED  BY <3>1 DEF FiniteSubsetsOf
  <2> QED  BY <2>1
<1>3. T # {}  OBVIOUS
<1> HIDE DEF R, F, T
<1>4. PICK t \in T : \A u \in T : ~ (<<u, t>> \in R)  BY <1>1, <1>2, <1>3, WFMin, Zenon
<1>5. PICK m \in S : t = 0 .. m  BY DEF T
<1>6. ASSUME NEW k \in S, k < m  PROVE FALSE
  <2>1. 0 .. k \in T  BY DEF T
  <2>2. 0 .. k \subseteq 0 .. m /\ m \in 0 .. m /\ m \notin 0 .. k  BY <1>6
  <2>3. << 0 .. k, 0 .. m >> \in R  BY <2>2 DEF R, StrictSubsetOrdering
  <2> QED  BY <2>1, <2>3, <1>4, <1>5
<1> QED  BY <1>6

LEMMA MinIsLeast ==
  ASSUME NEW S \in SUBSET Nat, S # {}
  PROVE  Min(S) \in S /\ \A k \in S : Min(S) <= k
  BY Least, Zenon DEF Min

(* What the links tell from a on is one sequence: Walk.                    *)
LEMMA WalkIs ==
  ASSUME NEW a, NEW n \in Nat, NEW at,
         at = [i \in 1 .. n |-> IF i = 1 THEN a ELSE heap[at[i - 1]].next]
  PROVE  Walk(a, n) = at
<1> DEFINE Tells(f) == f = [i \in 1 .. n |-> IF i = 1 THEN a ELSE heap[f[i - 1]].next]
           w == CHOOSE f : Tells(f)
<1>1. Walk(a, n) = w  BY DEF Walk
<1>2. Tells(at)  OBVIOUS
<1>3. Tells(w)  BY <1>2, Zenon
<1> HIDE DEF w
<1>4. DOMAIN w = 1 .. n /\ DOMAIN at = 1 .. n  BY <1>2, <1>3
<1> DEFINE S == {i \in 1 .. n : w[i] # at[i]}
<1>5. S = {}
  <2>1. SUFFICES ASSUME S # {}  PROVE FALSE  OBVIOUS
  <2>2. S \in SUBSET Nat  OBVIOUS
  <2>3. PICK m \in S : \A k \in S : m <= k  BY <2>1, <2>2, Least, Zenon
  <2>4. CASE m = 1
    BY <1>2, <1>3, <2>4
  <2>5. CASE m # 1
    <3>1. m - 1 \in 1 .. n /\ ~ (m <= m - 1)  BY <2>5
    <3>2. w[m - 1] = at[m - 1]  BY <2>3, <3>1
    <3>3. w[m] = heap[w[m - 1]].next /\ at[m] = heap[at[m - 1]].next  BY <1>2, <1>3, <2>5
    <3> QED  BY <3>2, <3>3
  <2> QED  BY <2>4, <2>5
<1>6. w = at
  <2>1. \A i \in 1 .. n : w[i] = at[i]  BY <1>5
  <2> QED  BY <1>2, <1>3, <1>4, <2>1
<1> QED  BY <1>1, <1>6

(* A sequence that is in order is what is left of the list.                *)
IsTheRest == \A t \in Thread : \A at : Orderly(t, at) => at = Rest(t)
LEMMA OrderlyIsRest == IsTheRest
<1> SUFFICES ASSUME NEW t \in Thread, NEW at, Orderly(t, at)  PROVE at = Rest(t)
  BY DEF IsTheRest
<1>1. CASE list[t] = NoList  BY <1>1 DEF Orderly, Rest
<1>2. CASE list[t] # NoList
  <2>1. at \in Seq(Address) /\ Len(at) = Count(t) /\ Joined(t, at)
    BY <1>2 DEF Orderly, Joined
  <2>2. Len(at) \in Nat /\ DOMAIN at = 1 .. Len(at)  BY <2>1
  <2>3. at = [i \in 1 .. Len(at) |-> at[i]]  BY <2>1
  <2>4. ASSUME NEW i \in 1 .. Len(at)
        PROVE  at[i] = IF i = 1 THEN Begin(t) ELSE heap[at[i - 1]].next
    <3>1. CASE i = 1  BY <2>1, <2>2, <3>1 DEF Joined
    <3>2. CASE i # 1
      <4>1. i - 1 \in 1 .. Len(at) - 1 /\ (i - 1) + 1 = i  BY <2>2, <3>2
      <4>2. heap[at[i - 1]].next = at[(i - 1) + 1]  BY <2>1, <4>1 DEF Joined
      <4> QED  BY <3>2, <4>1, <4>2
    <3> QED  BY <3>1, <3>2
  <2>5. at = [i \in 1 .. Len(at) |-> IF i = 1 THEN Begin(t) ELSE heap[at[i - 1]].next]
    BY <2>3, <2>4
  <2>6. Walk(Begin(t), Len(at)) = at  BY <2>2, <2>5, WalkIs
  <2> QED  BY <1>2, <2>1, <2>6 DEF Rest
<1> QED  BY <1>1, <1>2

LEMMA OrderlyIsRestNext == IsTheRest'
  BY OrderlyIsRest, PTL

-----------------------------------------------------------------------------
(* What a thread has, told by the sequence of its nodes.                   *)
Holding(t, at) ==
  (IF list[t] # NoList THEN {list[t].at} ELSE {}) \cup Range(at) \cup InHand(t)
  \cup IF t \in Owner THEN {heap[a].value : a \in Range(at) \cup Adds(t)} ELSE {}

HoldsWhatItHas == \A t \in Thread : \A at : Orderly(t, at) => Has(t) = Holding(t, at)
LEMMA HasIsHolding == HoldsWhatItHas
<1> SUFFICES ASSUME NEW t \in Thread, NEW at, Orderly(t, at)  PROVE Has(t) = Holding(t, at)
  BY DEF HoldsWhatItHas
<1>1. at = Rest(t)  BY OrderlyIsRest DEF IsTheRest
<1>2. NodesLeft(t) = Range(at)
  <2>1. CASE Whole(t)
    BY <1>1, <2>1, Zenon DEF NodesLeft, Whole, Rest, Nodes, Begin, Count, Freed
  <2>2. CASE doing[t].op = "free_list"
    <3>1. list[t] # NoList /\ ~ Whole(t)  BY <2>2 DEF Orderly, Whole
    <3> QED  BY <1>1, <2>2, <3>1 DEF NodesLeft, Rest, Begin, Count, Freed
  <2>3. CASE ~ Whole(t) /\ doing[t].op # "free_list"
    <3>1. at = << >>  BY <2>3 DEF Orderly, Whole
    <3>2. Range(at) = {}  BY <3>1 DEF Range
    <3> QED  BY <2>3, <3>2 DEF NodesLeft
  <2> QED  BY <2>1, <2>2, <2>3
<1> QED  BY <1>2 DEF Has, Holding

LEMMA HasIsHoldingNext == HoldsWhatItHas'
  BY HasIsHolding, PTL

(* The others: what a thread has stays in order as long as nobody touches  *)
(* it.                                                                     *)
Untouched(t, at) ==
  /\ list'[t] = list[t] /\ doing'[t] = doing[t]
  /\ call[t] = Idle => call'[t] = Idle
  /\ \A a \in Holding(t, at) \cap DOMAIN heap : a \in DOMAIN heap' /\ heap'[a] = heap[a]

LEMMA Frame ==
  ASSUME NEW t \in Thread, NEW at, Orderly(t, at), Untouched(t, at)
  PROVE  Orderly(t, at)' /\ Holding(t, at)' = Holding(t, at)
<1>1. list'[t] = list[t] /\ doing'[t] = doing[t] /\ (call[t] = Idle => call'[t] = Idle)
  BY DEF Untouched
<1>2. ASSUME NEW a \in Holding(t, at), a \in DOMAIN heap
      PROVE  a \in DOMAIN heap' /\ heap'[a] = heap[a]
  BY <1>2 DEF Untouched
<1>3. \A i \in 1 .. Len(at) : at[i] \in DOMAIN heap' /\ heap'[at[i]] = heap[at[i]]
  <2>1. ASSUME NEW i \in 1 .. Len(at)  PROVE at[i] \in Holding(t, at) /\ at[i] \in DOMAIN heap
    BY DEF Holding, Range, Orderly, Kept, IsNode
  <2> QED  BY <1>2, <2>1
<1>4. ASSUME t \in Owner, NEW i \in 1 .. Len(at)
      PROVE  /\ heap[at[i]].value \in DOMAIN heap'
             /\ heap'[heap[at[i]].value] = heap[heap[at[i]].value]
  <2>1. at[i] \in Range(at)  BY DEF Range, Orderly
  <2>2. heap[at[i]].value \in Holding(t, at)  BY <1>4, <2>1 DEF Holding
  <2>3. heap[at[i]].value \in DOMAIN heap  BY <1>4 DEF Orderly, Kept, Filled, IsProp
  <2> QED  BY <1>2, <2>2, <2>3
<1>5. Begin(t)' = Begin(t) /\ Count(t)' = Count(t) /\ (Freed(t)' <=> Freed(t)) /\ InHand(t)' = InHand(t)
      /\ Adds(t)' = Adds(t)
  BY <1>1 DEF Begin, Count, Freed, InHand, Adds
<1>6. Kept(t, at)'
  <2>1. Kept(t, at)  BY DEF Orderly
  <2>2. \A i \in 1 .. Len(at) : IsNode(at[i])'  BY <1>3, <2>1 DEF Kept, IsNode
  <2>3. ASSUME NEW i \in 1 .. Len(at)  PROVE Filled(t, at[i])'
    <3>1. Filled(t, at[i]) /\ heap'[at[i]] = heap[at[i]]  BY <1>3, <2>1 DEF Kept
    <3>2. CASE t \in Owner
      <4>1. IsProp(heap[at[i]].value)  BY <3>1, <3>2 DEF Filled
      <4>2. IsProp(heap[at[i]].value)'  BY <1>4, <3>1, <3>2, <4>1 DEF IsProp
      <4> QED  BY <3>1, <3>2, <4>2 DEF Filled, IsProp
    <3>3. CASE t \notin Owner  BY <3>1, <3>3 DEF Filled
    <3> QED  BY <3>2, <3>3
  <2> QED  BY <1>3, <2>1, <2>2, <2>3 DEF Kept
<1>7. list[t] # NoList => Joined(t, at)'
  <2> SUFFICES ASSUME list[t] # NoList  PROVE Joined(t, at)'  OBVIOUS
  <2>1. Joined(t, at) /\ Len(at) \in Nat  BY DEF Orderly
  <2>2. \A i \in 1 .. Len(at) - 1 : i \in 1 .. Len(at) /\ i + 1 \in 1 .. Len(at)  BY <2>1
  <2>3. Len(at) > 0 => 1 \in 1 .. Len(at) /\ Len(at) \in 1 .. Len(at)  BY <2>1
  <2> QED  BY <1>1, <1>3, <1>5, <2>1, <2>2, <2>3 DEF Joined
<1>8. list[t] # NoList => IsList(list[t].at)'
  <2> SUFFICES ASSUME list[t] # NoList  PROVE IsList(list[t].at)'  OBVIOUS
  <2>1. IsList(list[t].at)  BY DEF Orderly
  <2>2. list[t].at \in Holding(t, at)  BY DEF Holding
  <2> QED  BY <1>1, <1>2, <2>1, <2>2 DEF IsList
<1>9. ASSUME NEW a \in InHand(t)
      PROVE  /\ IsList(a) => IsList(a)'
             /\ NodeApart(a, at) => NodeApart(a, at)'
             /\ PropApart(a, at) => PropApart(a, at)'
             /\ a \in DOMAIN heap => heap'[a] = heap[a]
  <2>1. a \in Holding(t, at)  BY DEF Holding
  <2> QED  BY <1>2, <1>3, <2>1 DEF IsList, NodeApart, IsNode, PropApart, IsProp
<1>10. InHands(t, at)'
  <2>0. InHands(t, at)  BY DEF Orderly
  <2>1. doing[t].op = "init_list" => IsList(doing[t].created)'
    BY <1>1, <1>9, <2>0 DEF InHands, InHand, IsList
  <2>2. doing[t].op \in {"new_property", "property"} => PropApart(doing[t].created, at)'
    BY <1>1, <1>9, <2>0 DEF InHands, InHand, PropApart, IsProp
  <2>3. doing[t].op = "remove_element" => NodeApart(doing[t].current, at)'
    BY <1>1, <1>9, <2>0 DEF InHands, InHand, NodeApart, IsNode
  <2>4. ASSUME doing[t].op = "add_last"
        PROVE  /\ NodeApart(doing[t].created, at)' /\ Filled(t, doing[t].created)'
               /\ heap'[doing[t].created] = heap[doing[t].created]
               /\ t \in Owner => PropApart(heap[doing[t].created].value, at)'
    <3>1. doing[t].created \in InHand(t) /\ doing[t].created \in Adds(t)
      BY <2>4 DEF InHand, Adds
    <3>2. NodeApart(doing[t].created, at) /\ Filled(t, doing[t].created)
          /\ (t \in Owner => PropApart(heap[doing[t].created].value, at))
      BY <2>0, <2>4 DEF InHands
    <3>3. NodeApart(doing[t].created, at)' /\ heap'[doing[t].created] = heap[doing[t].created]
      <4>1. doing[t].created \in DOMAIN heap  BY <3>2 DEF NodeApart, IsNode
      <4>2. (NodeApart(doing[t].created, at))'
        BY <1>1, <1>2, <1>3, <3>1, <3>2, <4>1 DEF Holding, NodeApart, IsNode
      <4> QED  BY <1>9, <3>1, <4>1, <4>2
    <3>4. ASSUME t \in Owner
          PROVE  /\ PropApart(heap[doing[t].created].value, at)'
                 /\ IsProp(heap[doing[t].created].value)'
      <4>1. heap[doing[t].created].value \in Holding(t, at)  BY <3>1, <3>4 DEF Holding
      <4>2. heap[doing[t].created].value \in DOMAIN heap  BY <3>2, <3>4 DEF PropApart, IsProp
      <4> QED  BY <1>1, <1>2, <1>3, <3>2, <3>3, <3>4, <4>1, <4>2 DEF PropApart, IsProp
    <3> QED  BY <1>1, <3>2, <3>3, <3>4 DEF Filled
  <2>5. ASSUME doing[t].op = "free_list", NEW k \in 1 .. Len(doing[t].todo)
        PROVE  /\ NodeApart(doing[t].todo[k], at) => NodeApart(doing[t].todo[k], at)'
               /\ PropApart(doing[t].todo[k], at) => PropApart(doing[t].todo[k], at)'
    <3>1. doing[t].todo[k] \in InHand(t)  BY <2>5 DEF InHand, ToSet, HeapTyped
    <3> QED  BY <1>1, <1>9, <3>1
  <2> QED  BY <1>1, <2>0, <2>1, <2>2, <2>3, <2>4, <2>5 DEF InHands
<1>11. Orderly(t, at)'
  BY <1>1, <1>5, <1>6, <1>7, <1>8, <1>10 DEF Orderly
<1>12. Holding(t, at)' = Holding(t, at)
  <2>1. ASSUME t \in Owner, NEW a \in Range(at) \cup Adds(t)  PROVE heap'[a].value = heap[a].value
    <3>1. a \in Holding(t, at)  BY DEF Holding, Adds, InHand
    <3>2. a \in DOMAIN heap
      BY DEF Range, Adds, Orderly, Kept, InHands, NodeApart, IsNode
    <3> QED  BY <1>2, <3>1, <3>2
  <2> QED  BY <1>1, <1>5, <2>1 DEF Holding
<1> QED  BY <1>11, <1>12

-----------------------------------------------------------------------------
(* A step of t, seen from the heap: it takes the free places New, gives    *)
(* back Old, drops Gone, and writes to nothing but what t has.             *)
Changes(t, at, New, Old, Gone) ==
  /\ \A u \in Thread \ {t} : list'[u] = list[u] /\ doing'[u] = doing[u] /\ call'[u] = call[u]
  /\ New \subseteq Free /\ Old \subseteq Holding(t, at) /\ Gone \subseteq Holding(t, at)
  /\ DOMAIN heap' = (DOMAIN heap \ Old) \cup New
  /\ \A a \in DOMAIN heap \ Holding(t, at) : heap'[a] = heap[a]
  /\ lost' = lost \cup Gone /\ Old \cap Gone = {}

(* What the others have after it.                                          *)
KeepsOthers(t) ==
  \A u \in Thread \ {t} :
    /\ list'[u] = list[u] /\ doing'[u] = doing[u] /\ Rest(u)' = Rest(u)
    /\ \A a \in Holding(u, Rest(u)) \cap DOMAIN heap : heap'[a] = heap[a]

LEMMA OthersKeep ==
  ASSUME InOrder, NothingElseLost, NEW t \in Thread, NEW New, NEW Old, NEW Gone,
         Changes(t, Rest(t), New, Old, Gone)
  PROVE  /\ \A u \in Thread \ {t} : Orderly(u, Rest(u))' /\ Has(u)' = Has(u)
         /\ KeepsOthers(t)
<1>1. Orderly(t, Rest(t)) /\ Has(t) = Holding(t, Rest(t))
  BY HasIsHolding DEF InOrder, HoldsWhatItHas
<1> SUFFICES ASSUME NEW u \in Thread \ {t}
             PROVE  /\ Orderly(u, Rest(u))' /\ Has(u)' = Has(u) /\ Rest(u)' = Rest(u)
                    /\ list'[u] = list[u] /\ doing'[u] = doing[u]
                    /\ \A a \in Holding(u, Rest(u)) \cap DOMAIN heap : heap'[a] = heap[a]
  BY DEF KeepsOthers
<1>2. PICK at : at = Rest(u)  OBVIOUS
<1>3. Orderly(u, at) /\ Has(u) = Holding(u, at)
  BY <1>2, HasIsHolding DEF InOrder, HoldsWhatItHas
<1>4. Has(u) \cap Has(t) = {}  BY DEF NothingElseLost
<1>5. Untouched(u, at)
  <2>1. \A a \in Holding(u, at) : a \notin Holding(t, Rest(t))  BY <1>1, <1>3, <1>4
  <2> QED  BY <2>1 DEF Untouched, Changes
<1>6. Orderly(u, at)' /\ Holding(u, at)' = Holding(u, at)  BY <1>3, <1>5, Frame
<1>7. at = Rest(u)'  BY <1>6, OrderlyIsRestNext DEF IsTheRest
<1>8. Has(u)' = Holding(u, at)'  BY <1>6, HasIsHoldingNext DEF HoldsWhatItHas
<1>9. /\ list'[u] = list[u] /\ doing'[u] = doing[u]
      /\ \A a \in Holding(u, Rest(u)) \cap DOMAIN heap : heap'[a] = heap[a]
  BY <1>2, <1>5 DEF Untouched
<1> QED  BY <1>2, <1>3, <1>6, <1>7, <1>8, <1>9

LEMMA StepKeeps ==
  ASSUME InOrder, NothingElseLost, NEW t \in Thread, NEW New, NEW Old, NEW Gone,
         NEW was, was = Rest(t), Changes(t, was, New, Old, Gone), NEW at, Orderly(t, at)',
         Holding(t, at)' = (Holding(t, was) \ (Old \cup Gone)) \cup New
  PROVE  InOrder' /\ NothingElseLost' /\ KeepsOthers(t)
<1>1. Has(t) = Holding(t, was)  BY HasIsHolding DEF InOrder, HoldsWhatItHas
<1>2. at = Rest(t)'  BY OrderlyIsRestNext DEF IsTheRest
<1>3. Has(t)' = (Has(t) \ (Old \cup Gone)) \cup New
  BY <1>1, HasIsHoldingNext DEF HoldsWhatItHas
<1>4. (\A u \in Thread \ {t} : Orderly(u, Rest(u))' /\ Has(u)' = Has(u)) /\ KeepsOthers(t)
  BY OthersKeep, Zenon
<1>5. InOrder'  BY <1>2, <1>4 DEF InOrder
<1>6. /\ New \cap DOMAIN heap = {} /\ Old \subseteq Has(t) /\ Gone \subseteq Has(t)
      /\ DOMAIN heap' = (DOMAIN heap \ Old) \cup New
      /\ lost' = lost \cup Gone /\ Old \cap Gone = {}
  BY <1>1 DEF Changes, Free
<1>7. /\ DOMAIN heap = lost \cup UNION {Has(u) : u \in Thread}
      /\ \A u \in Thread : Has(u) \cap lost = {} /\ \A v \in Thread \ {u} : Has(u) \cap Has(v) = {}
  BY DEF NothingElseLost
<1>8. \A u \in Thread : Has(u) \subseteq DOMAIN heap  BY <1>7
<1>9. \A u \in Thread : Has(u)' \cap lost' = {}
  <2>1. Has(t)' \cap lost' = {}  BY <1>3, <1>6, <1>7, <1>8
  <2>2. ASSUME NEW u \in Thread \ {t}  PROVE Has(u)' \cap lost' = {}
    BY <1>4, <1>6, <1>7, <1>8
  <2> QED  BY <2>1, <2>2
<1>10. \A u \in Thread : \A v \in Thread \ {u} : Has(u)' \cap Has(v)' = {}
  <2>1. ASSUME NEW u \in Thread \ {t}  PROVE Has(t)' \cap Has(u)' = {} /\ Has(u)' \cap Has(t)' = {}
    BY <1>3, <1>4, <1>6, <1>7, <1>8
  <2>2. ASSUME NEW u \in Thread \ {t}, NEW v \in Thread \ {u, t}  PROVE Has(u)' \cap Has(v)' = {}
    BY <1>4, <1>7
  <2> QED  BY <2>1, <2>2
<1>11. DOMAIN heap' = lost' \cup UNION {Has(u)' : u \in Thread}
  <2>1. ASSUME NEW a \in DOMAIN heap'  PROVE a \in lost' \/ \E u \in Thread : a \in Has(u)'
    <3>1. CASE a \in New  BY <1>3, <3>1
    <3>2. CASE a \in DOMAIN heap /\ a \notin Old
      <4>1. CASE a \in lost  BY <1>6, <4>1
      <4>2. CASE a \in Has(t)  BY <1>3, <1>6, <3>2, <4>2
      <4>3. ASSUME NEW u \in Thread \ {t}, a \in Has(u)  PROVE \E w \in Thread : a \in Has(w)'
        BY <1>4, <4>3
      <4> QED  BY <1>7, <3>2, <4>1, <4>2, <4>3
    <3> QED  BY <1>6, <3>1, <3>2
  <2>2. lost' \subseteq DOMAIN heap'
    <3>1. lost \cap Old = {} /\ Gone \subseteq DOMAIN heap  BY <1>6, <1>7, <1>8
    <3>2. lost \subseteq DOMAIN heap  BY <1>7
    <3> QED  BY <1>6, <3>1, <3>2
  <2>3. Has(t)' \subseteq DOMAIN heap'  BY <1>3, <1>6, <1>8
  <2>4. ASSUME NEW u \in Thread \ {t}  PROVE Has(u)' \subseteq DOMAIN heap'
    BY <1>4, <1>6, <1>7, <1>8
  <2> QED  BY <2>1, <2>2, <2>3, <2>4
<1>12. NothingElseLost'  BY <1>9, <1>10, <1>11 DEF NothingElseLost
<1> QED  BY <1>4, <1>5, <1>12

-----------------------------------------------------------------------------
(* What every step of t knows: a call of t leaves the others in theirs.    *)
LEMMA CallsApart ==
  ASSUME AllocTypeOK, NEW t \in Thread
  PROVE  /\ \A size : my_alloc(t, size) \/ my_free(t, size) => 
               call[t] = Idle /\ \A u \in Thread \ {t} : call'[u] = call[u]
         /\ Return(t) => call'[t] = Idle /\ call[t] # Idle /\ \A u \in Thread \ {t} : call'[u] = call[u]
<1>1. DOMAIN call = Thread  BY DEF AllocTypeOK
<1>2. ASSUME NEW size, my_alloc(t, size) \/ my_free(t, size)
      PROVE  call[t] = Idle /\ \A u \in Thread \ {t} : call'[u] = call[u]
  <2>1. \E at : Enter(t, at, size)  BY <1>2, Zenon DEF my_alloc, my_free
  <2> QED  BY <1>1, <2>1 DEF Enter
<1>3. ASSUME Return(t)
      PROVE  call'[t] = Idle /\ call[t] # Idle /\ \A u \in Thread \ {t} : call'[u] = call[u]
  <2>1. call[t].at = "return" /\ Idle.at = "idle"  BY <1>3 DEF Return, Idle
  <2> QED  BY <1>1, <1>3, <2>1 DEF Return
<1> QED  BY <1>2, <1>3

LEMMA SomeThread ==
  ASSUME HeapInv, NEW t \in Thread
  PROVE  /\ Orderly(t, Rest(t)) /\ doing[t] \in Doings /\ list[t] \in {NoList} \cup ListRecords
         /\ Holding(t, Rest(t)) \subseteq DOMAIN heap
<1>1. Orderly(t, Rest(t))  BY DEF HeapInv, InOrder
<1>2. Has(t) = Holding(t, Rest(t))  BY <1>1, HasIsHolding DEF HoldsWhatItHas
<1> QED  BY <1>1, <1>2 DEF HeapInv, HeapTyped, NothingElseLost

LEMMA TypedStep ==
  ASSUME HeapTyped, NEW t \in Thread, DOMAIN heap' \subseteq Address,
         NEW d \in Doings, Does(t, d), NEW l \in {NoList} \cup ListRecords, Sets(t, l) \/ list' = list
  PROVE  /\ HeapTyped' /\ doing'[t] = d
         /\ \A u \in Thread \ {t} : doing'[u] = doing[u] /\ list'[u] = list[u]
         /\ Sets(t, l) => list'[t] = l
  BY DEF HeapTyped, Does, Sets

LEMMA EmptyRest ==
  << >> \in Seq(Address) /\ Len(<< >>) = 0 /\ Range(<< >>) = {}
  BY DEF Range

LEMMA ListRecordIsList ==
  ASSUME NEW l \in ListRecords
  PROVE  l # NoList
<1>1. DOMAIN l = {"at", "first", "last", "size"}  BY DEF ListRecords
<1>2. "at" \in DOMAIN l  BY <1>1
<1>3. DOMAIN NoList = {}  BY DEF NoList
<1> QED  BY <1>2, <1>3

(* A block is of one kind.                                                 *)
LEMMA Kinds ==
  \A a : ~ (IsNode(a) /\ IsProp(a)) /\ ~ (IsNode(a) /\ IsList(a)) /\ ~ (IsProp(a) /\ IsList(a))
<1> SUFFICES ASSUME NEW a
             PROVE  ~ (IsNode(a) /\ IsProp(a)) /\ ~ (IsNode(a) /\ IsList(a)) /\ ~ (IsProp(a) /\ IsList(a))
  OBVIOUS
<1>1. IsNode(a) => "prev" \in DOMAIN heap[a] /\ "value" \in DOMAIN heap[a]  BY DEF IsNode
<1>2. IsProp(a) => "prev" \notin DOMAIN heap[a] /\ "value" \in DOMAIN heap[a]  BY DEF IsProp
<1>3. IsList(a) => "prev" \notin DOMAIN heap[a] /\ "value" \notin DOMAIN heap[a]  BY DEF IsList
<1> QED  BY <1>1, <1>2, <1>3

LEMMA InitListStep ==
  ASSUME HeapInv, NEW t \in Thread, init_list(t)
  PROVE  HeapTyped' /\ InOrder' /\ NothingElseLost' /\ KeepsOthers(t)
<1>1. PICK a \in Free :
        /\ heap' = [b \in DOMAIN heap \cup {a} |-> IF b = a THEN [size |-> LIST] ELSE heap[b]]
        /\ Does(t, [op |-> "init_list", created |-> a])
  BY Zenon DEF init_list
<1> DEFINE d == [op |-> "init_list", created |-> a]
<1>2. doing[t] = Nothing /\ list[t] = NoList /\ list' = list /\ lost' = lost /\ my_alloc(t, LIST)
  BY DEF init_list
<1>3. a \in Address /\ a \notin DOMAIN heap  BY DEF Free
<1>4. DOMAIN heap' = DOMAIN heap \cup {a} /\ heap'[a] = [size |-> LIST]
      /\ \A b \in DOMAIN heap : heap'[b] = heap[b]
  BY <1>1, <1>3
<1>5. d \in Doings  BY <1>3 DEF Doings
<1>6. HeapTyped' /\ doing'[t] = d /\ \A u \in Thread \ {t} : doing'[u] = doing[u] /\ list'[u] = list[u]
  BY <1>1, <1>2, <1>3, <1>4, <1>5, TypedStep DEF HeapInv, HeapTyped
<1>7. Orderly(t, Rest(t)) /\ Rest(t) = << >>  BY <1>2, SomeThread DEF Orderly
<1>8. Holding(t, Rest(t)) = {}
  BY <1>2, <1>7, EmptyRest DEF Holding, InHand, Adds, Nothing
<1>9. Orderly(t, << >>)'
  BY <1>2, <1>4, <1>6, EmptyRest DEF Orderly, Kept, InHands, IsList
<1>10. Holding(t, << >>)' = {a}
  BY <1>2, <1>6, EmptyRest DEF Holding, InHand, Adds
<1>11. Changes(t, Rest(t), {a}, {}, {})
  BY <1>2, <1>4, <1>6, CallsApart DEF Changes, HeapInv
<1> QED  BY <1>6, <1>8, <1>9, <1>10, <1>11, StepKeeps DEF HeapInv

LEMMA ListCreatedStep ==
  ASSUME HeapInv, NEW t \in Thread, list_created(t)
  PROVE  /\ HeapTyped' /\ InOrder' /\ NothingElseLost' /\ KeepsOthers(t)
         /\ list[t] = NoList /\ list'[t] # NoList /\ doing'[t] = Nothing /\ Rest(t)' = << >>
<1> DEFINE a == doing[t].created
           l == [at |-> a, first |-> NULL, last |-> NULL, size |-> 0]
<1>1. doing[t].op = "init_list" /\ Return(t) /\ Sets(t, l) /\ Does(t, Nothing) /\ heap' = heap /\ lost' = lost
  BY DEF list_created
<1>2. Orderly(t, Rest(t)) /\ doing[t] \in Doings  BY SomeThread
<1>3. IsList(a) /\ list[t] = NoList /\ Rest(t) = << >>  BY <1>1, <1>2 DEF Orderly, InHands
<1>4. a \in Address /\ DOMAIN heap' \subseteq Address
  BY <1>1, <1>3 DEF IsList, HeapInv, HeapTyped
<1>5. l \in ListRecords /\ Nothing \in Doings  BY <1>4 DEF ListRecords, Doings
<1>6. HeapTyped' /\ doing'[t] = Nothing /\ list'[t] = l
      /\ \A u \in Thread \ {t} : doing'[u] = doing[u] /\ list'[u] = list[u]
  BY <1>1, <1>4, <1>5, TypedStep DEF HeapInv
<1>7. l # NoList  BY <1>5, ListRecordIsList
<1>8. Holding(t, Rest(t)) = {a}
  BY <1>1, <1>3, EmptyRest DEF Holding, InHand, Adds
<1>9. Joined(t, << >>)'
  BY <1>6, EmptyRest DEF Joined, Count, Begin, Freed, Nothing
<1>10. Orderly(t, << >>)'
  BY <1>1, <1>3, <1>6, <1>7, <1>9, EmptyRest, CallsApart
  DEF Orderly, Kept, InHands, IsList, Nothing, Freed, HeapInv
<1>11. Holding(t, << >>)' = {a}
  BY <1>6, <1>7, EmptyRest DEF Holding, InHand, Adds, Nothing
<1>12. Changes(t, Rest(t), {}, {}, {})
  BY <1>1, <1>6, CallsApart DEF Changes, HeapInv
<1>13. << >> = Rest(t)'  BY <1>10, OrderlyIsRestNext DEF IsTheRest
<1> QED  BY <1>3, <1>6, <1>7, <1>8, <1>10, <1>11, <1>12, <1>13, StepKeeps DEF HeapInv

LEMMA NewPropertyStep ==
  ASSUME HeapInv, NEW t \in Thread, NEW v \in Value, new_property(t, v)
  PROVE  /\ HeapTyped' /\ InOrder' /\ NothingElseLost' /\ KeepsOthers(t)
         /\ list' = list /\ ~ Freed(t) /\ ~ Freed(t)' /\ Rest(t)' = Rest(t)
<1>1. PICK a \in Free :
        /\ heap' = [b \in DOMAIN heap \cup {a} |->
                      IF b = a THEN [size |-> PROP, value |-> v] ELSE heap[b]]
        /\ Does(t, [op |-> "new_property", created |-> a])
  BY Zenon DEF new_property
<1> DEFINE d == [op |-> "new_property", created |-> a]
<1>2. /\ doing[t] = Nothing /\ list[t] # NoList /\ list' = list /\ lost' = lost /\ my_alloc(t, PROP)
      /\ t \in Owner
  BY DEF new_property, Ready
<1>3. a \in Address /\ a \notin DOMAIN heap  BY DEF Free
<1>4. DOMAIN heap' = DOMAIN heap \cup {a} /\ heap'[a] = [size |-> PROP, value |-> v]
      /\ \A b \in DOMAIN heap : heap'[b] = heap[b]
  BY <1>1, <1>3
<1>5. d \in Doings  BY <1>3 DEF Doings
<1>6. HeapTyped' /\ doing'[t] = d /\ \A u \in Thread \ {t} : doing'[u] = doing[u] /\ list'[u] = list[u]
  BY <1>1, <1>2, <1>3, <1>4, <1>5, TypedStep DEF HeapInv, HeapTyped
<1>7. PICK at : at = Rest(t)  OBVIOUS
<1>8. Orderly(t, at) /\ Holding(t, at) \subseteq DOMAIN heap  BY <1>7, SomeThread
<1>9. Kept(t, at)' /\ PropApart(a, at)'
  <2>1. Kept(t, at)  BY <1>8 DEF Orderly
  <2>2. \A i \in 1 .. Len(at) :
          /\ at[i] \in DOMAIN heap /\ heap'[at[i]] = heap[at[i]]
          /\ heap[at[i]].value \in DOMAIN heap /\ heap'[heap[at[i]].value] = heap[heap[at[i]].value]
          /\ heap[at[i]].value # a
    BY <1>2, <1>3, <1>4, <2>1 DEF Kept, IsNode, Filled, IsProp
  <2>3. Kept(t, at)'  BY <1>4, <2>1, <2>2 DEF Kept, IsNode, Filled, IsProp
  <2> QED  BY <1>4, <2>2, <2>3 DEF PropApart, IsProp
<1>10. Joined(t, at)'
  <2>1. Joined(t, at) /\ Len(at) \in Nat  BY <1>2, <1>8 DEF Orderly
  <2>2. \A i \in 1 .. Len(at) : heap'[at[i]] = heap[at[i]]
    BY <1>4, <1>8 DEF Orderly, Kept, IsNode
  <2>3. \A i \in 1 .. Len(at) - 1 : i \in 1 .. Len(at) /\ i + 1 \in 1 .. Len(at)  BY <2>1
  <2>4. Len(at) > 0 => 1 \in 1 .. Len(at) /\ Len(at) \in 1 .. Len(at)  BY <2>1
  <2>5. Begin(t)' = Begin(t) /\ Count(t)' = Count(t) /\ ~ Freed(t) /\ ~ Freed(t)'
    BY <1>2, <1>6 DEF Begin, Count, Freed, Nothing
  <2> QED  BY <1>2, <2>1, <2>2, <2>3, <2>4, <2>5 DEF Joined
<1>11. Orderly(t, at)'
  BY <1>2, <1>4, <1>6, <1>8, <1>9, <1>10 DEF Orderly, InHands, IsList, Freed, Nothing
<1>12. Holding(t, at)' = Holding(t, at) \cup {a}
  <2>1. \A b \in Range(at) : heap'[b] = heap[b]
    BY <1>4, <1>8 DEF Orderly, Kept, IsNode, Range
  <2> QED  BY <1>2, <1>6, <2>1 DEF Holding, InHand, Adds, Nothing
<1>13. Changes(t, at, {a}, {}, {})
  BY <1>2, <1>4, <1>6, CallsApart DEF Changes, HeapInv
<1>14. at = Rest(t)'  BY <1>11, OrderlyIsRestNext DEF IsTheRest
<1>15. InOrder' /\ NothingElseLost' /\ KeepsOthers(t)
  BY <1>7, <1>11, <1>12, <1>13, StepKeeps DEF HeapInv
<1> QED  BY <1>2, <1>6, <1>7, <1>14, <1>15 DEF Freed, Nothing

LEMMA PropertyCreatedStep ==
  ASSUME HeapInv, NEW t \in Thread, property_created(t)
  PROVE  /\ HeapTyped' /\ InOrder' /\ NothingElseLost' /\ KeepsOthers(t)
         /\ list' = list /\ ~ Freed(t) /\ ~ Freed(t)' /\ Rest(t)' = Rest(t)
<1> DEFINE d == [op |-> "property", created |-> doing[t].created]
<1>1. /\ doing[t].op = "new_property" /\ Return(t) /\ heap' = heap /\ list' = list /\ lost' = lost
      /\ Does(t, [doing[t] EXCEPT !.op = "property"])
  BY DEF property_created
<1>2. PICK at : at = Rest(t)  OBVIOUS
<1>3. Orderly(t, at) /\ doing[t] \in Doings  BY <1>2, SomeThread
<1>4. [doing[t] EXCEPT !.op = "property"] = d /\ d \in Doings
  BY <1>1, <1>3 DEF Doings, Nothing
<1>5. HeapTyped' /\ doing'[t] = d /\ \A u \in Thread \ {t} : doing'[u] = doing[u] /\ list'[u] = list[u]
  BY <1>1, <1>4, TypedStep DEF HeapInv, HeapTyped
<1>6. Orderly(t, at)'
  <2>1. Kept(t, at)'  BY <1>1, <1>3 DEF Orderly, Kept, IsNode, Filled, IsProp
  <2>2. list[t] # NoList => Joined(t, at)'
    BY <1>1, <1>3, <1>5 DEF Orderly, Joined, Begin, Count, Freed
  <2>3. InHands(t, at)'
    BY <1>1, <1>3, <1>5 DEF Orderly, InHands, PropApart, IsProp
  <2> QED  BY <1>1, <1>3, <1>5, <2>1, <2>2, <2>3 DEF Orderly, IsList, Freed
<1>7. Holding(t, at)' = Holding(t, at)
  BY <1>1, <1>5 DEF Holding, InHand, Adds
<1>8. Changes(t, at, {}, {}, {})
  BY <1>1, <1>5, CallsApart DEF Changes, HeapInv
<1>9. at = Rest(t)'  BY <1>6, OrderlyIsRestNext DEF IsTheRest
<1>10. InOrder' /\ NothingElseLost' /\ KeepsOthers(t)
  BY <1>2, <1>6, <1>7, <1>8, StepKeeps DEF HeapInv
<1> QED  BY <1>1, <1>2, <1>5, <1>9, <1>10 DEF Freed

LEMMA AddLastStep ==
  ASSUME HeapInv, NEW t \in Thread, NEW value, add_last(t, value), list[t] # NoList,
         \/ t \notin Owner /\ value \in Value /\ doing[t] = Nothing
         \/ doing[t].op = "property" /\ value = doing[t].created
  PROVE  /\ HeapTyped' /\ InOrder' /\ NothingElseLost' /\ KeepsOthers(t)
         /\ list' = list /\ ~ Freed(t) /\ ~ Freed(t)' /\ Rest(t)' = Rest(t)
<1>1. PICK a \in Free :
        /\ heap' = [b \in DOMAIN heap \cup {a} |->
                      IF b = a THEN [size |-> NODE, prev |-> NULL, value |-> value, next |-> NULL]
                      ELSE heap[b]]
        /\ Does(t, [op |-> "add_last", created |-> a])
  BY Zenon DEF add_last
<1> DEFINE d == [op |-> "add_last", created |-> a]
<1>2. /\ list' = list /\ lost' = lost /\ my_alloc(t, NODE) /\ doing[t].op \in {"nothing", "property"}
  BY DEF add_last, Nothing
<1>3. a \in Address /\ a \notin DOMAIN heap  BY DEF Free
<1>4. /\ DOMAIN heap' = DOMAIN heap \cup {a}
      /\ heap'[a] = [size |-> NODE, prev |-> NULL, value |-> value, next |-> NULL]
      /\ \A b \in DOMAIN heap : heap'[b] = heap[b]
  BY <1>1, <1>3
<1>5. d \in Doings  BY <1>3 DEF Doings
<1>6. HeapTyped' /\ doing'[t] = d /\ \A u \in Thread \ {t} : doing'[u] = doing[u] /\ list'[u] = list[u]
  BY <1>1, <1>2, <1>3, <1>4, <1>5, TypedStep DEF HeapInv, HeapTyped
<1>7. PICK at : at = Rest(t)  OBVIOUS
<1>8. Orderly(t, at) /\ Holding(t, at) \subseteq DOMAIN heap  BY <1>7, SomeThread
<1>9. \A i \in 1 .. Len(at) :
        /\ at[i] \in DOMAIN heap /\ heap'[at[i]] = heap[at[i]] /\ at[i] # a
        /\ t \in Owner => /\ heap[at[i]].value \in DOMAIN heap
                          /\ heap'[heap[at[i]].value] = heap[heap[at[i]].value]
  BY <1>3, <1>4, <1>8 DEF Orderly, Kept, IsNode, Filled, IsProp
<1>10. Kept(t, at)' /\ NodeApart(a, at)'
  <2>1. Kept(t, at)  BY <1>8 DEF Orderly
  <2>2. Kept(t, at)'  BY <1>4, <1>9, <2>1 DEF Kept, IsNode, Filled, IsProp
  <2>3. IsNode(a)'  BY <1>4 DEF IsNode
  <2> QED  BY <1>9, <2>2, <2>3 DEF NodeApart
<1>11. Filled(t, a)' /\ (t \in Owner => PropApart(value, at)')
  <2>1. CASE t \in Owner
    <3>1. doing[t].op = "property" /\ value = doing[t].created  BY <2>1
    <3>2. PropApart(value, at)  BY <1>8, <3>1 DEF Orderly, InHands
    <3>3. PropApart(value, at)'  BY <1>4, <1>9, <3>2 DEF PropApart, IsProp
    <3> QED  BY <1>4, <2>1, <3>3 DEF Filled, PropApart, IsProp
  <2>2. CASE t \notin Owner
    <3>1. doing[t] = Nothing \/ doing[t].op # "property"
      BY <1>8, <2>2 DEF Orderly, InHands
    <3>2. value \in Value  BY <2>2, <3>1 DEF Nothing
    <3> QED  BY <1>4, <2>2, <3>2 DEF Filled
  <2> QED  BY <2>1, <2>2
<1>12. Joined(t, at)'
  <2>1. Joined(t, at) /\ Len(at) \in Nat  BY <1>8 DEF Orderly
  <2>2. \A i \in 1 .. Len(at) - 1 : i \in 1 .. Len(at) /\ i + 1 \in 1 .. Len(at)  BY <2>1
  <2>3. Len(at) > 0 => 1 \in 1 .. Len(at) /\ Len(at) \in 1 .. Len(at)  BY <2>1
  <2>4. Begin(t)' = Begin(t) /\ Count(t)' = Count(t) /\ ~ Freed(t) /\ ~ Freed(t)'
    BY <1>2, <1>6 DEF Begin, Count, Freed
  <2> QED  BY <1>2, <1>9, <2>1, <2>2, <2>3, <2>4 DEF Joined
<1>13. Orderly(t, at)'
  <2>1. InHands(t, at)'  BY <1>4, <1>6, <1>10, <1>11 DEF InHands, NodeApart, IsNode, Filled, PropApart, IsProp
  <2> QED  BY <1>2, <1>4, <1>6, <1>8, <1>10, <1>12, <2>1 DEF Orderly, IsList, Freed
<1>14. Holding(t, at)' = Holding(t, at) \cup {a}
  <2>1. \A b \in Range(at) : heap'[b] = heap[b] /\ b # a
    BY <1>8, <1>9 DEF Orderly, Range
  <2>2. CASE t \in Owner
    <3>1. doing[t].op = "property" /\ value = doing[t].created  BY <2>2
    <3>2. InHand(t) = {value} /\ InHand(t)' = {a} /\ Adds(t) = {} /\ Adds(t)' = {a}
      BY <1>6, <3>1 DEF InHand, Adds
    <3>3. heap'[a].value = value  BY <1>4
    <3>4. {heap'[b].value : b \in Range(at) \cup {a}} = {heap[b].value : b \in Range(at)} \cup {value}
      BY <2>1, <3>3
    <3>5. list' = list /\ list[t] # NoList  BY <1>2
    <3>6. Holding(t, at) = {list[t].at} \cup Range(at) \cup {value} \cup {heap[b].value : b \in Range(at) \cup {}}
      BY <2>2, <3>2, <3>5 DEF Holding
    <3>7. Holding(t, at)' = {list[t].at} \cup Range(at) \cup {a} \cup {heap'[b].value : b \in Range(at) \cup {a}}
      BY <2>2, <3>2, <3>5 DEF Holding
    <3> QED  BY <3>4, <3>6, <3>7
  <2>3. CASE t \notin Owner
    <3>1. doing[t] = Nothing
      BY <1>8, <2>3 DEF Orderly, InHands
    <3>2. InHand(t) = {} /\ InHand(t)' = {a}
      BY <1>6, <3>1 DEF InHand, Nothing
    <3> QED  BY <1>2, <2>3, <3>2 DEF Holding
  <2> QED  BY <2>2, <2>3
<1>15. Changes(t, at, {a}, {}, {})
  BY <1>2, <1>4, <1>6, CallsApart DEF Changes, HeapInv
<1>16. at = Rest(t)'  BY <1>13, OrderlyIsRestNext DEF IsTheRest
<1>17. InOrder' /\ NothingElseLost' /\ KeepsOthers(t)
  BY <1>7, <1>13, <1>14, <1>15, StepKeeps DEF HeapInv
<1> QED  BY <1>2, <1>6, <1>7, <1>16, <1>17 DEF Freed

LEMMA AddedStep ==
  ASSUME HeapInv, NEW t \in Thread, added(t)
  PROVE  /\ HeapTyped' /\ InOrder' /\ NothingElseLost' /\ KeepsOthers(t)
         /\ list[t] # NoList /\ list'[t] # NoList /\ ~ Freed(t) /\ ~ Freed(t)'
         /\ Rest(t)' = Append(Rest(t), doing[t].created)
         /\ heap'[doing[t].created].value = heap[doing[t].created].value
         /\ Filled(t, doing[t].created)
         /\ \A i \in 1 .. Len(Rest(t)) : heap'[Rest(t)[i]].value = heap[Rest(t)[i]].value
         /\ \A p : IsProp(p) => heap'[p] = heap[p]
<1>1. PICK a : a = doing[t].created  OBVIOUS
<1>2. PICK at : at = Rest(t)  OBVIOUS
<1> DEFINE l == [list[t] EXCEPT !.first = IF list[t].last = NULL THEN a ELSE @,
                                !.last = a, !.size = @ + 1]
           n == Len(at)
<1>3. /\ doing[t].op = "add_last" /\ Return(t) /\ lost' = lost /\ heap' = Linked(t, a)
      /\ Sets(t, l) /\ Does(t, Nothing)
  BY <1>1 DEF added
<1>4. /\ Orderly(t, at) /\ doing[t] \in Doings /\ list[t] \in {NoList} \cup ListRecords
      /\ Holding(t, at) \subseteq DOMAIN heap
  BY <1>2, SomeThread
<1>5. /\ list[t] # NoList /\ list[t] \in ListRecords /\ Joined(t, at) /\ Kept(t, at) /\ NodeApart(a, at)
      /\ Filled(t, a) /\ heap[a].prev = NULL /\ heap[a].next = NULL
      /\ (t \in Owner => PropApart(heap[a].value, at)) /\ ~ Freed(t) /\ IsList(list[t].at)
      /\ at \in Seq(Address) /\ n \in Nat
  BY <1>1, <1>3, <1>4 DEF Orderly, InHands, Freed
<1>6. a \in Address /\ a # NULL /\ a \in DOMAIN heap /\ DOMAIN heap \subseteq Address /\ NULL \notin DOMAIN heap
  BY <1>5, LinkedListAssumption DEF NodeApart, IsNode, HeapInv, HeapTyped
<1>7. PICK last : last = list[t].last  OBVIOUS
<1>8. IF n = 0 THEN last = NULL /\ list[t].first = NULL
      ELSE last = at[n] /\ last # NULL /\ last \in DOMAIN heap /\ last # a /\ list[t].first = at[1]
  BY <1>5, <1>6, <1>7 DEF Joined, Begin, Kept, NodeApart, IsNode
<1>9. l = [at |-> list[t].at, first |-> IF n = 0 THEN a ELSE list[t].first, last |-> a, size |-> n + 1]
      /\ l \in ListRecords
  <2>1. list[t].size = n  BY <1>5 DEF Joined, Count
  <2>2. PICK w \in Address, x \in Address \cup {NULL} :
          list[t] = [at |-> w, first |-> x, last |-> last, size |-> n]
    BY <1>5, <1>7, <2>1 DEF ListRecords
  <2>3. last = NULL <=> n = 0  BY <1>8
  <2>4. l = [at |-> w, first |-> IF n = 0 THEN a ELSE x, last |-> a, size |-> n + 1]
    <3>1. list[t].at = w /\ list[t].first = x /\ list[t].last = last /\ list[t].size = n
      BY <2>2
    <3>2. l.at = w /\ l.first = (IF n = 0 THEN a ELSE x) /\ l.last = a /\ l.size = n + 1
      BY <1>7, <2>2, <2>3, <3>1
    <3>3. l = [c \in {"at", "first", "last", "size"} |-> l[c]]  BY <2>2
    <3> HIDE DEF l
    <3> QED  BY <3>2, <3>3
  <2> QED  BY <1>5, <1>6, <2>2, <2>4 DEF ListRecords
<1>10. /\ DOMAIN heap' = DOMAIN heap
       /\ heap'[a] = [heap[a] EXCEPT !.prev = last]
       /\ n > 0 => heap'[last] = [heap[last] EXCEPT !.next = a]
       /\ \A b \in DOMAIN heap \ {a, last} : heap'[b] = heap[b]
  BY <1>3, <1>5, <1>6, <1>7, <1>8 DEF Linked
<1>11. /\ HeapTyped' /\ doing'[t] = Nothing /\ list'[t] = l
       /\ \A u \in Thread \ {t} : doing'[u] = doing[u] /\ list'[u] = list[u]
  BY <1>3, <1>6, <1>9, <1>10, TypedStep DEF HeapInv, Doings
<1>12. list'[t] # NoList
  BY <1>9, <1>11, ListRecordIsList
<1> DEFINE new == Append(at, a)
<1>13. new \in Seq(Address) /\ Len(new) = n + 1 /\ new[n + 1] = a /\ \A i \in 1 .. n : new[i] = at[i]
  BY <1>5, <1>6
<1> HIDE DEF l, new
<1>14. \A b \in DOMAIN heap :
         /\ DOMAIN heap'[b] = DOMAIN heap[b]
         /\ b # a => heap'[b] = heap[b] \/ (n > 0 /\ b = last)
  <2>1. ASSUME NEW b \in DOMAIN heap, b # a, b # last
        PROVE  DOMAIN heap'[b] = DOMAIN heap[b] /\ heap'[b] = heap[b]
    BY <1>10, <2>1
  <2>2. DOMAIN heap'[a] = DOMAIN heap[a]  BY <1>10
  <2>3. last \in DOMAIN heap => n > 0 /\ DOMAIN heap'[last] = DOMAIN heap[last]
    BY <1>5, <1>6, <1>8, <1>10
  <2> QED  BY <2>1, <2>2, <2>3
<1>15. /\ IsNode(a)' /\ heap'[a].value = heap[a].value /\ heap'[a].next = NULL /\ heap'[a].prev = last
       /\ heap'[a].size = heap[a].size
  <2>1. /\ heap'[a].value = heap[a].value /\ heap'[a].next = NULL /\ heap'[a].prev = last
        /\ heap'[a].size = heap[a].size /\ DOMAIN heap'[a] = DOMAIN heap[a]
    BY <1>5, <1>10 DEF NodeApart, IsNode
  <2>2. last \in Address \cup {NULL}  BY <1>5, <1>7 DEF ListRecords
  <2> QED  BY <1>5, <1>6, <1>10, <2>1, <2>2 DEF NodeApart, IsNode
<1>16. ASSUME n > 0
       PROVE  /\ IsNode(last)' /\ heap'[last].value = heap[last].value /\ heap'[last].next = a
              /\ heap'[last].prev = heap[last].prev /\ IsNode(last) /\ last = at[n]
  <2>1. IsNode(last) /\ last = at[n]  BY <1>5, <1>8, <1>16 DEF Kept
  <2> QED  BY <1>6, <1>10, <1>16, <2>1 DEF IsNode
<1>17. ASSUME NEW i \in 1 .. n
       PROVE  /\ IsNode(at[i])' /\ heap'[at[i]].value = heap[at[i]].value
              /\ heap'[at[i]].prev = heap[at[i]].prev
              /\ i < n => heap'[at[i]].next = heap[at[i]].next
  <2>1. IsNode(at[i]) /\ at[i] # a  BY <1>5 DEF Kept, NodeApart
  <2>2. CASE i = n  BY <1>8, <1>16, <2>2
  <2>3. CASE i < n
    <3>1. at[i] # last  BY <1>5, <1>8, <2>3 DEF Kept
    <3>2. heap'[at[i]] = heap[at[i]]  BY <1>10, <2>1, <3>1 DEF IsNode
    <3> QED  BY <1>10, <2>1, <3>2 DEF IsNode
  <2> QED  BY <2>2, <2>3
<1>18. ASSUME NEW p, IsProp(p)  PROVE heap'[p] = heap[p] /\ IsProp(p)'
  <2>1. p # a  BY <1>5, <1>18, Kinds DEF NodeApart
  <2>2. ~ (n > 0 /\ p = last)
    <3>1. ASSUME n > 0, p = last  PROVE FALSE  BY <1>16, <1>18, <3>1, Kinds
    <3> QED  BY <3>1
  <2>3. heap'[p] = heap[p]  BY <1>14, <1>18, <2>1, <2>2 DEF IsProp
  <2> QED  BY <1>10, <1>18, <2>3 DEF IsProp
<1>19. IsList(list[t].at)'
  <2>1. list[t].at # a  BY <1>5, Kinds DEF NodeApart
  <2>2. ~ (n > 0 /\ list[t].at = last)
    <3>1. ASSUME n > 0, list[t].at = last  PROVE FALSE  BY <1>5, <1>16, <3>1, Kinds
    <3> QED  BY <3>1
  <2>3. heap'[list[t].at] = heap[list[t].at]  BY <1>5, <1>14, <2>1, <2>2 DEF IsList
  <2>4. list'[t].at = list[t].at  BY <1>9, <1>11
  <2> QED  BY <1>5, <1>10, <2>3, <2>4 DEF IsList
<1>20. Joined(t, new)'
  <2>1. Begin(t)' = list'[t].first /\ Count(t)' = n + 1 /\ ~ Freed(t)'
    BY <1>9, <1>11 DEF Begin, Count, Freed, Nothing
  <2>2. new[1] = list'[t].first /\ list'[t].last = a
    BY <1>5, <1>8, <1>9, <1>11, <1>13
  <2>3. heap'[new[1]].prev = NULL
    <3>1. CASE n = 0  BY <1>8, <1>13, <1>15, <3>1
    <3>2. CASE n > 0  BY <1>5, <1>13, <1>17, <3>2 DEF Joined
    <3> QED  BY <1>5, <3>1, <3>2
  <2>4. ASSUME NEW i \in 1 .. n  PROVE heap'[new[i]].next = new[i + 1] /\ heap'[new[i + 1]].prev = new[i]
    <3>1. CASE i = n  BY <1>13, <1>15, <1>16, <3>1
    <3>2. CASE i < n
      <4>1. heap[at[i]].next = at[i + 1] /\ heap[at[i + 1]].prev = at[i]
        BY <1>5, <3>2 DEF Joined
      <4>2. i + 1 \in 1 .. n  BY <1>5, <3>2
      <4> QED  BY <1>13, <1>17, <3>2, <4>1, <4>2
    <3> QED  BY <3>1, <3>2
  <2>5. Len(new) - 1 = n /\ Len(new) > 0  BY <1>5, <1>13
  <2> QED  BY <1>13, <1>15, <2>1, <2>2, <2>3, <2>4, <2>5 DEF Joined
<1>21. \A i \in 1 .. n + 1 : i \in 1 .. n \/ i = n + 1  BY <1>5
<1>22. Kept(t, new)'
  <2>1. Filled(t, a)'  BY <1>5, <1>15, <1>18 DEF Filled
  <2>2. \A i \in 1 .. n : Filled(t, at[i])'  BY <1>5, <1>17, <1>18 DEF Filled, Kept
  <2>3. \A i \in 1 .. n + 1 : IsNode(new[i])' /\ Filled(t, new[i])'
    BY <1>13, <1>15, <1>17, <1>21, <2>1, <2>2 DEF Filled, IsNode, IsProp
  <2>4. \A i, j \in 1 .. n + 1 : new[i] = new[j] => i = j
    BY <1>5, <1>13, <1>21 DEF Kept, NodeApart
  <2>5. t \in Owner => \A i, j \in 1 .. n + 1 : heap'[new[i]].value = heap'[new[j]].value => i = j
    BY <1>5, <1>13, <1>15, <1>17, <1>21 DEF Kept, PropApart
  <2> QED  BY <1>13, <2>3, <2>4, <2>5 DEF Kept
<1>23. Orderly(t, new)'
  BY <1>3, <1>9, <1>11, <1>12, <1>13, <1>19, <1>20, <1>22, CallsApart
  DEF Orderly, InHands, Nothing, Freed, IsList, HeapInv
<1>24. Holding(t, new)' = Holding(t, at)
  <2>1. Range(new) = Range(at) \cup {a}
    BY <1>5, <1>13, <1>21 DEF Range
  <2>2. InHand(t) = {a} /\ Adds(t) = {a} /\ InHand(t)' = {} /\ Adds(t)' = {}
    BY <1>1, <1>3, <1>11 DEF InHand, Adds, Nothing
  <2>3. \A b \in Range(at) \cup {a} : heap'[b].value = heap[b].value
    BY <1>5, <1>15, <1>17 DEF Range
  <2>4. list'[t].at = list[t].at  BY <1>9, <1>11
  <2>5. {heap'[b].value : b \in Range(new) \cup {}} = {heap[b].value : b \in Range(at) \cup {a}}
    BY <2>1, <2>3
  <2> QED  BY <1>5, <1>12, <2>1, <2>2, <2>4, <2>5 DEF Holding
<1>25. Changes(t, at, {}, {}, {})
  <2>1. a \in Holding(t, at)  BY <1>1, <1>3 DEF Holding, InHand
  <2>2. n > 0 => last \in Holding(t, at)
    BY <1>5, <1>8 DEF Holding, Range
  <2>3. \A b \in DOMAIN heap \ Holding(t, at) : heap'[b] = heap[b]
    BY <1>14, <2>1, <2>2
  <2> QED  BY <1>3, <1>10, <1>11, <2>3, CallsApart DEF Changes, HeapInv
<1>26. new = Rest(t)'  BY <1>23, OrderlyIsRestNext DEF IsTheRest
<1>27. InOrder' /\ NothingElseLost' /\ KeepsOthers(t)
  BY <1>2, <1>23, <1>24, <1>25, StepKeeps DEF HeapInv
<1>28. ~ Freed(t)'  BY <1>11 DEF Freed, Nothing
<1> QED  BY <1>1, <1>2, <1>5, <1>11, <1>12, <1>15, <1>17, <1>18, <1>26, <1>27, <1>28 DEF new

-----------------------------------------------------------------------------
(* find_element finds the first, as the callers of remove_element mean it. *)
Found(t, at, v, k) ==
  ValueAt(t, at[k]) = v /\ \A j \in 1 .. k - 1 : ValueAt(t, at[j]) # v

LEMMA SearchFinds ==
  ASSUME HeapInv, NEW t \in Thread, Ready(t), NEW v, NEW at, at = Rest(t)
  PROVE  \/ Search(t, v) = NULL /\ \A i \in 1 .. Len(at) : ValueAt(t, at[i]) # v
         \/ /\ Search(t, v) # NULL
            /\ \E k \in 1 .. Len(at) : Search(t, v) = at[k] /\ Found(t, at, v, k)
<1>1. Orderly(t, at) /\ list[t] # NoList /\ ~ Freed(t)
  BY SomeThread DEF Ready, Freed, Nothing
<1>2. Nodes(t) = at  BY <1>1 DEF Nodes, Rest, Begin, Count
<1>3. at \in Seq(Address) /\ DOMAIN at = 1 .. Len(at) /\ Len(at) \in Nat  BY <1>1 DEF Orderly
<1> DEFINE Accepted == {i \in DOMAIN at : ValueAt(t, at[i]) = v}
<1>4. Search(t, v) = IF Accepted = {} THEN NULL ELSE at[Min(Accepted)]
  BY <1>2 DEF Search
<1>5. CASE Accepted = {}  BY <1>3, <1>4, <1>5
<1>6. CASE Accepted # {}
  <2>1. Accepted \in SUBSET Nat  BY <1>3
  <2> HIDE DEF Accepted
  <2>2. PICK k : k = Min(Accepted)  OBVIOUS
  <2>3. k \in Accepted /\ \A j \in Accepted : k <= j  BY <1>6, <2>1, <2>2, MinIsLeast, Zenon
  <2> USE DEF Accepted
  <2>4. k \in 1 .. Len(at) /\ ValueAt(t, at[k]) = v  BY <1>3, <2>3
  <2>5. ASSUME NEW j \in 1 .. k - 1  PROVE ValueAt(t, at[j]) # v
    <3>1. j \in DOMAIN at /\ ~ (k <= j)  BY <1>3, <2>4
    <3> QED  BY <2>3, <3>1
  <2>6. at[k] \in Address  BY <1>3, <2>4
  <2>7. Search(t, v) = at[k]  BY <1>4, <1>6, <2>2
  <2> QED  BY <2>4, <2>5, <2>6, <2>7, LinkedListAssumption DEF Found
<1> QED  BY <1>5, <1>6

(* A sequence without its element k.                                       *)
Skip(at, k) == [i \in 1 .. Len(at) - 1 |-> IF i < k THEN at[i] ELSE at[i + 1]]

LEMMA SkipOne ==
  ASSUME NEW S, NEW at \in Seq(S), NEW k \in 1 .. Len(at)
  PROVE  /\ Skip(at, k) \in Seq(S) /\ Len(Skip(at, k)) = Len(at) - 1
         /\ \A i \in 1 .. Len(at) - 1 : Skip(at, k)[i] = IF i < k THEN at[i] ELSE at[i + 1]
<1>1. Len(at) \in Nat /\ Len(at) - 1 \in Nat  OBVIOUS
<1>2. \A i \in 1 .. Len(at) - 1 : (IF i < k THEN at[i] ELSE at[i + 1]) \in S  OBVIOUS
<1>3. Skip(at, k) \in [1 .. Len(at) - 1 -> S]  BY <1>2 DEF Skip
<1>4. Skip(at, k) \in Seq(S) /\ Len(Skip(at, k)) = Len(at) - 1  BY <1>1, <1>3
<1> QED  BY <1>4 DEF Skip

(* What Around writes, by the place k of the node in the list.             *)
LEMMA AroundWrites ==
  ASSUME HeapInv, NEW t \in Thread, ~ Freed(t), list[t] # NoList,
         NEW at, at = Rest(t), NEW k \in 1 .. Len(at), heap' = Around(at[k])
  PROVE  /\ DOMAIN heap' = DOMAIN heap
         /\ heap[at[k]].prev = IF k = 1 THEN NULL ELSE at[k - 1]
         /\ heap[at[k]].next = IF k = Len(at) THEN NULL ELSE at[k + 1]
         /\ \A b \in DOMAIN heap :
              (\A i \in 1 .. Len(at) : i # k => b # at[i]) => heap'[b] = heap[b]
         /\ \A i \in 1 .. Len(at) :
              /\ IsNode(at[i])' /\ heap'[at[i]].value = heap[at[i]].value
              /\ heap'[at[i]].next = IF i = k - 1 THEN heap[at[k]].next ELSE heap[at[i]].next
              /\ heap'[at[i]].prev = IF i = k + 1 THEN heap[at[k]].prev ELSE heap[at[i]].prev
<1> DEFINE n == Len(at)
<1>1. Orderly(t, at) /\ at \in Seq(Address) /\ n \in Nat /\ Joined(t, at) /\ Kept(t, at)
  BY SomeThread DEF Orderly
<1>2. PICK prev, next : prev = heap[at[k]].prev /\ next = heap[at[k]].next  OBVIOUS
<1>3. prev = IF k = 1 THEN NULL ELSE at[k - 1]
  <2>1. CASE k = 1  BY <1>1, <1>2, <2>1 DEF Joined
  <2>2. CASE k # 1
    <3>1. k - 1 \in 1 .. n - 1 /\ (k - 1) + 1 = k  BY <1>1, <2>2
    <3>2. heap[at[(k - 1) + 1]].prev = at[k - 1]  BY <1>1, <3>1 DEF Joined
    <3> QED  BY <1>2, <2>2, <3>1, <3>2
  <2> QED  BY <2>1, <2>2
<1>4. next = IF k = n THEN NULL ELSE at[k + 1]
  BY <1>1, <1>2 DEF Joined
<1>5. heap' = [b \in DOMAIN heap |->
                CASE b = prev -> [heap[b] EXCEPT !.next = next]
                  [] b = next -> [heap[b] EXCEPT !.prev = prev]
                  [] OTHER -> heap[b]]
  BY <1>2 DEF Around
<1>6. \A i \in 1 .. n : IsNode(at[i]) /\ at[i] \in DOMAIN heap /\ at[i] \in Address /\ at[i] # NULL
  BY <1>1, LinkedListAssumption DEF Kept, IsNode
<1>7. NULL \notin DOMAIN heap  BY LinkedListAssumption DEF HeapInv, HeapTyped
<1>8. \A i, j \in 1 .. n : at[i] = at[j] => i = j  BY <1>1 DEF Kept
<1>9. prev \in Address \cup {NULL} /\ next \in Address \cup {NULL}
  BY <1>2, <1>6 DEF IsNode
<1>10. DOMAIN heap' = DOMAIN heap  BY <1>5
<1>11. ASSUME NEW b \in DOMAIN heap, \A i \in 1 .. n : i # k => b # at[i]  PROVE heap'[b] = heap[b]
  <2>1. b # prev
    <3>1. k # 1 => k - 1 \in 1 .. n /\ k - 1 # k  BY <1>1
    <3> QED  BY <1>3, <1>7, <1>11, <3>1
  <2>2. b # next
    <3>1. k # n => k + 1 \in 1 .. n /\ k + 1 # k  BY <1>1
    <3> QED  BY <1>4, <1>7, <1>11, <3>1
  <2> QED  BY <1>5, <2>1, <2>2
<1>12. ASSUME NEW i \in 1 .. n
       PROVE  /\ IsNode(at[i])' /\ heap'[at[i]].value = heap[at[i]].value
              /\ heap'[at[i]].next = IF i = k - 1 THEN next ELSE heap[at[i]].next
              /\ heap'[at[i]].prev = IF i = k + 1 THEN prev ELSE heap[at[i]].prev
  <2>1. at[i] = prev <=> i = k - 1
    <3>1. k # 1 => k - 1 \in 1 .. n  BY <1>1
    <3> QED  BY <1>1, <1>3, <1>6, <1>8, <3>1
  <2>2. at[i] = next <=> i = k + 1
    <3>1. k # n => k + 1 \in 1 .. n  BY <1>1
    <3> QED  BY <1>1, <1>4, <1>6, <1>8, <3>1
  <2>3. CASE i = k - 1
    <3>0. at[i] = prev /\ at[i] # next /\ at[i] \in DOMAIN heap /\ i # k + 1
      BY <1>6, <2>1, <2>2, <2>3
    <3>1. heap'[at[i]] = [heap[at[i]] EXCEPT !.next = next]  BY <1>5, <3>0
    <3>2. DOMAIN heap[at[i]] = {"size", "prev", "value", "next"}  BY <1>6 DEF IsNode
    <3>3. /\ DOMAIN heap'[at[i]] = DOMAIN heap[at[i]] /\ heap'[at[i]].next = next
          /\ heap'[at[i]].size = heap[at[i]].size /\ heap'[at[i]].value = heap[at[i]].value
          /\ heap'[at[i]].prev = heap[at[i]].prev
      BY <3>1, <3>2
    <3>4. IsNode(at[i])'  BY <1>6, <1>9, <1>10, <3>3 DEF IsNode
    <3> QED  BY <2>3, <3>0, <3>3, <3>4
  <2>4. CASE i = k + 1
    <3>0. at[i] = next /\ at[i] # prev /\ at[i] \in DOMAIN heap /\ i # k - 1
      BY <1>6, <2>1, <2>2, <2>4
    <3>1. heap'[at[i]] = [heap[at[i]] EXCEPT !.prev = prev]  BY <1>5, <3>0
    <3>2. DOMAIN heap[at[i]] = {"size", "prev", "value", "next"}  BY <1>6 DEF IsNode
    <3>3. /\ DOMAIN heap'[at[i]] = DOMAIN heap[at[i]] /\ heap'[at[i]].prev = prev
          /\ heap'[at[i]].size = heap[at[i]].size /\ heap'[at[i]].value = heap[at[i]].value
          /\ heap'[at[i]].next = heap[at[i]].next
      BY <3>1, <3>2
    <3>4. IsNode(at[i])'  BY <1>6, <1>9, <1>10, <3>3 DEF IsNode
    <3> QED  BY <2>4, <3>0, <3>3, <3>4
  <2>5. CASE i # k - 1 /\ i # k + 1
    <3>1. heap'[at[i]] = heap[at[i]]  BY <1>5, <1>6, <2>1, <2>2, <2>5
    <3> QED  BY <1>6, <1>10, <2>5, <3>1 DEF IsNode
  <2> QED  BY <2>3, <2>4, <2>5
<1> QED  BY <1>2, <1>3, <1>4, <1>10, <1>11, <1>12

LEMMA RemoveStep ==
  ASSUME HeapInv, NEW t \in Thread, NEW v, remove_element(t, v), Search(t, v) # NULL
  PROVE  /\ HeapTyped' /\ InOrder' /\ NothingElseLost' /\ KeepsOthers(t)
         /\ list[t] # NoList /\ list'[t] # NoList /\ ~ Freed(t) /\ ~ Freed(t)'
         /\ \E k \in 1 .. Len(Rest(t)) :
              Rest(t)' = Skip(Rest(t), k) /\ Found(t, Rest(t), v, k)
         /\ \A i \in 1 .. Len(Rest(t)) : heap'[Rest(t)[i]].value = heap[Rest(t)[i]].value
         /\ \A p : IsProp(p) => heap'[p] = heap[p]
<1>1. PICK at : at = Rest(t)  OBVIOUS
<1> DEFINE n == Len(at)
<1>2. Ready(t) /\ doing[t] = Nothing /\ list[t] # NoList /\ ~ Freed(t)
  BY DEF remove_element, Ready, Freed, Nothing
<1>3. PICK k \in 1 .. n : Search(t, v) = at[k] /\ Found(t, at, v, k)
  BY <1>1, <1>2, SearchFinds
<1>4. PICK a : a = at[k]  OBVIOUS
<1>5. PICK l : l = Unlinked(list[t], a)  OBVIOUS
<1>6. /\ heap' = Around(a) /\ Sets(t, l) /\ Does(t, [op |-> "remove_element", current |-> a])
      /\ lost' = (IF t \in Owner THEN lost \cup {heap[a].value} ELSE lost)
      /\ my_free(t, NODE)
  BY <1>3, <1>4, <1>5 DEF remove_element
<1>7. /\ Orderly(t, at) /\ list[t] \in ListRecords /\ Holding(t, at) \subseteq DOMAIN heap
      /\ at \in Seq(Address) /\ n \in Nat /\ Joined(t, at) /\ Kept(t, at) /\ IsList(list[t].at)
  BY <1>1, <1>2, SomeThread DEF Orderly
<1>8. PICK prev, next : prev = heap[a].prev /\ next = heap[a].next  OBVIOUS
<1>9. /\ DOMAIN heap' = DOMAIN heap
      /\ prev = IF k = 1 THEN NULL ELSE at[k - 1]
      /\ next = IF k = n THEN NULL ELSE at[k + 1]
      /\ \A b \in DOMAIN heap : (\A i \in 1 .. n : i # k => b # at[i]) => heap'[b] = heap[b]
      /\ \A i \in 1 .. n :
           /\ IsNode(at[i])' /\ heap'[at[i]].value = heap[at[i]].value
           /\ heap'[at[i]].next = IF i = k - 1 THEN next ELSE heap[at[i]].next
           /\ heap'[at[i]].prev = IF i = k + 1 THEN prev ELSE heap[at[i]].prev
  BY <1>1, <1>2, <1>4, <1>6, <1>8, AroundWrites
<1>10. \A i \in 1 .. n : IsNode(at[i]) /\ Filled(t, at[i]) /\ at[i] \in Address
  BY <1>7 DEF Kept
<1>11. a \in Address /\ a \in DOMAIN heap  BY <1>4, <1>10 DEF IsNode
<1>12. \A p : IsProp(p) => heap'[p] = heap[p]
  <2>1. \A p : IsProp(p) => p \in DOMAIN heap /\ \A i \in 1 .. n : p # at[i]
    BY <1>10, Kinds DEF IsProp
  <2> QED  BY <1>9, <2>1
<1>13. PICK new : new = Skip(at, k)  OBVIOUS
<1>14. new \in Seq(Address) /\ Len(new) = n - 1
       /\ \A i \in 1 .. n - 1 : new[i] = IF i < k THEN at[i] ELSE at[i + 1]
  BY <1>7, <1>13, SkipOne
<1>15. /\ l \in ListRecords /\ l.at = list[t].at /\ l.size = n - 1
       /\ l.first = IF k = 1 THEN next ELSE at[1]
       /\ l.last = IF k = n THEN prev ELSE at[n]
  <2>1. list[t].size = n /\ list[t].first = at[1] /\ list[t].last = at[n]
    BY <1>2, <1>7 DEF Joined, Count, Begin
  <2>2. (at[1] = a <=> k = 1) /\ (at[n] = a <=> k = n)
    BY <1>4, <1>7 DEF Kept
  <2>3. /\ l.at = list[t].at /\ l.size = n - 1
        /\ l.first = IF k = 1 THEN next ELSE at[1]
        /\ l.last = IF k = n THEN prev ELSE at[n]
    BY <1>5, <1>7, <1>8, <2>1, <2>2 DEF Unlinked, ListRecords
  <2>4. l = [c \in {"at", "first", "last", "size"} |-> l[c]]
    BY <1>5, <1>7 DEF Unlinked, ListRecords
  <2>5. prev \in Address \cup {NULL} /\ next \in Address \cup {NULL}
    BY <1>4, <1>8, <1>10 DEF IsNode
  <2>6. l.at \in Address /\ l.first \in Address \cup {NULL} /\ l.last \in Address \cup {NULL}
        /\ l.size \in Nat
    BY <1>7, <1>10, <2>3, <2>5 DEF ListRecords
  <2>7. l \in ListRecords  BY <2>4, <2>6 DEF ListRecords
  <2> QED  BY <2>3, <2>7
<1> DEFINE d == [op |-> "remove_element", current |-> a]
<1>16. /\ HeapTyped' /\ doing'[t] = d /\ list'[t] = l
       /\ \A u \in Thread \ {t} : doing'[u] = doing[u] /\ list'[u] = list[u]
  <2>1. d \in Doings  BY <1>11 DEF Doings
  <2> QED  BY <1>6, <1>9, <1>15, <2>1, TypedStep DEF HeapInv, HeapTyped
<1>17. list'[t] # NoList  BY <1>15, <1>16, ListRecordIsList
<1>18. \A i \in 1 .. n - 1 : \E j \in 1 .. n : new[i] = at[j] /\ j # k /\ j = IF i < k THEN i ELSE i + 1
  BY <1>7, <1>14
<1>19. Kept(t, new)' /\ NodeApart(a, new)'
  <2>1. \A i \in 1 .. n : Filled(t, at[i])'
    <3>1. \A p : IsProp(p) => IsProp(p)'  BY <1>9, <1>12 DEF IsProp
    <3> QED  BY <1>9, <1>10, <3>1 DEF Filled
  <2>2. \A i \in 1 .. n - 1 : IsNode(new[i])' /\ Filled(t, new[i])'
    BY <1>9, <1>18, <2>1 DEF IsNode, Filled, IsProp
  <2>3. \A i, j \in 1 .. n - 1 : new[i] = new[j] => i = j
    BY <1>7, <1>18 DEF Kept
  <2>4. t \in Owner => \A i, j \in 1 .. n - 1 : heap'[new[i]].value = heap'[new[j]].value => i = j
    <3> SUFFICES ASSUME t \in Owner, NEW i \in 1 .. n - 1, NEW j \in 1 .. n - 1,
                        heap'[new[i]].value = heap'[new[j]].value
                 PROVE  i = j
      OBVIOUS
    <3>1. PICK g \in 1 .. n : new[i] = at[g] /\ g = IF i < k THEN i ELSE i + 1  BY <1>18
    <3>2. PICK h \in 1 .. n : new[j] = at[h] /\ h = IF j < k THEN j ELSE j + 1  BY <1>18
    <3>3. heap[at[g]].value = heap[at[h]].value  BY <1>9, <3>1, <3>2
    <3>4. g = h  BY <1>7, <3>3 DEF Kept
    <3> QED  BY <3>1, <3>2, <3>4
  <2>5. \A i \in 1 .. n - 1 : new[i] # a
    BY <1>4, <1>7, <1>18 DEF Kept
  <2> QED  BY <1>4, <1>9, <1>14, <2>2, <2>3, <2>4, <2>5 DEF Kept, NodeApart, IsNode
<1>20. Joined(t, new)'
  <2>1. Begin(t)' = l.first /\ Count(t)' = n - 1 /\ ~ Freed(t)'
    BY <1>15, <1>16 DEF Begin, Count, Freed
  <2>2. \A i \in 1 .. n - 1 : heap[at[i]].next = at[i + 1] /\ heap[at[i + 1]].prev = at[i]
    BY <1>7 DEF Joined
  <2>3. heap[at[1]].prev = NULL /\ heap[at[n]].next = NULL  BY <1>2, <1>7 DEF Joined
  <2>4. CASE n = 1
    <3>1. l.first = NULL /\ l.last = NULL /\ Len(new) = 0  BY <1>9, <1>14, <1>15, <2>4
    <3> QED  BY <1>16, <2>1, <2>4, <3>1 DEF Joined
  <2>5. CASE n > 1
    <3>1. new[1] = l.first
      BY <1>7, <1>9, <1>14, <1>15, <2>5
    <3>2. new[n - 1] = l.last
      <4>1. n - 1 \in 1 .. n - 1 /\ (n - 1) + 1 = n /\ (n - 1 < k <=> k = n)  BY <1>7, <2>5
      <4>2. new[n - 1] = IF k = n THEN at[n - 1] ELSE at[n]  BY <1>14, <4>1
      <4> QED  BY <1>9, <1>15, <2>5, <4>2
    <3>3. heap'[new[n - 1]].next = NULL
      <4>1. CASE k = n
        <5>1. new[n - 1] = at[n - 1] /\ n - 1 \in 1 .. n /\ next = NULL
          BY <1>7, <1>9, <1>14, <2>5, <4>1
        <5> QED  BY <1>9, <4>1, <5>1
      <4>2. CASE k # n
        <5>1. new[n - 1] = at[n] /\ n \in 1 .. n /\ n # k - 1
          BY <1>7, <1>9, <1>15, <3>2, <4>2
        <5> QED  BY <1>9, <2>3, <5>1
      <4> QED  BY <4>1, <4>2
    <3>4. heap'[new[1]].prev = NULL
      <4>1. CASE k = 1
        <5>1. new[1] = at[2] /\ 2 \in 1 .. n /\ prev = NULL  BY <1>7, <1>9, <1>14, <2>5, <4>1
        <5> QED  BY <1>9, <4>1, <5>1
      <4>2. CASE k # 1
        <5>1. new[1] = at[1] /\ 1 \in 1 .. n /\ 1 # k + 1  BY <1>7, <1>14, <2>5, <4>2
        <5> QED  BY <1>9, <2>3, <5>1
      <4> QED  BY <4>1, <4>2
    <3>5. ASSUME NEW i \in 1 .. n - 2
          PROVE  heap'[new[i]].next = new[i + 1] /\ heap'[new[i + 1]].prev = new[i]
      <4>1. i \in 1 .. n - 1 /\ i + 1 \in 1 .. n - 1 /\ i \in 1 .. n /\ i + 1 \in 1 .. n /\ i + 2 \in 1 .. n
            /\ (i + 1) + 1 = i + 2
        BY <1>7
      <4>2. heap[at[i]].next = at[i + 1] /\ heap[at[i + 1]].prev = at[i]
            /\ heap[at[i + 1]].next = at[i + 2] /\ heap[at[i + 2]].prev = at[i + 1]
        BY <2>2, <4>1
      <4>3. CASE i + 1 < k
        <5>1. new[i] = at[i] /\ new[i + 1] = at[i + 1] /\ i # k - 1 /\ i + 1 # k + 1
          BY <1>7, <1>14, <4>1, <4>3
        <5> QED  BY <1>9, <4>1, <4>2, <5>1
      <4>4. CASE i + 1 = k
        <5>1. new[i] = at[i] /\ new[i + 1] = at[i + 2] /\ i = k - 1 /\ i + 2 = k + 1 /\ k # n /\ k # 1
          BY <1>7, <1>14, <4>1, <4>4
        <5>2. next = at[i + 2] /\ prev = at[i]
          <6>1. next = at[k + 1] /\ prev = at[k - 1]  BY <1>9, <5>1
          <6> QED  BY <5>1, <6>1
        <5> QED  BY <1>9, <4>1, <5>1, <5>2
      <4>5. CASE i >= k
        <5>1. new[i] = at[i + 1] /\ new[i + 1] = at[i + 2] /\ i + 1 # k - 1 /\ i + 2 # k + 1
          BY <1>7, <1>14, <4>1, <4>5
        <5> QED  BY <1>9, <4>1, <4>2, <5>1
      <4> QED  BY <1>7, <4>3, <4>4, <4>5
    <3>6. Len(new) = n - 1 /\ Len(new) - 1 = n - 2 /\ Len(new) > 0 /\ Len(new) # 0
      BY <1>7, <1>14, <2>5
    <3>7. new[1] = Begin(t)' /\ new[Len(new)] = list'[t].last /\ heap'[new[Len(new)]].next = NULL
          /\ Len(new) = Count(t)'
      BY <1>16, <2>1, <3>1, <3>2, <3>3, <3>6
    <3>8. \A i \in 1 .. Len(new) - 1 :
            heap'[new[i]].next = new[i + 1] /\ heap'[new[i + 1]].prev = new[i]
      BY <3>5, <3>6
    <3> DEFINE m == Len(new)
    <3>9. /\ m = Count(t)'
          /\ m = 0 /\ ~ Freed(t)' => list'[t].first = NULL /\ list'[t].last = NULL
          /\ m > 0 => new[1] = Begin(t)' /\ new[m] = list'[t].last /\ heap'[new[m]].next = NULL
          /\ m > 0 /\ ~ Freed(t)' => heap'[new[1]].prev = NULL
          /\ \A i \in 1 .. m - 1 : heap'[new[i]].next = new[i + 1] /\ heap'[new[i + 1]].prev = new[i]
      BY <2>1, <3>4, <3>6, <3>7, <3>8
    <3> QED  BY <3>9 DEF Joined
  <2>6. n = 1 \/ n > 1
    <3>1. n \in Nat  BY <1>7
    <3>2. k \in 1 .. n  BY <1>3
    <3> HIDE DEF n
    <3> QED  BY <3>1, <3>2
  <2> QED  BY <2>4, <2>5, <2>6
<1>21. IsList(list[t].at)'
  <2>1. \A i \in 1 .. n : list[t].at # at[i]  BY <1>7, <1>10, Kinds
  <2>2. heap'[list[t].at] = heap[list[t].at]  BY <1>7, <1>9, <2>1 DEF IsList
  <2>3. list'[t].at = list[t].at  BY <1>15, <1>16
  <2> QED  BY <1>7, <1>9, <2>2, <2>3 DEF IsList
<1>22. Orderly(t, new)'
  <2>1. InHands(t, new)'  BY <1>16, <1>19 DEF InHands, NodeApart, IsNode
  <2> QED  BY <1>14, <1>16, <1>17, <1>19, <1>20, <1>21, <2>1 DEF Orderly, Freed, IsList
<1> DEFINE Gone == IF t \in Owner THEN {heap[a].value} ELSE {}
<1>23. Range(at) = Range(new) \cup {a} /\ a \notin Range(new)
  <2>1. \A i \in 1 .. n : i # k => \E j \in 1 .. n - 1 : new[j] = at[i]
    <3>1. ASSUME NEW i \in 1 .. n, i < k  PROVE i \in 1 .. n - 1 /\ new[i] = at[i]
      BY <1>7, <1>14, <3>1
    <3>2. ASSUME NEW i \in 1 .. n, i > k  PROVE i - 1 \in 1 .. n - 1 /\ new[i - 1] = at[i]
      BY <1>7, <1>14, <3>2
    <3> QED  BY <1>7, <3>1, <3>2
  <2>2. DOMAIN at = 1 .. n /\ DOMAIN new = 1 .. n - 1  BY <1>7, <1>14
  <2>3. \A i \in 1 .. n - 1 : new[i] # a  BY <1>4, <1>7, <1>18 DEF Kept
  <2>4. a \notin Range(new)  BY <2>2, <2>3 DEF Range
  <2>5. Range(new) \cup {a} \subseteq Range(at)  BY <1>4, <1>18, <2>2 DEF Range
  <2>6. Range(at) \subseteq Range(new) \cup {a}
    <3>1. ASSUME NEW i \in 1 .. n  PROVE at[i] \in Range(new) \cup {a}
      BY <1>4, <2>1, <2>2 DEF Range
    <3> QED  BY <2>2, <3>1 DEF Range
  <2> QED  BY <2>4, <2>5, <2>6
<1>24. Holding(t, new)' = Holding(t, at) \ Gone
  <2>1. InHand(t) = {} /\ Adds(t) = {} /\ InHand(t)' = {a} /\ Adds(t)' = {}
    BY <1>2, <1>16 DEF InHand, Adds, Nothing
  <2>2. list'[t].at = list[t].at  BY <1>15, <1>16
  <2>3. CASE t \notin Owner
    BY <1>2, <1>17, <1>23, <2>1, <2>2, <2>3 DEF Holding
  <2>4. CASE t \in Owner
    <3>1. PICK p : p = heap[a].value  OBVIOUS
    <3>2. IsProp(p)  BY <1>4, <1>10, <2>4, <3>1 DEF Filled
    <3>3. p # list[t].at /\ p \notin Range(at)
      BY <1>7, <1>10, <3>2, Kinds DEF Range
    <3>4. \A b \in Range(new) : heap'[b].value = heap[b].value /\ heap[b].value # p
      <4>1. ASSUME NEW i \in 1 .. n - 1
            PROVE  heap'[new[i]].value = heap[new[i]].value /\ heap[new[i]].value # p
        <5>1. PICK j \in 1 .. n : new[i] = at[j] /\ j # k  BY <1>18
        <5>2. heap[at[j]].value # heap[at[k]].value  BY <1>7, <2>4, <5>1 DEF Kept
        <5> QED  BY <1>4, <1>9, <3>1, <5>1, <5>2
      <4>2. DOMAIN new = 1 .. n - 1  BY <1>14
      <4> QED  BY <4>1, <4>2 DEF Range
    <3>5. {heap'[b].value : b \in Range(new) \cup {}} = {heap[b].value : b \in Range(at) \cup {}} \ {p}
      BY <1>23, <3>1, <3>4
    <3>6. Holding(t, at) = {list[t].at} \cup Range(at) \cup {heap[b].value : b \in Range(at) \cup {}}
      BY <1>2, <2>1, <2>4 DEF Holding
    <3>7. Holding(t, new)' = {list[t].at} \cup Range(new) \cup {a} \cup {heap'[b].value : b \in Range(new) \cup {}}
      BY <1>17, <2>1, <2>2, <2>4 DEF Holding
    <3>8. Gone = {p}  BY <2>4, <3>1
    <3> HIDE DEF Gone
    <3> QED  BY <1>23, <3>3, <3>5, <3>6, <3>7, <3>8
  <2> QED  BY <2>3, <2>4
<1>25. Changes(t, at, {}, {}, Gone)
  <2>1. Gone \subseteq Holding(t, at)
    BY <1>23 DEF Holding
  <2>2. \A b \in DOMAIN heap \ Holding(t, at) : heap'[b] = heap[b]
    <3>1. \A i \in 1 .. n : at[i] \in Holding(t, at)  BY <1>7 DEF Holding, Range
    <3> QED  BY <1>9, <3>1
  <2>3. lost' = lost \cup Gone  BY <1>6
  <2> HIDE DEF Gone
  <2> QED  BY <1>6, <1>9, <1>16, <2>1, <2>2, <2>3, CallsApart DEF Changes, HeapInv
<1>26. new = Rest(t)'  BY <1>22, OrderlyIsRestNext DEF IsTheRest
<1>27. InOrder' /\ NothingElseLost' /\ KeepsOthers(t)
  <2> HIDE DEF Gone
  <2> QED  BY <1>1, <1>22, <1>24, <1>25, StepKeeps DEF HeapInv
<1>28. ~ Freed(t)'  BY <1>16 DEF Freed
<1> QED  BY <1>1, <1>2, <1>3, <1>9, <1>12, <1>13, <1>16, <1>17, <1>26, <1>27, <1>28

-----------------------------------------------------------------------------
(* A block given back leaves the rest of the heap as it is.                *)
LEMMA WithoutOne ==
  ASSUME HeapTyped, NEW a, heap' = Without({a})
  PROVE  /\ DOMAIN heap' = DOMAIN heap \ {a} /\ DOMAIN heap' \subseteq Address
         /\ \A b \in DOMAIN heap \ {a} : heap'[b] = heap[b]
         /\ \A b : b # a => (IsNode(b) => IsNode(b)') /\ (IsProp(b) => IsProp(b)')
                           /\ (IsList(b) => IsList(b)')
<1>1. DOMAIN heap' = DOMAIN heap \ {a} /\ \A b \in DOMAIN heap \ {a} : heap'[b] = heap[b]
  BY DEF Without
<1>2. DOMAIN heap' \subseteq Address  BY <1>1 DEF HeapTyped
<1> QED  BY <1>1, <1>2 DEF IsNode, IsProp, IsList

(* What is apart from the block given back stays.                          *)
Spares(t, at, a) ==
  /\ \A i \in 1 .. Len(at) : at[i] # a
  /\ t \in Owner => \A i \in 1 .. Len(at) : heap[at[i]].value # a

LEMMA KeptWithout ==
  ASSUME HeapTyped, NEW t \in Thread, NEW at, at \in Seq(Address), Kept(t, at), NEW a, Spares(t, at, a),
         heap' = Without({a})
  PROVE  /\ Kept(t, at)' /\ \A i \in 1 .. Len(at) : heap'[at[i]] = heap[at[i]]
         /\ \A b \in Range(at) : heap'[b] = heap[b] /\ b # a
<1>1. \A i \in 1 .. Len(at) : IsNode(at[i]) /\ Filled(t, at[i]) /\ at[i] # a  BY DEF Kept, Spares
<1>2. \A i \in 1 .. Len(at) : heap'[at[i]] = heap[at[i]]  BY <1>1, WithoutOne DEF IsNode
<1>3. \A i \in 1 .. Len(at) : IsNode(at[i])'  BY <1>1, <1>2, WithoutOne DEF IsNode
<1>4. ASSUME NEW i \in 1 .. Len(at)  PROVE Filled(t, at[i])'
  <2>1. CASE t \in Owner
    <3>1. heap[at[i]].value # a /\ IsProp(heap[at[i]].value)  BY <1>1, <2>1 DEF Spares, Filled
    <3>2. PICK p : p = heap[at[i]].value  OBVIOUS
    <3>3. IsProp(p)'  BY <3>1, <3>2, WithoutOne
    <3> QED  BY <1>2, <2>1, <3>2, <3>3 DEF Filled, IsProp
  <2>2. CASE t \notin Owner  BY <1>1, <1>2, <2>2 DEF Filled
  <2> QED  BY <2>1, <2>2
<1>5. Kept(t, at)'
  BY <1>2, <1>3, <1>4 DEF Kept
<1>6. DOMAIN at = 1 .. Len(at)  OBVIOUS
<1> QED  BY <1>1, <1>2, <1>5, <1>6 DEF Range

LEMMA JoinedWithout ==
  ASSUME NEW t \in Thread, NEW at, at \in Seq(Address), Joined(t, at), list'[t] = list[t],
         Begin(t)' = Begin(t), Count(t)' = Count(t), Freed(t)' <=> Freed(t),
         \A i \in 1 .. Len(at) : heap'[at[i]] = heap[at[i]]
  PROVE  Joined(t, at)'
<1>1. Len(at) \in Nat  OBVIOUS
<1>2. \A i \in 1 .. Len(at) - 1 : i \in 1 .. Len(at) /\ i + 1 \in 1 .. Len(at)  BY <1>1
<1>3. Len(at) > 0 => 1 \in 1 .. Len(at) /\ Len(at) \in 1 .. Len(at)  BY <1>1
<1> QED  BY <1>2, <1>3 DEF Joined

LEMMA ElementRemovedStep ==
  ASSUME HeapInv, NEW t \in Thread, element_removed(t)
  PROVE  /\ HeapTyped' /\ InOrder' /\ NothingElseLost' /\ KeepsOthers(t)
         /\ list' = list /\ list[t] # NoList /\ ~ Freed(t) /\ ~ Freed(t)' /\ Rest(t)' = Rest(t)
         /\ \A p : IsProp(p) => heap'[p] = heap[p]
         /\ \A i \in 1 .. Len(Rest(t)) : heap'[Rest(t)[i]] = heap[Rest(t)[i]]
<1>1. PICK a : a = doing[t].current  OBVIOUS
<1>2. PICK at : at = Rest(t)  OBVIOUS
<1>3. /\ doing[t].op = "remove_element" /\ Return(t) /\ heap' = Without({a}) /\ Does(t, Nothing)
      /\ list' = list /\ lost' = lost
  BY <1>1 DEF element_removed
<1>4. /\ Orderly(t, at) /\ list[t] \in {NoList} \cup ListRecords /\ Holding(t, at) \subseteq DOMAIN heap
      /\ HeapTyped
  BY <1>2, SomeThread DEF HeapInv
<1>5. /\ list[t] # NoList /\ Joined(t, at) /\ Kept(t, at) /\ NodeApart(a, at) /\ IsList(list[t].at)
      /\ at \in Seq(Address) /\ ~ Freed(t)
  BY <1>1, <1>3, <1>4 DEF Orderly, InHands, Freed
<1>6. Spares(t, at, a) /\ list[t].at # a /\ a \in DOMAIN heap
  <2>1. \A i \in 1 .. Len(at) : at[i] # a  BY <1>5 DEF NodeApart
  <2>2. t \in Owner => \A i \in 1 .. Len(at) : heap[at[i]].value # a
    BY <1>5, Kinds DEF NodeApart, Kept, Filled
  <2> QED  BY <1>5, <2>1, <2>2, Kinds DEF Spares, NodeApart, IsNode
<1>7. /\ Kept(t, at)' /\ \A i \in 1 .. Len(at) : heap'[at[i]] = heap[at[i]]
      /\ \A b \in Range(at) : heap'[b] = heap[b] /\ b # a
  BY <1>3, <1>4, <1>5, <1>6, KeptWithout
<1>8. /\ HeapTyped' /\ doing'[t] = Nothing /\ list'[t] = list[t]
      /\ \A u \in Thread \ {t} : doing'[u] = doing[u] /\ list'[u] = list[u]
  <2>1. Nothing \in Doings /\ DOMAIN heap' \subseteq Address
    BY <1>3, <1>4, WithoutOne DEF Doings
  <2> QED  BY <1>3, <1>4, <2>1, TypedStep
<1>9. Joined(t, at)'
  <2>1. Begin(t)' = Begin(t) /\ Count(t)' = Count(t) /\ (Freed(t)' <=> Freed(t))
    BY <1>3, <1>8 DEF Begin, Count, Freed, Nothing
  <2> QED  BY <1>5, <1>7, <1>8, <2>1, JoinedWithout
<1>10. ~ Freed(t)'  BY <1>8 DEF Freed, Nothing
<1>11. Orderly(t, at)'
  <2>1. IsList(list[t].at)'
    <3>1. PICK b : b = list[t].at  OBVIOUS
    <3>2. IsList(b)'  BY <1>3, <1>4, <1>5, <1>6, <3>1, WithoutOne
    <3> QED  BY <1>8, <3>1, <3>2 DEF IsList
  <2>2. InHands(t, at)'  BY <1>8 DEF InHands, Nothing
  <2>3. call'[t] = Idle  BY <1>3, CallsApart DEF HeapInv
  <2> QED  BY <1>5, <1>7, <1>8, <1>9, <1>10, <2>1, <2>2, <2>3 DEF Orderly, IsList, Nothing
<1>12. Holding(t, at)' = Holding(t, at) \ {a}
  <2>1. InHand(t) = {a} /\ Adds(t) = {} /\ InHand(t)' = {} /\ Adds(t)' = {}
    BY <1>1, <1>3, <1>8 DEF InHand, Adds, Nothing
  <2>2. t \in Owner => \A b \in Range(at) : heap[b].value # a
    BY <1>5, <1>6 DEF Spares, Range
  <2>3. {heap'[b].value : b \in Range(at) \cup {}} = {heap[b].value : b \in Range(at) \cup {}}
    BY <1>7
  <2> QED  BY <1>5, <1>6, <1>7, <1>8, <2>1, <2>2, <2>3 DEF Holding
<1>13. Changes(t, at, {}, {a}, {})
  <2>1. a \in Holding(t, at)  BY <1>1, <1>3 DEF Holding, InHand
  <2>2. DOMAIN heap' = DOMAIN heap \ {a} /\ \A b \in DOMAIN heap \ {a} : heap'[b] = heap[b]
    BY <1>3, <1>4, WithoutOne
  <2> QED  BY <1>3, <1>8, <2>1, <2>2, CallsApart DEF Changes, HeapInv
<1>14. at = Rest(t)'  BY <1>11, OrderlyIsRestNext DEF IsTheRest
<1>15. InOrder' /\ NothingElseLost' /\ KeepsOthers(t)
  BY <1>2, <1>11, <1>12, <1>13, StepKeeps DEF HeapInv
<1>16. \A p : IsProp(p) => heap'[p] = heap[p]
  <2>1. \A p : IsProp(p) => p # a  BY <1>5, Kinds DEF NodeApart
  <2> QED  BY <1>3, <1>4, <2>1, WithoutOne DEF IsProp
<1> QED  BY <1>2, <1>3, <1>5, <1>7, <1>8, <1>10, <1>14, <1>15, <1>16

-----------------------------------------------------------------------------
(* The steps of free_list that only choose what to free next.              *)
FreeListRecord(at, i, todo) == [op |-> "free_list", current |-> at, i |-> i, todo |-> todo]

LEMMA FreeListUpdate ==
  ASSUME NEW d \in Doings, d.op = "free_list"
  PROVE  /\ d.current \in Address \cup {NULL} /\ d.i \in Nat /\ d.todo \in Seq(Address)
         /\ d = [f \in {"op", "current", "i", "todo"} |-> d[f]]
         /\ \A b : [d EXCEPT !.todo = b] = FreeListRecord(d.current, d.i, b)
<1>1. d \in [op : {"free_list"}, current : Address \cup {NULL}, i : Nat, todo : Seq(Address)]
  BY DEF Doings, Nothing
<1>2. d = [f \in {"op", "current", "i", "todo"} |-> d[f]]  BY <1>1
<1>3. ASSUME NEW b  PROVE [d EXCEPT !.todo = b] = FreeListRecord(d.current, d.i, b)
  <2> DEFINE h == [d EXCEPT !.todo = b]
  <2>1. h = [f \in {"op", "current", "i", "todo"} |-> h[f]]
        /\ h.op = "free_list" /\ h.current = d.current /\ h.i = d.i /\ h.todo = b
    BY <1>1
  <2> HIDE DEF h
  <2>2. h = FreeListRecord(d.current, d.i, b)  BY <2>1 DEF FreeListRecord
  <2> QED  BY <2>2 DEF h
<1> QED  BY <1>1, <1>2, <1>3

LEMMA FreeListFields ==
  ASSUME NEW e, e = [f \in {"op", "current", "i", "todo"} |-> e[f]], e.op = "free_list"
  PROVE  e = FreeListRecord(e.current, e.i, e.todo)
  BY DEF FreeListRecord

(* A step that leaves the heap and the lists alone.                        *)
LEMMA ChoiceStep ==
  ASSUME HeapInv, NEW t \in Thread, UNCHANGED <<call, heap, list, lost>>, NEW d \in Doings, Does(t, d),
         NEW at, Orderly(t, at)', Holding(t, at)' = Holding(t, Rest(t))
  PROVE  HeapTyped' /\ InOrder' /\ NothingElseLost' /\ KeepsOthers(t) /\ Rest(t)' = at
<1>1. PICK was : was = Rest(t)  OBVIOUS
<1>2. DOMAIN heap' \subseteq Address /\ HeapTyped  BY DEF HeapInv, HeapTyped
<1>3. list[t] \in {NoList} \cup ListRecords  BY SomeThread
<1>4. HeapTyped' /\ \A u \in Thread \ {t} : doing'[u] = doing[u] /\ list'[u] = list[u]
  BY <1>2, <1>3, TypedStep
<1>5. Changes(t, was, {}, {}, {})  BY <1>4 DEF Changes
<1>6. InOrder' /\ NothingElseLost' /\ KeepsOthers(t)
  BY <1>1, <1>5, StepKeeps DEF HeapInv
<1>7. at = Rest(t)'  BY OrderlyIsRestNext DEF IsTheRest
<1> QED  BY <1>4, <1>6, <1>7

LEMMA KeptSame ==
  ASSUME heap' = heap, NEW t, NEW at
  PROVE  /\ Kept(t, at) => Kept(t, at)'
         /\ \A a :
              /\ NodeApart(a, at) => NodeApart(a, at)'
              /\ PropApart(a, at) => PropApart(a, at)'
              /\ IsList(a) => IsList(a)'
  BY DEF Kept, IsNode, Filled, IsProp, NodeApart, PropApart, IsList

LEMMA FreeListStep ==
  ASSUME HeapInv, NEW t \in Thread, free_list(t)
  PROVE  /\ HeapTyped' /\ InOrder' /\ NothingElseLost' /\ KeepsOthers(t)
         /\ list' = list /\ list[t] # NoList /\ ~ Freed(t) /\ Freed(t)' /\ Rest(t)' = Rest(t)
<1>1. PICK at : at = Rest(t)  OBVIOUS
<1> DEFINE d == FreeListRecord(list[t].first, 1, << >>)
<1>2. /\ doing[t] = Nothing /\ list[t] # NoList /\ Does(t, d) /\ UNCHANGED <<call, heap, list, lost>>
  BY DEF free_list, Ready, FreeListRecord, alloc_vars
<1>3. /\ Orderly(t, at) /\ list[t] \in ListRecords /\ HeapTyped /\ ~ Freed(t)
  BY <1>1, <1>2, SomeThread DEF HeapInv, Freed, Nothing
<1>4. at \in Seq(Address) /\ Joined(t, at) /\ Kept(t, at) /\ IsList(list[t].at) /\ call[t] = Idle
  BY <1>2, <1>3 DEF Orderly, Nothing
<1>5. list[t].first \in Address \cup {NULL} /\ list[t].size \in Nat /\ << >> \in Seq(Address) /\ 1 \in Nat
  BY <1>3 DEF ListRecords
<1>6. d \in Doings /\ d.op = "free_list" /\ d.current = list[t].first /\ d.i = 1 /\ d.todo = << >>
  BY <1>5 DEF FreeListRecord, Doings
<1> HIDE DEF d
<1>7. doing'[t] = d  BY <1>2, <1>3 DEF HeapTyped, Does
<1>8. Freed(t)' /\ Begin(t)' = Begin(t) /\ Count(t)' = Count(t)
  <2>1. (list[t].size - 1) + 1 = list[t].size  BY <1>5
  <2> QED  BY <1>2, <1>3, <1>6, <1>7, <2>1 DEF Freed, Begin, Count
<1>9. Joined(t, at)'
  <2>1. Len(at) \in Nat  BY <1>4
  <2>2. \A i \in 1 .. Len(at) - 1 : i \in 1 .. Len(at) /\ i + 1 \in 1 .. Len(at)  BY <2>1
  <2> QED  BY <1>2, <1>3, <1>4, <1>8, <2>2 DEF Joined
<1>10. Kept(t, at)' /\ IsList(list[t].at)'
  BY <1>2, <1>4, KeptSame DEF IsList
<1>11. InHands(t, at)'
  BY <1>2, <1>4, <1>6, <1>7 DEF InHands
<1>12. Orderly(t, at)'
  BY <1>2, <1>4, <1>6, <1>7, <1>8, <1>9, <1>10, <1>11 DEF Orderly, IsList
<1>13. Holding(t, at)' = Holding(t, at)
  <2>1. ToSet(d.todo) = {}  BY <1>6 DEF ToSet
  <2> QED  BY <1>2, <1>6, <1>7, <2>1 DEF Holding, InHand, Adds, Nothing
<1>14. HeapTyped' /\ InOrder' /\ NothingElseLost' /\ KeepsOthers(t) /\ Rest(t)' = at
  BY <1>1, <1>2, <1>6, <1>12, <1>13, ChoiceStep
<1> QED  BY <1>1, <1>2, <1>3, <1>8, <1>14

(* The first of the nodes left goes over to what is to be freed, with its  *)
(* value.                                                                  *)
LEMMA FirstToFree ==
  ASSUME HeapInv, NEW t \in Thread, Freeing(t), UNCHANGED <<call, heap, list, lost>>,
         NEW at, at = Rest(t), Len(at) > 0, NEW c \in Address \cup {NULL},
         Len(at) > 1 => c = at[2], NEW b, b = Blocks(t, at[1]),
         Does(t, FreeListRecord(c, doing[t].i + 1, b))
  PROVE  HeapTyped' /\ InOrder' /\ NothingElseLost' /\ KeepsOthers(t) /\ Freed(t)'
<1> DEFINE n == Len(at)
<1>1. /\ Orderly(t, at) /\ Freed(t) /\ doing[t] \in Doings /\ doing[t].todo = << >> /\ call[t] = Idle
      /\ HeapTyped
  BY SomeThread DEF Freeing, Freed, HeapInv
<1>2. /\ at \in Seq(Address) /\ n \in Nat /\ list[t] # NoList /\ Joined(t, at) /\ Kept(t, at)
      /\ IsList(list[t].at) /\ doing[t].i >= 1
  BY <1>1 DEF Orderly, Freed
<1>3. doing[t].i \in Nat /\ n = list[t].size - doing[t].i + 1 /\ list[t].size \in Nat
  <2>1. doing[t].i \in Nat  BY <1>1, FreeListUpdate DEF Freed
  <2>2. list[t].size \in Nat  BY <1>2, SomeThread DEF ListRecords
  <2> QED  BY <1>1, <1>2, <2>1, <2>2 DEF Joined, Count
<1>4. 1 \in 1 .. n  BY <1>2
<1>5. IsNode(at[1]) /\ Filled(t, at[1])  BY <1>2, <1>4 DEF Kept
<1>0. PICK p, a : p = heap[at[1]].value /\ a = at[1]  OBVIOUS
<1>6. /\ b \in Seq(Address)
      /\ t \in Owner => b = << p, a >> /\ Len(b) = 2 /\ b[1] = p /\ b[2] = a /\ DOMAIN b = {1, 2}
      /\ t \notin Owner => b = << a >> /\ Len(b) = 1 /\ b[1] = a /\ DOMAIN b = {1}
  <2>1. a \in Address  BY <1>0, <1>2, <1>4
  <2>2. CASE t \in Owner
    <3>1. p \in Address  BY <1>0, <1>1, <1>5, <2>2 DEF Filled, IsProp, HeapTyped
    <3>2. b = << p, a >>  BY <1>0, <2>2 DEF Blocks
    <3> QED  BY <2>1, <2>2, <3>1, <3>2
  <2>3. CASE t \notin Owner
    <3>1. b = << a >>  BY <1>0, <2>3 DEF Blocks
    <3> QED  BY <2>1, <2>3, <3>1
  <2> QED  BY <2>2, <2>3
<1> DEFINE d == FreeListRecord(c, doing[t].i + 1, b)
<1>7. d \in Doings /\ d.op = "free_list" /\ d.current = c /\ d.i = doing[t].i + 1 /\ d.todo = b
  <2>1. PICK j : j = doing[t].i + 1  OBVIOUS
  <2>0. doing[t].i \in Nat  BY <1>3
  <2>2. j \in Nat  BY <2>0, <2>1
  <2>3. d = FreeListRecord(c, j, b)  BY <2>1
  <2> HIDE DEF d
  <2>4. d \in Doings /\ d.op = "free_list" /\ d.current = c /\ d.i = j /\ d.todo = b
    BY <1>6, <2>2, <2>3 DEF FreeListRecord, Doings
  <2> QED  BY <2>1, <2>4
<1> HIDE DEF d
<1>8. doing'[t] = d  BY <1>1 DEF HeapTyped, Does, d
<1>9. PICK new : new = Skip(at, 1)  OBVIOUS
<1>10. new \in Seq(Address) /\ Len(new) = n - 1 /\ \A i \in 1 .. n - 1 : new[i] = at[i + 1]
  BY <1>2, <1>4, <1>9, SkipOne
<1>11. \A i \in 1 .. n - 1 : i + 1 \in 1 .. n /\ i + 1 # 1  BY <1>2
<1>12. Kept(t, new) /\ NodeApart(at[1], new) /\ (t \in Owner => PropApart(heap[at[1]].value, new))
  <2>1. \A i \in 1 .. n - 1 : IsNode(new[i]) /\ Filled(t, new[i]) /\ new[i] # at[1]
    BY <1>2, <1>4, <1>10, <1>11 DEF Kept
  <2>2. \A i, j \in 1 .. n - 1 : new[i] = new[j] => i = j
    <3> SUFFICES ASSUME NEW i \in 1 .. n - 1, NEW j \in 1 .. n - 1, new[i] = new[j]  PROVE i = j
      OBVIOUS
    <3>1. i + 1 = j + 1  BY <1>2, <1>10, <1>11 DEF Kept
    <3> QED  BY <1>2, <3>1
  <2>3. ASSUME t \in Owner
        PROVE  /\ \A i, j \in 1 .. n - 1 : heap[new[i]].value = heap[new[j]].value => i = j
               /\ \A i \in 1 .. n - 1 : heap[new[i]].value # heap[at[1]].value
    <3>1. ASSUME NEW i \in 1 .. n - 1, NEW j \in 1 .. n - 1, heap[new[i]].value = heap[new[j]].value
          PROVE  i = j
      <4>1. i + 1 = j + 1  BY <1>2, <1>10, <1>11, <2>3, <3>1 DEF Kept
      <4> QED  BY <1>2, <4>1
    <3>2. ASSUME NEW i \in 1 .. n - 1  PROVE heap[new[i]].value # heap[at[1]].value
      BY <1>2, <1>4, <1>10, <1>11, <2>3 DEF Kept
    <3> QED  BY <3>1, <3>2
  <2>4. t \in Owner => IsProp(heap[at[1]].value)  BY <1>5 DEF Filled
  <2> QED  BY <1>5, <1>10, <2>1, <2>2, <2>3, <2>4 DEF Kept, NodeApart, PropApart
<1>13. Freed(t)' /\ Begin(t)' = c /\ Count(t)' = n - 1
  <2>1. list'[t].size - (doing[t].i + 1) + 1 = n - 1  BY <1>3
  <2> QED  BY <1>7, <1>8, <2>1 DEF Freed, Begin, Count
<1>14. Joined(t, new)'
  <2>1. \A i \in 1 .. n - 1 : heap[at[i]].next = at[i + 1] /\ heap[at[i + 1]].prev = at[i]
    BY <1>2 DEF Joined
  <2>2. at[n] = list[t].last /\ heap[at[n]].next = NULL  BY <1>2 DEF Joined
  <2>3. ASSUME n > 1  PROVE new[1] = c /\ new[n - 1] = at[n]
    <3>1. 1 \in 1 .. n - 1 /\ n - 1 \in 1 .. n - 1 /\ (n - 1) + 1 = n /\ 1 + 1 = 2  BY <1>2, <2>3
    <3> QED  BY <1>10, <2>3, <3>1
  <2>4. ASSUME NEW i \in 1 .. n - 2  PROVE heap[new[i]].next = new[i + 1] /\ heap[new[i + 1]].prev = new[i]
    <3>1. i \in 1 .. n - 1 /\ i + 1 \in 1 .. n - 1  BY <1>2
    <3> QED  BY <1>10, <2>1, <3>1
  <2>5. (n - 1 > 0 <=> n > 1) /\ (n - 1) - 1 = n - 2  BY <1>2
  <2>6. /\ n - 1 > 0 => new[1] = Begin(t)' /\ new[n - 1] = list'[t].last /\ heap'[new[n - 1]].next = NULL
        /\ \A i \in 1 .. n - 2 : heap'[new[i]].next = new[i + 1] /\ heap'[new[i + 1]].prev = new[i]
    BY <1>13, <2>2, <2>3, <2>4, <2>5
  <2> QED  BY <1>10, <1>13, <2>5, <2>6 DEF Joined
<1>15. Kept(t, new)' /\ IsList(list[t].at)'
  BY <1>2, <1>12, KeptSame DEF IsList
<1>16. InHands(t, new)'
  <2>1. NodeApart(a, new)' /\ (t \in Owner => PropApart(p, new)')
    <3>1. NodeApart(a, new) /\ (t \in Owner => PropApart(p, new))  BY <1>0, <1>12
    <3> QED  BY <3>1 DEF NodeApart, IsNode, PropApart, IsProp
  <2>2. CASE t \in Owner
    <3>1. b[1] = p /\ b[2] = a /\ Len(b) = 2  BY <1>6, <2>2
    <3> QED  BY <1>7, <1>8, <2>1, <2>2, <3>1 DEF InHands, NodeApart, IsNode, PropApart, IsProp
  <2>3. CASE t \notin Owner
    <3>1. b[1] = a /\ Len(b) = 1  BY <1>6, <2>3
    <3> QED  BY <1>7, <1>8, <2>1, <2>3, <3>1 DEF InHands, NodeApart, IsNode
  <2> QED  BY <2>2, <2>3
<1>17. Orderly(t, new)'
  <2>1. doing'[t].i >= 1  BY <1>3, <1>7, <1>8
  <2> QED  BY <1>2, <1>7, <1>8, <1>10, <1>13, <1>14, <1>15, <1>16, <2>1 DEF Orderly, IsList
<1>18. Holding(t, new)' = Holding(t, at)
  <2>1. Range(at) = Range(new) \cup {at[1]}
    <3>1. \A i \in 1 .. n : i = 1 \/ (i - 1 \in 1 .. n - 1 /\ new[i - 1] = at[i])
      <4>1. ASSUME NEW i \in 1 .. n, i # 1  PROVE i - 1 \in 1 .. n - 1 /\ new[i - 1] = at[i]
        <5>1. i - 1 \in 1 .. n - 1 /\ (i - 1) + 1 = i  BY <1>2, <4>1
        <5> QED  BY <1>10, <5>1
      <4> QED  BY <4>1
    <3>2. DOMAIN at = 1 .. n /\ DOMAIN new = 1 .. n - 1  BY <1>2, <1>10
    <3>3. Range(at) \subseteq Range(new) \cup {at[1]}
      <4>1. ASSUME NEW i \in 1 .. n  PROVE at[i] \in Range(new) \cup {at[1]}
        BY <3>1, <3>2 DEF Range
      <4> QED  BY <3>2, <4>1 DEF Range
    <3>4. Range(new) \cup {at[1]} \subseteq Range(at)  BY <1>4, <1>10, <1>11, <3>2 DEF Range
    <3> QED  BY <3>3, <3>4
  <2>2. InHand(t) = {} /\ Adds(t) = {}
    <3>1. ToSet(doing[t].todo) = {}  BY <1>1 DEF ToSet
    <3> QED  BY <1>1, <3>1 DEF InHand, Adds, Freed
  <2>3. ToSet(b) = IF t \in Owner THEN {p, a} ELSE {a}
    BY <1>6 DEF ToSet
  <2>4. InHand(t)' = ToSet(b) /\ Adds(t)' = {}  BY <1>7, <1>8 DEF InHand, Adds
  <2>5. CASE t \in Owner
    <3>1. Holding(t, at) = {list[t].at} \cup Range(at) \cup {heap[x].value : x \in Range(at) \cup {}}
      BY <1>2, <2>2, <2>5 DEF Holding
    <3>2. Holding(t, new)' = {list[t].at} \cup Range(new) \cup ToSet(b) \cup {heap[x].value : x \in Range(new) \cup {}}
      BY <1>2, <2>4, <2>5 DEF Holding
    <3>3. {heap[x].value : x \in Range(at) \cup {}} = {heap[x].value : x \in Range(new) \cup {}} \cup {heap[at[1]].value}
      BY <2>1
    <3> QED  BY <1>0, <2>1, <2>3, <2>5, <3>1, <3>2, <3>3
  <2>6. CASE t \notin Owner
    BY <1>0, <1>2, <2>1, <2>2, <2>3, <2>4, <2>6 DEF Holding
  <2> QED  BY <2>5, <2>6
<1> QED  BY <1>7, <1>13, <1>17, <1>18, ChoiceStep DEF d

FreesOn(t) ==
  /\ HeapTyped' /\ InOrder' /\ NothingElseLost' /\ KeepsOthers(t)
  /\ Freed(t) /\ (Freed(t)' \/ list'[t] = NoList)

LEMMA FreePrevStep ==
  ASSUME HeapInv, NEW t \in Thread, free_prev(t) \/ free_current(t)
  PROVE  FreesOn(t)
<1>1. PICK at : at = Rest(t)  OBVIOUS
<1> DEFINE n == Len(at)
<1>2. Freeing(t) /\ Freed(t) /\ UNCHANGED <<call, heap, list, lost>>
  BY DEF free_prev, free_current, Freeing, Freed, alloc_vars
<1>3. /\ Orderly(t, at) /\ doing[t] \in Doings /\ list[t] # NoList /\ Joined(t, at) /\ Kept(t, at)
      /\ at \in Seq(Address) /\ n \in Nat /\ list[t] \in ListRecords
  BY <1>1, <1>2, SomeThread DEF Orderly, Freed
<1>4. doing[t].i \in Nat /\ list[t].size \in Nat /\ n = list[t].size - doing[t].i + 1
  <2>1. doing[t].i \in Nat  BY <1>2, <1>3, FreeListUpdate DEF Freed
  <2>2. list[t].size \in Nat  BY <1>3 DEF ListRecords
  <2> QED  BY <1>2, <1>3, <2>1, <2>2 DEF Joined, Count
<1>5. n > 0 => at[1] = doing[t].current  BY <1>2, <1>3 DEF Joined, Begin
<1>6. PICK j : j = doing[t].i + 1  OBVIOUS
<1>7. CASE free_prev(t)
  <2>1. n > 1
    <3>1. doing[t].i < list[t].size  BY <1>7 DEF free_prev
    <3> QED  BY <1>4, <3>1
  <2>2. PICK next : next = heap[doing[t].current].next  OBVIOUS
  <2>3. Does(t, [doing[t] EXCEPT !.current = next, !.i = j, !.todo = Blocks(t, heap[next].prev)])
    BY <1>6, <1>7, <2>2 DEF free_prev
  <2>4. 1 \in 1 .. n - 1 /\ 2 \in 1 .. n /\ 1 + 1 = 2  BY <1>3, <2>1
  <2>5. next = at[2] /\ heap[next].prev = at[1]
    BY <1>3, <1>5, <2>1, <2>2, <2>4 DEF Joined
  <2>6. next \in Address \cup {NULL}  BY <1>3, <2>4, <2>5
  <2>7. PICK b : b = Blocks(t, at[1])  OBVIOUS
  <2>8. Does(t, [doing[t] EXCEPT !.current = next, !.i = j, !.todo = b])
    BY <2>3, <2>5, <2>7
  <2>9. Does(t, FreeListRecord(next, j, b))
    <3>1. PICK e : e = [doing[t] EXCEPT !.current = next, !.i = j, !.todo = b]  OBVIOUS
    <3>2. doing[t] = [f \in {"op", "current", "i", "todo"} |-> doing[t][f]] /\ doing[t].op = "free_list"
      BY <1>2, <1>3, FreeListUpdate DEF Freed
    <3>3. e = [f \in {"op", "current", "i", "todo"} |-> e[f]]
          /\ e.op = "free_list" /\ e.current = next /\ e.i = j /\ e.todo = b
      BY <3>1, <3>2
    <3>4. e = FreeListRecord(next, j, b)  BY <3>3, FreeListFields
    <3> QED  BY <2>8, <3>1, <3>4
  <2>10. n > 0  BY <1>3, <2>1
  <2> QED  BY <1>1, <1>2, <1>6, <2>5, <2>6, <2>7, <2>9, <2>10, FirstToFree DEF FreesOn
<1>8. CASE free_current(t)
  <2>1. n = 1
    <3>1. doing[t].i = list[t].size  BY <1>8 DEF free_current
    <3> QED  BY <1>4, <3>1
  <2>2. at[1] = doing[t].current /\ n > 0  BY <1>5, <2>1
  <2>3. PICK b : b = Blocks(t, at[1])  OBVIOUS
  <2>4. Does(t, [doing[t] EXCEPT !.i = j, !.todo = b])
    BY <1>6, <1>8, <2>2, <2>3 DEF free_current
  <2>5. Does(t, FreeListRecord(doing[t].current, j, b))
    <3>1. PICK e : e = [doing[t] EXCEPT !.i = j, !.todo = b]  OBVIOUS
    <3>2. doing[t] = [f \in {"op", "current", "i", "todo"} |-> doing[t][f]] /\ doing[t].op = "free_list"
      BY <1>2, <1>3, FreeListUpdate DEF Freed
    <3>3. e = [f \in {"op", "current", "i", "todo"} |-> e[f]]
          /\ e.op = "free_list" /\ e.current = doing[t].current /\ e.i = j /\ e.todo = b
      BY <3>1, <3>2
    <3>4. e = FreeListRecord(doing[t].current, j, b)  BY <3>3, FreeListFields
    <3> QED  BY <2>4, <3>1, <3>4
  <2>6. doing[t].current \in Address \cup {NULL}  BY <1>2, <1>3, FreeListUpdate DEF Freed
  <2>7. ~ (n > 1)  BY <2>1
  <2> QED  BY <1>1, <1>2, <1>6, <2>2, <2>3, <2>5, <2>6, <2>7, FirstToFree DEF FreesOn
<1> QED  BY <1>7, <1>8

LEMMA FreeItselfStep ==
  ASSUME HeapInv, NEW t \in Thread, free_itself(t)
  PROVE  FreesOn(t)
<1>1. PICK at : at = Rest(t)  OBVIOUS
<1>2. /\ Freed(t) /\ doing[t].i > list[t].size /\ Does(t, [doing[t] EXCEPT !.todo = << list[t].at >>])
      /\ doing[t].todo = << >> /\ UNCHANGED <<call, heap, list, lost>>
  BY DEF free_itself, Freeing, Freed, alloc_vars
<1>3. /\ Orderly(t, at) /\ doing[t] \in Doings /\ list[t] # NoList /\ Joined(t, at) /\ Kept(t, at)
      /\ at \in Seq(Address) /\ Len(at) \in Nat /\ list[t] \in ListRecords /\ IsList(list[t].at) /\ HeapTyped
  BY <1>1, <1>2, SomeThread DEF Orderly, Freed, HeapInv
<1>4. doing[t].i \in Nat /\ doing[t].current \in Address \cup {NULL}  BY <1>2, <1>3, FreeListUpdate DEF Freed
<1>5. list[t].size \in Nat /\ list[t].at \in Address  BY <1>3 DEF ListRecords
<1>6. Len(at) = 0
  <2>1. Len(at) = list[t].size - doing[t].i + 1  BY <1>2, <1>3 DEF Joined, Count
  <2> QED  BY <1>2, <1>3, <1>4, <1>5, <2>1
<1>7. PICK b : b = << list[t].at >>  OBVIOUS
<1>8. b \in Seq(Address) /\ ToSet(b) = {list[t].at}
  <2>1. DOMAIN b = {1} /\ b[1] = list[t].at  BY <1>7
  <2> QED  BY <1>5, <1>7, <2>1 DEF ToSet
<1>9. PICK d : d = FreeListRecord(doing[t].current, doing[t].i, b)  OBVIOUS
<1>10. d \in Doings /\ d.op = "free_list" /\ d.current = doing[t].current /\ d.i = doing[t].i /\ d.todo = b
  BY <1>4, <1>8, <1>9 DEF FreeListRecord, Doings
<1>11. Does(t, d)
  <2>1. [doing[t] EXCEPT !.todo = b] = FreeListRecord(doing[t].current, doing[t].i, b)
    BY <1>2, <1>3, FreeListUpdate, Zenon DEF Freed
  <2> QED  BY <1>2, <1>7, <1>9, <2>1
<1>12. doing'[t] = d  BY <1>3, <1>11 DEF HeapTyped, Does
<1>13. Freed(t)' /\ Begin(t)' = Begin(t) /\ Count(t)' = Count(t)
  BY <1>2, <1>10, <1>12 DEF Freed, Begin, Count
<1>14. Joined(t, at)'  BY <1>2, <1>3, <1>13, JoinedWithout
<1>15. Kept(t, at)' /\ IsList(list[t].at)'  BY <1>2, <1>3, KeptSame DEF IsList
<1>16. InHands(t, at)'  BY <1>2, <1>6, <1>7, <1>10, <1>12 DEF InHands
<1>17. Orderly(t, at)'
  BY <1>2, <1>3, <1>10, <1>12, <1>13, <1>14, <1>15, <1>16 DEF Orderly, IsList
<1>18. Holding(t, at)' = Holding(t, at)
  <2>1. ToSet(doing[t].todo) = {}  BY <1>2 DEF ToSet
  <2>2. InHand(t) = {} /\ Adds(t) = {} /\ InHand(t)' = {list[t].at} /\ Adds(t)' = {}
    BY <1>2, <1>8, <1>10, <1>12, <2>1 DEF InHand, Adds, Freed
  <2> QED  BY <1>2, <1>3, <2>2 DEF Holding
<1>19. HeapTyped' /\ InOrder' /\ NothingElseLost' /\ KeepsOthers(t)
  BY <1>1, <1>2, <1>10, <1>11, <1>17, <1>18, ChoiceStep
<1> QED  BY <1>2, <1>13, <1>19 DEF FreesOn

(* Steps that are only in a call of the allocator.                         *)
LEMMA InCallStep ==
  ASSUME HeapInv, NEW t \in Thread, UNCHANGED <<heap, list, doing, lost>>, call[t] = Idle => Freed(t) /\ doing[t].todo # << >>,
         \A u \in Thread \ {t} : call'[u] = call[u]
  PROVE  /\ HeapTyped' /\ InOrder' /\ NothingElseLost' /\ KeepsOthers(t) /\ Rest(t)' = Rest(t)
         /\ (Freed(t)' <=> Freed(t))
<1>1. PICK at : at = Rest(t)  OBVIOUS
<1>2. Orderly(t, at) /\ HeapTyped  BY <1>1, SomeThread DEF HeapInv
<1>3. at \in Seq(Address)  BY <1>2 DEF Orderly
<1>4. HeapTyped' /\ (Freed(t)' <=> Freed(t)) /\ Begin(t)' = Begin(t) /\ Count(t)' = Count(t)
  BY <1>2 DEF HeapTyped, Freed, Begin, Count
<1>5. ASSUME list[t] # NoList  PROVE Joined(t, at)' /\ IsList(list[t].at)'
  <2>1. Joined(t, at) /\ IsList(list[t].at)  BY <1>2, <1>5 DEF Orderly
  <2>2. Joined(t, at)'  BY <1>3, <1>4, <2>1, JoinedWithout
  <2> QED  BY <2>1, <2>2 DEF IsList
<1>6. Kept(t, at)'
  <2>1. Kept(t, at)  BY <1>2, Zenon DEF Orderly
  <2> QED  BY <2>1, KeptSame
<1>7. InHands(t, at)'
  BY <1>2 DEF Orderly, InHands, NodeApart, PropApart, IsNode, IsProp, IsList, Filled, Freed
<1>8. Orderly(t, at)'
  BY <1>2, <1>4, <1>5, <1>6, <1>7 DEF Orderly, IsList, Freed
<1>9. Holding(t, at)' = Holding(t, at)  BY DEF Holding, InHand, Adds
<1>10. Changes(t, at, {}, {}, {})  BY DEF Changes
<1>11. InOrder' /\ NothingElseLost' /\ KeepsOthers(t)
  BY <1>1, <1>8, <1>9, <1>10, StepKeeps DEF HeapInv
<1>12. at = Rest(t)'  BY <1>8, OrderlyIsRestNext DEF IsTheRest
<1> QED  BY <1>1, <1>4, <1>11, <1>12

LEMMA OneInSequence ==
  ASSUME NEW S, NEW s \in Seq(S), Len(s) = 1
  PROVE  Head(s) = s[1] /\ Tail(s) = << >> /\ DOMAIN s = {1}
<1>1. s = << s[1] >>  OBVIOUS
<1>0. s[1] \in S  OBVIOUS
<1>2. PICK x \in S : x = s[1]  BY <1>0
<1>3. Head(<< x >>) = x /\ Tail(<< x >>) = << >>  OBVIOUS
<1>4. DOMAIN s = {1}  OBVIOUS
<1> QED  BY <1>1, <1>2, <1>3, <1>4

LEMMA TwoInSequence ==
  ASSUME NEW S, NEW s \in Seq(S), Len(s) = 2
  PROVE  Head(s) = s[1] /\ Tail(s) = << s[2] >> /\ DOMAIN s = {1, 2} /\ s[2] \in S
<1>1. s = << s[1], s[2] >> /\ s[1] \in S /\ s[2] \in S  OBVIOUS
<1>2. PICK x \in S, y \in S : x = s[1] /\ y = s[2]  BY <1>1
<1>3. Head(<< x, y >>) = x /\ Tail(<< x, y >>) = << y >>  OBVIOUS
<1>4. DOMAIN s = {1, 2}  OBVIOUS
<1> QED  BY <1>1, <1>2, <1>3, <1>4

LEMMA BlockFreedStep ==
  ASSUME HeapInv, NEW t \in Thread, block_freed(t)
  PROVE  FreesOn(t)
<1>1. PICK at : at = Rest(t)  OBVIOUS
<1>2. PICK todo : todo = doing[t].todo  OBVIOUS
<1>3. PICK a : a = Head(todo)  OBVIOUS
<1>4. /\ Freed(t) /\ Return(t) /\ heap' = Without({a}) /\ lost' = lost
      /\ IF a = list[t].at THEN Sets(t, NoList) /\ Does(t, Nothing)
         ELSE Does(t, [doing[t] EXCEPT !.todo = Tail(todo)]) /\ list' = list
  BY <1>2, <1>3 DEF block_freed, Freed
<1>5. /\ Orderly(t, at) /\ doing[t] \in Doings /\ list[t] # NoList /\ Joined(t, at) /\ Kept(t, at)
      /\ at \in Seq(Address) /\ list[t] \in ListRecords /\ IsList(list[t].at) /\ HeapTyped /\ doing[t].i >= 1
      /\ Len(at) \in Nat
  BY <1>1, <1>4, SomeThread DEF Orderly, Freed, HeapInv
<1>6. /\ call[t] # Idle /\ call'[t] = Idle /\ todo \in Seq(Address)
      /\ doing[t].i \in Nat /\ doing[t].current \in Address \cup {NULL}
  BY <1>2, <1>4, <1>5, CallsApart, FreeListUpdate DEF HeapInv, Freed
<1>7. \/ Len(at) = 0 /\ todo = << list[t].at >>
      \/ Len(todo) = 1 /\ NodeApart(todo[1], at)
      \/ Len(todo) = 2 /\ t \in Owner /\ PropApart(todo[1], at) /\ NodeApart(todo[2], at)
  <2>1. InHands(t, at)  BY <1>5 DEF Orderly
  <2> QED  BY <1>2, <1>4, <1>6, <2>1, Zenon DEF InHands, Freed
<1>8. InHand(t) = ToSet(todo) /\ Adds(t) = {}  BY <1>2, <1>4 DEF InHand, Adds, Freed
<1>9. /\ DOMAIN heap' = DOMAIN heap \ {a} /\ DOMAIN heap' \subseteq Address
      /\ \A b \in DOMAIN heap \ {a} : heap'[b] = heap[b]
  BY <1>4, <1>5, WithoutOne
<1>10. CASE Len(at) = 0 /\ todo = << list[t].at >>
  <2>1. a = list[t].at /\ at = << >> /\ ToSet(todo) = {a}
    <3>1. DOMAIN todo = {1} /\ todo[1] = list[t].at  BY <1>10
    <3> QED  BY <1>3, <1>5, <1>10, <3>1 DEF ToSet
  <2>2. Sets(t, NoList) /\ Does(t, Nothing)  BY <1>4, <2>1
  <2>3. /\ HeapTyped' /\ doing'[t] = Nothing /\ list'[t] = NoList
        /\ \A u \in Thread \ {t} : doing'[u] = doing[u] /\ list'[u] = list[u]
    BY <1>5, <1>9, <2>2, TypedStep DEF Doings
  <2>4. Orderly(t, << >>)'
    BY <1>6, <2>3, EmptyRest DEF Orderly, Kept, InHands, Nothing
  <2>5. Holding(t, at) = {a}
    BY <1>5, <1>8, <2>1, EmptyRest DEF Holding
  <2>6. Holding(t, << >>)' = {}
    BY <2>3, EmptyRest DEF Holding, InHand, Adds, Nothing
  <2>7. Changes(t, at, {}, {a}, {})
    BY <1>4, <1>9, <2>3, <2>5, CallsApart DEF Changes, HeapInv
  <2>8. InOrder' /\ NothingElseLost' /\ KeepsOthers(t)
    BY <1>1, <2>4, <2>5, <2>6, <2>7, StepKeeps DEF HeapInv
  <2> QED  BY <1>4, <2>3, <2>8 DEF FreesOn
<1>11. ASSUME NEW rest \in Seq(Address), rest = Tail(todo), a # list[t].at, Spares(t, at, a),
              ToSet(todo) = ToSet(rest) \cup {a}, a \notin ToSet(rest),
              rest = << >> \/ (Len(rest) = 1 /\ NodeApart(rest[1], at) /\ rest[1] # a)
       PROVE  FreesOn(t)
  <2>1. PICK d : d = FreeListRecord(doing[t].current, doing[t].i, rest)  OBVIOUS
  <2>2. d \in Doings /\ d.op = "free_list" /\ d.current = doing[t].current /\ d.i = doing[t].i /\ d.todo = rest
    BY <1>6, <2>1 DEF FreeListRecord, Doings
  <2>3. Does(t, d) /\ list' = list
    <3>1. [doing[t] EXCEPT !.todo = rest] = FreeListRecord(doing[t].current, doing[t].i, rest)
      BY <1>4, <1>5, FreeListUpdate, Zenon DEF Freed
    <3> QED  BY <1>4, <1>11, <2>1, <3>1
  <2>4. /\ HeapTyped' /\ doing'[t] = d /\ list'[t] = list[t]
        /\ \A u \in Thread \ {t} : doing'[u] = doing[u] /\ list'[u] = list[u]
    BY <1>5, <1>9, <2>2, <2>3, TypedStep
  <2>5. /\ Kept(t, at)' /\ \A i \in 1 .. Len(at) : heap'[at[i]] = heap[at[i]]
        /\ \A b \in Range(at) : heap'[b] = heap[b] /\ b # a
    BY <1>4, <1>5, <1>11, KeptWithout
  <2>6. Freed(t)' /\ Begin(t)' = Begin(t) /\ Count(t)' = Count(t)
    BY <1>4, <2>2, <2>4 DEF Freed, Begin, Count
  <2>7. Joined(t, at)'  BY <1>4, <1>5, <2>4, <2>5, <2>6, JoinedWithout
  <2>8. IsList(list[t].at)'
    <3>1. PICK b : b = list[t].at  OBVIOUS
    <3>2. IsList(b)'  BY <1>4, <1>5, <1>11, <3>1, WithoutOne
    <3> QED  BY <2>4, <3>1, <3>2 DEF IsList
  <2>9. InHands(t, at)'
    <3>1. rest = << >> \/ (Len(rest) = 1 /\ NodeApart(rest[1], at)')
      <4>1. ASSUME Len(rest) = 1, NodeApart(rest[1], at), rest[1] # a  PROVE NodeApart(rest[1], at)'
        <5>1. PICK b : b = rest[1]  OBVIOUS
        <5>2. IsNode(b)'  BY <1>4, <1>5, <4>1, <5>1, WithoutOne DEF NodeApart
        <5> QED  BY <4>1, <5>1, <5>2 DEF NodeApart, IsNode
      <4> QED  BY <1>11, <4>1
    <3> QED  BY <1>6, <2>2, <2>4, <3>1 DEF InHands, NodeApart, IsNode
  <2>10. Orderly(t, at)'
    BY <1>5, <2>2, <2>4, <2>5, <2>6, <2>7, <2>8, <2>9 DEF Orderly, IsList
  <2>11. Holding(t, at)' = Holding(t, at) \ {a}
    <3>1. InHand(t)' = ToSet(rest) /\ Adds(t)' = {}  BY <2>2, <2>4 DEF InHand, Adds
    <3>2. t \in Owner => \A b \in Range(at) : heap[b].value # a
      BY <1>5, <1>11 DEF Spares, Range
    <3>3. {heap'[b].value : b \in Range(at) \cup {}} = {heap[b].value : b \in Range(at) \cup {}}
      BY <2>5
    <3> QED  BY <1>5, <1>8, <1>11, <2>4, <2>5, <3>1, <3>2, <3>3 DEF Holding
  <2>12. Changes(t, at, {}, {a}, {})
    <3>1. a \in Holding(t, at)  BY <1>8, <1>11 DEF Holding
    <3> QED  BY <1>4, <1>9, <2>4, <3>1, CallsApart DEF Changes, HeapInv
  <2>13. InOrder' /\ NothingElseLost' /\ KeepsOthers(t)
    BY <1>1, <2>10, <2>11, <2>12, StepKeeps DEF HeapInv
  <2> QED  BY <1>4, <2>4, <2>6, <2>13 DEF FreesOn
<1>12. CASE Len(todo) = 1 /\ NodeApart(todo[1], at)
  <2>1. a = todo[1] /\ Tail(todo) = << >> /\ Tail(todo) \in Seq(Address) /\ ToSet(todo) = {a}
    <3>1. DOMAIN todo = {1} /\ a = todo[1] /\ Tail(todo) = << >>
      BY <1>3, <1>6, <1>12, OneInSequence
    <3>2. ToSet(todo) = {a}  BY <3>1 DEF ToSet
    <3>3. << >> \in Seq(Address)  OBVIOUS
    <3> QED  BY <3>1, <3>2, <3>3
  <2>2. a # list[t].at  BY <1>5, <1>12, <2>1, Kinds DEF NodeApart
  <2>3. Spares(t, at, a)
    <3>1. t \in Owner => \A i \in 1 .. Len(at) : heap[at[i]].value # a
      BY <1>5, <1>12, <2>1, Kinds DEF NodeApart, Kept, Filled
    <3> QED  BY <1>12, <2>1, <3>1 DEF Spares, NodeApart
  <2>4. ToSet(<< >>) = {}  BY DEF ToSet
  <2> QED  BY <1>11, <2>1, <2>2, <2>3, <2>4
<1>13. CASE Len(todo) = 2 /\ t \in Owner /\ PropApart(todo[1], at) /\ NodeApart(todo[2], at)
  <2>1. PICK rest : rest = Tail(todo)  OBVIOUS
  <2>2. a = todo[1] /\ rest \in Seq(Address) /\ Len(rest) = 1 /\ rest[1] = todo[2]
    <3>1. a = todo[1] /\ rest = << todo[2] >> /\ todo[2] \in Address
      BY <1>3, <1>6, <1>13, <2>1, TwoInSequence
    <3> QED  BY <3>1
  <2>3. DOMAIN todo = {1, 2} /\ DOMAIN rest = {1}  BY <1>6, <1>13, <2>2
  <2>4. ToSet(todo) = {todo[1], todo[2]} /\ ToSet(rest) = {todo[2]}  BY <2>2, <2>3 DEF ToSet
  <2>5. todo[1] # todo[2] /\ a # list[t].at  BY <1>5, <1>13, <2>2, Kinds DEF NodeApart, PropApart
  <2>6. Spares(t, at, a)
    <3>1. \A i \in 1 .. Len(at) : at[i] # a
      BY <1>5, <1>13, <2>2, Kinds DEF PropApart, Kept
    <3> QED  BY <1>13, <2>2, <3>1 DEF Spares, PropApart
  <2> QED  BY <1>11, <1>13, <2>1, <2>2, <2>4, <2>5, <2>6
<1> QED  BY <1>7, <1>10, <1>12, <1>13

-----------------------------------------------------------------------------
(* The invariant: one action after the other.                              *)
LEMMA HeapInvInit == Init => HeapInv
<1> SUFFICES ASSUME Init  PROVE HeapInv  OBVIOUS
<1>1. AllocTypeOK  BY AllocInvInit DEF Init, AllocInv
<1>2. DOMAIN heap = {} /\ lost = {}  BY DEF Init
<1>3. \A t \in Thread : doing[t] = Nothing /\ list[t] = NoList /\ call[t] = Idle
  BY DEF Init, init_alloc
<1>4. HeapTyped  BY <1>2 DEF Init, HeapTyped, Doings
<1>5. \A t \in Thread : Rest(t) = << >>  BY <1>3 DEF Rest
<1>6. ASSUME NEW t \in Thread  PROVE Orderly(t, << >>)
  <2>1. << >> \in Seq(Address) /\ Len(<< >>) = 0 /\ 1 .. 0 = {}  OBVIOUS
  <2>2. doing[t].op = "nothing" /\ call[t] = Idle /\ list[t] = NoList  BY <1>3 DEF Nothing
  <2>3. Kept(t, << >>)  BY <2>1 DEF Kept
  <2>4. InHands(t, << >>)  BY <2>2 DEF InHands
  <2> QED  BY <2>1, <2>2, <2>3, <2>4 DEF Orderly
<1>7. InOrder  BY <1>5, <1>6 DEF InOrder
<1>8. \A t \in Thread : Has(t) = {}
  <2> SUFFICES ASSUME NEW t \in Thread  PROVE Has(t) = {}  OBVIOUS
  <2>1. Holding(t, << >>) = {}
    BY <1>3, EmptyRest DEF Holding, InHand, Adds, Nothing
  <2> QED  BY <1>6, <2>1, HasIsHolding DEF HoldsWhatItHas
<1>9. NothingElseLost  BY <1>2, <1>8 DEF NothingElseLost
<1> QED  BY <1>1, <1>4, <1>7, <1>9 DEF HeapInv

LEMMA HeapStays ==
  ASSUME HeapInv, UNCHANGED vars
  PROVE  HeapTyped' /\ InOrder' /\ NothingElseLost' /\ \A t \in Thread : Rest(t)' = Rest(t)
<1>1. HeapTyped'  BY DEF HeapInv, HeapTyped, vars
<1>2. ASSUME NEW t \in Thread
      PROVE  Orderly(t, Rest(t))' /\ Has(t)' = Has(t) /\ Rest(t)' = Rest(t)
  <2>1. PICK at : at = Rest(t)  OBVIOUS
  <2>2. Orderly(t, at) /\ Has(t) = Holding(t, at)
    BY <2>1, SomeThread, HasIsHolding DEF HoldsWhatItHas
  <2>3. Untouched(t, at)  BY DEF Untouched, vars, alloc_vars
  <2>4. Orderly(t, at)' /\ Holding(t, at)' = Holding(t, at)  BY <2>2, <2>3, Frame
  <2>5. at = Rest(t)' /\ Has(t)' = Holding(t, at)'
    BY <2>4, OrderlyIsRestNext, HasIsHoldingNext DEF IsTheRest, HoldsWhatItHas
  <2> QED  BY <2>1, <2>2, <2>4, <2>5
<1>3. InOrder'  BY <1>2 DEF InOrder
<1>4. NothingElseLost'
  <2>1. DOMAIN heap' = DOMAIN heap /\ lost' = lost  BY DEF vars
  <2> QED  BY <1>2, <2>1 DEF HeapInv, NothingElseLost
<1> QED  BY <1>1, <1>2, <1>3, <1>4

LEMMA InCalls ==
  ASSUME HeapInv, NEW t \in Thread, block_free(t) \/ within_call(t)
  PROVE  /\ HeapTyped' /\ InOrder' /\ NothingElseLost' /\ KeepsOthers(t)
         /\ Rest(t)' = Rest(t) /\ (Freed(t)' <=> Freed(t))
         /\ UNCHANGED <<heap, list, doing>>
<1>1. CASE block_free(t)
  <2>1. Freed(t) /\ doing[t].todo # << >> /\ UNCHANGED <<heap, list, doing, lost>>
        /\ \A u \in Thread \ {t} : call'[u] = call[u]
    BY <1>1, CallsApart DEF block_free, Freed, HeapInv
  <2> QED  BY <2>1, InCallStep
<1>2. CASE within_call(t)
  <2>1. ASSUME NEW from, NEW to, NEW loaded, Step(t, from, to, loaded), from # "idle"
        PROVE  call[t] # Idle /\ \A u \in Thread \ {t} : call'[u] = call[u]
    <3>1. Idle.at = "idle"  BY DEF Idle
    <3> QED  BY <2>1, <3>1 DEF Step, HeapInv, AllocTypeOK
  <2>2. call[t] # Idle /\ \A u \in Thread \ {t} : call'[u] = call[u]
    <3>1. load_all(t) \/ store_all(t) \/ load_current(t) \/ store_current(t) \/ load_max(t) \/ compare(t)
          \/ load_new_max(t) \/ store_max(t) \/ load_freed(t) \/ store_freed(t)
      BY <1>2, Zenon DEF within_call, Within
    <3> QED
      BY <3>1, <2>1 DEF load_all, store_all, load_current, store_current, load_max,
         compare, load_new_max, store_max, load_freed, store_freed, Load
  <2> QED  BY <1>2, <2>2, InCallStep DEF within_call
<1> QED  BY <1>1, <1>2

LEMMA HeapInvStep == HeapInv /\ [Next]_vars => HeapInv'
<1> SUFFICES ASSUME HeapInv, [Next]_vars  PROVE HeapInv'  OBVIOUS
<1>1. AllocTypeOK'  BY ListsAllocate, AllocTypeStep DEF HeapInv
<1>2. SUFFICES HeapTyped' /\ InOrder' /\ NothingElseLost'  BY <1>1 DEF HeapInv
<1>3. ASSUME NEW t \in Thread, init_list(t) \/ list_created(t) \/ property_created(t) \/ added(t)
      PROVE  HeapTyped' /\ InOrder' /\ NothingElseLost'
  BY <1>3, InitListStep, ListCreatedStep, PropertyCreatedStep, AddedStep
<1>4. ASSUME NEW t \in Thread, NEW v \in Value, new_property(t, v)
      PROVE  HeapTyped' /\ InOrder' /\ NothingElseLost'
  BY <1>4, NewPropertyStep
<1>5. ASSUME NEW t \in Thread, NEW v \in Value, add_value(t, v)
      PROVE  HeapTyped' /\ InOrder' /\ NothingElseLost'
  BY <1>5, AddLastStep DEF add_value, Ready
<1>6. ASSUME NEW t \in Thread, add_property(t)
      PROVE  HeapTyped' /\ InOrder' /\ NothingElseLost'
  <2>1. list[t] # NoList
    BY <1>6, SomeThread DEF add_property, Orderly
  <2> QED  BY <1>6, <2>1, AddLastStep DEF add_property
<1>7. ASSUME NEW t \in Thread, NEW v \in Value, remove_element(t, v)
      PROVE  HeapTyped' /\ InOrder' /\ NothingElseLost'
  <2>1. CASE Search(t, v) # NULL  BY <1>7, <2>1, RemoveStep
  <2>2. CASE Search(t, v) = NULL
    BY <1>7, <2>2, HeapStays DEF remove_element, vars
  <2> QED  BY <2>1, <2>2
<1>8. ASSUME NEW t \in Thread, element_removed(t) \/ free_list(t)
      PROVE  HeapTyped' /\ InOrder' /\ NothingElseLost'
  BY <1>8, ElementRemovedStep, FreeListStep
<1>9. ASSUME NEW t \in Thread, free_prev(t) \/ free_current(t) \/ free_itself(t) \/ block_freed(t)
      PROVE  HeapTyped' /\ InOrder' /\ NothingElseLost'
  BY <1>9, FreePrevStep, FreeItselfStep, BlockFreedStep DEF FreesOn
<1>10. ASSUME NEW t \in Thread, block_free(t) \/ within_call(t)
       PROVE  HeapTyped' /\ InOrder' /\ NothingElseLost'
  BY <1>10, InCalls
<1>11. CASE UNCHANGED vars  BY <1>11, HeapStays
<1> QED  BY <1>3, <1>4, <1>5, <1>6, <1>7, <1>8, <1>9, <1>10, <1>11 DEF Next

LEMMA HeapInvariant == Spec => []HeapInv
  BY HeapInvInit, HeapInvStep, PTL DEF Spec

(* Whatever lists the threads build, take from and free, and wherever      *)
(* malloc puts their blocks: every block is in the hands of one thread,    *)
(* once, or is a value that remove_element took out of a list that owned   *)
(* it (add_last, remove_element, free_list).                               *)
THEOREM NothingElseLostHolds == Spec => []NothingElseLost
<1>1. HeapInv => NothingElseLost  BY DEF HeapInv
<1> QED  BY <1>1, HeapInvariant, PTL

(* The way back from the last node is the way there read backwards, for    *)
(* lists of any length: what free_list frees on is what add_last and       *)
(* remove_element have linked.                                             *)
THEOREM BothWaysHolds == Spec => []BothWays
<1>1. HeapInv => BothWays
  <2> SUFFICES ASSUME HeapInv, NEW t \in Thread, Whole(t)
               PROVE  LET at == Nodes(t)  n == list[t].size
                      IN IF n = 0 THEN list[t].first = NULL /\ list[t].last = NULL
                         ELSE /\ at[n] = list[t].last
                              /\ heap[at[1]].prev = NULL /\ heap[at[n]].next = NULL
                              /\ \A i \in 2 .. n : heap[at[i]].prev = at[i - 1]
    BY DEF BothWays
  <2>1. PICK at : at = Rest(t)  OBVIOUS
  <2>2. list[t] # NoList /\ ~ Freed(t)  BY DEF Whole, Freed
  <2>3. at = Nodes(t)  BY <2>1, <2>2 DEF Nodes, Rest, Begin, Count
  <2>4. Joined(t, at) /\ Len(at) = list[t].size /\ Len(at) \in Nat
    BY <2>1, <2>2, SomeThread DEF Orderly, Joined, Count
  <2>5. ASSUME NEW i \in 2 .. Len(at)  PROVE heap[at[i]].prev = at[i - 1]
    <3>1. i - 1 \in 1 .. Len(at) - 1 /\ (i - 1) + 1 = i  BY <2>4
    <3>2. heap[at[(i - 1) + 1]].prev = at[i - 1]  BY <2>4, <3>1 DEF Joined
    <3> QED  BY <3>1, <3>2
  <2> QED  BY <2>2, <2>3, <2>4, <2>5 DEF Joined
<1> QED  BY <1>1, HeapInvariant, PTL

-----------------------------------------------------------------------------
(* The refinement of Lists.                                                *)

(* The values of a list, told by the sequence of its nodes.                *)
ValuesAre ==
  \A t \in Thread : \A at :
    Orderly(t, at) /\ Whole(t) =>
      Values(t) = [i \in 1 .. Len(at) |-> ValueAt(t, at[i])]
LEMMA ValuesOfNodes == ValuesAre
<1> SUFFICES ASSUME NEW t \in Thread, NEW at, Orderly(t, at), Whole(t)
             PROVE  Values(t) = [i \in 1 .. Len(at) |-> ValueAt(t, at[i])]
  BY DEF ValuesAre
<1>1. list[t] # NoList /\ ~ Freed(t)  BY DEF Whole, Freed
<1>2. at = Rest(t) /\ Len(at) = list[t].size
  BY <1>1, OrderlyIsRest DEF IsTheRest, Orderly, Joined, Count
<1>3. Nodes(t) = at  BY <1>1, <1>2 DEF Nodes, Rest, Begin, Count
<1> QED  BY <1>2, <1>3 DEF Values

LEMMA ValuesOfNodesNext == ValuesAre'
  BY ValuesOfNodes, PTL

(* A list whose nodes stay, and what they hold, has the values it had.     *)
LEMMA SameValues ==
  ASSUME HeapInv, HeapInv', NEW t \in Thread, Whole(t), Whole(t)', Rest(t)' = Rest(t),
         \A i \in 1 .. Len(Rest(t)) : heap'[Rest(t)[i]].value = heap[Rest(t)[i]].value,
         t \in Owner =>
           \A i \in 1 .. Len(Rest(t)) :
             heap'[heap[Rest(t)[i]].value].value = heap[heap[Rest(t)[i]].value].value
  PROVE  Values(t)' = Values(t)
<1>1. PICK at : at = Rest(t)  OBVIOUS
<1>2. Orderly(t, at) /\ Orderly(t, at)'  BY <1>1 DEF HeapInv, InOrder
<1>3. /\ Values(t) = [i \in 1 .. Len(at) |-> ValueAt(t, at[i])]
      /\ Values(t)' = [i \in 1 .. Len(at) |-> ValueAt(t, at[i])']
  BY <1>2, ValuesOfNodes, ValuesOfNodesNext DEF ValuesAre
<1>4. \A i \in 1 .. Len(at) : ValueAt(t, at[i])' = ValueAt(t, at[i])
  BY <1>1 DEF ValueAt
<1> QED  BY <1>3, <1>4

(* The lists of the others have the values they had.                       *)
LEMMA OthersValues ==
  ASSUME HeapInv, HeapInv', NEW t \in Thread, KeepsOthers(t), NEW u \in Thread \ {t}
  PROVE  (Whole(u)' <=> Whole(u)) /\ (Whole(u) => Values(u)' = Values(u))
<1>1. PICK at : at = Rest(u)  OBVIOUS
<1>2. /\ list'[u] = list[u] /\ doing'[u] = doing[u] /\ Rest(u)' = at
      /\ \A a \in Holding(u, at) \cap DOMAIN heap : heap'[a] = heap[a]
  BY <1>1 DEF KeepsOthers
<1>3. Whole(u)' <=> Whole(u)  BY <1>2 DEF Whole
<1>4. Orderly(u, at)  BY <1>1 DEF HeapInv, InOrder
<1>5. ASSUME NEW i \in 1 .. Len(at)
      PROVE  /\ heap'[at[i]].value = heap[at[i]].value
             /\ u \in Owner => heap'[heap[at[i]].value].value = heap[heap[at[i]].value].value
  <2>1. at[i] \in Range(at) /\ IsNode(at[i]) /\ Filled(u, at[i])
    BY <1>4 DEF Orderly, Kept, Range
  <2>2. at[i] \in Holding(u, at) \cap DOMAIN heap  BY <2>1 DEF Holding, IsNode
  <2>3. u \in Owner => heap[at[i]].value \in Holding(u, at) \cap DOMAIN heap
    BY <2>1 DEF Holding, Filled, IsProp
  <2> QED  BY <1>2, <2>2, <2>3
<1>6. Whole(u) => Values(u)' = Values(u)
  BY <1>1, <1>2, <1>3, <1>5, SameValues
<1> QED  BY <1>3, <1>6

(* What a step of t is, seen in the values of all lists: t's alone.        *)
LEMMA OneList ==
  ASSUME HeapInv, HeapInv', NEW t \in Thread, KeepsOthers(t)
  PROVE  /\ DOMAIN values = {u \in Thread : Whole(u)}
         /\ Whole(t) => values[t] = Values(t)
         /\ DOMAIN values' = (DOMAIN values \ {t}) \cup (IF Whole(t)' THEN {t} ELSE {})
         /\ values' = [u \in DOMAIN values' |-> IF u = t THEN Values(t)' ELSE values[u]]
<1>1. \A u \in Thread \ {t} : (Whole(u)' <=> Whole(u)) /\ (Whole(u) => Values(u)' = Values(u))
  BY OthersValues
<1>2. /\ DOMAIN values = {u \in Thread : Whole(u)} /\ DOMAIN values' = {u \in Thread : Whole(u)'}
      /\ \A u \in DOMAIN values : values[u] = Values(u)
      /\ values' = [u \in {v \in Thread : Whole(v)'} |-> Values(u)']
  BY DEF values
<1>3. Whole(t) => values[t] = Values(t)  BY <1>2
<1>4. DOMAIN values' = (DOMAIN values \ {t}) \cup (IF Whole(t)' THEN {t} ELSE {})
  BY <1>1, <1>2
<1>5. \A u \in DOMAIN values' : Values(u)' = IF u = t THEN Values(t)' ELSE values[u]
  BY <1>1, <1>2
<1>6. values' = [u \in DOMAIN values' |-> IF u = t THEN Values(t)' ELSE values[u]]
  BY <1>2, <1>5
<1> QED  BY <1>2, <1>3, <1>4, <1>6

(* Two of t's ways to change nothing.                                      *)
LEMMA NoListStutters ==
  ASSUME HeapInv, HeapInv', NEW t \in Thread, KeepsOthers(t), ~ Whole(t), ~ Whole(t)'
  PROVE  values' = values
<1>1. /\ DOMAIN values' = DOMAIN values
      /\ values' = [u \in DOMAIN values' |-> IF u = t THEN Values(t)' ELSE values[u]]
      /\ t \notin DOMAIN values
  <2>1. t \notin DOMAIN values /\ DOMAIN values' = (DOMAIN values \ {t}) \cup {}  BY OneList
  <2>2. DOMAIN values' = DOMAIN values  BY <2>1
  <2> QED  BY <2>1, <2>2, OneList
<1>2. values = [u \in DOMAIN values |-> values[u]]  BY DEF values
<1> QED  BY <1>1, <1>2

LEMMA SameListStutters ==
  ASSUME HeapInv, HeapInv', NEW t \in Thread, KeepsOthers(t), Whole(t), Whole(t)',
         Values(t)' = Values(t)
  PROVE  values' = values
<1>1. /\ DOMAIN values' = DOMAIN values
      /\ values' = [u \in DOMAIN values' |-> IF u = t THEN Values(t)' ELSE values[u]]
      /\ values[t] = Values(t)
  <2>1. t \in DOMAIN values /\ DOMAIN values' = (DOMAIN values \ {t}) \cup {t}  BY OneList
  <2>2. DOMAIN values' = DOMAIN values  BY <2>1
  <2> QED  BY <2>2, OneList
<1>2. values = [u \in DOMAIN values |-> values[u]]  BY DEF values
<1> QED  BY <1>1, <1>2

-----------------------------------------------------------------------------
(* What RemoveFirst takes out.                                             *)
LEMMA RemoveFirstSkips ==
  ASSUME NEW S, NEW s \in Seq(S), NEW v, NEW k \in 1 .. Len(s), s[k] = v,
         \A j \in 1 .. k - 1 : s[j] # v
  PROVE  RemoveFirst(s, v) = Skip(s, k)
<1> DEFINE I == {i \in 1 .. Len(s) : s[i] = v}
<1>1. Len(s) \in Nat /\ k \in I  OBVIOUS
<1>2. Min(I) = k
  <2>1. I \in SUBSET Nat /\ I # {}  BY <1>1
  <2>2. Min(I) \in I /\ \A i \in I : Min(I) <= i  BY <2>1, MinIsLeast, Zenon
  <2>3. PICK m : m = Min(I)  OBVIOUS
  <2>4. m \in 1 .. Len(s) /\ s[m] = v /\ m <= k  BY <1>1, <2>2, <2>3
  <2>5. m \notin 1 .. k - 1  BY <2>4
  <2>6. m = k  BY <1>1, <2>4, <2>5
  <2> QED  BY <2>3, <2>6
<1>3. RemoveFirst(s, v) = RemoveAt(s, Min(I))
  BY <1>1 DEF RemoveFirst, SelectInSeq
<1> DEFINE front == SubSeq(s, 1, k - 1)
           back == SubSeq(s, k + 1, Len(s))
           new == front \o back
<1>4. /\ front \in Seq(S) /\ Len(front) = k - 1 /\ \A i \in 1 .. k - 1 : front[i] = s[i]
      /\ back \in Seq(S) /\ Len(back) = Len(s) - k /\ \A i \in 1 .. Len(s) - k : back[i] = s[k + i]
  <2>1. \A i \in 1 .. k - 1 : i \in 1 .. Len(s)  BY <1>1
  <2>2. \A i \in 1 .. Len(s) - k : k + i \in 1 .. Len(s)  BY <1>1
  <2> QED  BY <1>1, <2>1, <2>2
<1> HIDE DEF front, back
<1>5. /\ new \in Seq(S) /\ Len(new) = Len(s) - 1
      /\ \A i \in 1 .. Len(s) - 1 :
           new[i] = IF i <= Len(front) THEN front[i] ELSE back[i - Len(front)]
  <2>1. Len(front) + Len(back) = Len(s) - 1  BY <1>1, <1>4
  <2>2. /\ new \in Seq(S) /\ Len(new) = Len(front) + Len(back)
        /\ \A i \in 1 .. Len(front) + Len(back) :
             new[i] = IF i <= Len(front) THEN front[i] ELSE back[i - Len(front)]
    BY <1>4, ConcatProperties, Zenon
  <2> HIDE DEF new
  <2> QED  BY <2>1, <2>2
<1> HIDE DEF new
<1>6. ASSUME NEW i \in 1 .. Len(s) - 1  PROVE new[i] = IF i < k THEN s[i] ELSE s[i + 1]
  <2>1. CASE i < k
    <3>1. i <= Len(front) /\ i \in 1 .. k - 1  BY <1>1, <1>4, <2>1
    <3> QED  BY <1>4, <1>5, <2>1, <3>1
  <2>2. CASE i >= k
    <3>1. i - Len(front) = i - k + 1 /\ i - k + 1 \in 1 .. Len(s) - k /\ k + (i - k + 1) = i + 1
          /\ ~ (i <= Len(front)) /\ ~ (i < k)
      BY <1>1, <1>4, <2>2
    <3>2. new[i] = back[i - Len(front)]  BY <1>5, <3>1
    <3> QED  BY <1>4, <3>1, <3>2
  <2> QED  BY <1>1, <2>1, <2>2
<1>7. new = Skip(s, k)
  <2>1. /\ Skip(s, k) \in Seq(S) /\ Len(Skip(s, k)) = Len(s) - 1
        /\ \A i \in 1 .. Len(s) - 1 : Skip(s, k)[i] = IF i < k THEN s[i] ELSE s[i + 1]
    BY SkipOne
  <2>2. \A i \in 1 .. Len(new) : new[i] = Skip(s, k)[i]  BY <1>5, <1>6, <2>1
  <2> QED  BY <1>5, <2>1, <2>2, SeqEqual
<1> QED  BY <1>2, <1>3, <1>7 DEF RemoveAt, front, back, new

-----------------------------------------------------------------------------
(* One action after the other: what it is to the callers.                  *)
Refines == HeapInv' /\ [L!Next]_values

LEMMA CreatedRefines ==
  ASSUME HeapInv, HeapInv', NEW t \in Thread, list_created(t)
  PROVE  [L!Next]_values
<1>1. /\ KeepsOthers(t) /\ list[t] = NoList /\ list'[t] # NoList
      /\ doing'[t] = Nothing /\ Rest(t)' = << >>
  BY ListCreatedStep
<1>2. ~ Whole(t) /\ Whole(t)'  BY <1>1 DEF Whole, Nothing
<1>3. Values(t)' = << >>
  <2>1. Orderly(t, << >>)'  BY <1>1 DEF HeapInv, InOrder
  <2>2. Values(t)' = [i \in 1 .. 0 |-> ValueAt(t, << >>[i])']
    BY <1>2, <2>1, EmptyRest, ValuesOfNodesNext DEF ValuesAre
  <2> QED  BY <2>2
<1>4. t \notin DOMAIN values /\ DOMAIN values' = DOMAIN values \cup {t}
      /\ values' = [u \in DOMAIN values' |-> IF u = t THEN << >> ELSE values[u]]
  <2>1. /\ DOMAIN values = {u \in Thread : Whole(u)}
        /\ DOMAIN values' = (DOMAIN values \ {t}) \cup {t}
        /\ values' = [u \in DOMAIN values' |-> IF u = t THEN Values(t)' ELSE values[u]]
    BY <1>1, <1>2, OneList
  <2> QED  BY <1>2, <1>3, <2>1
<1>5. L!init_list(t)  BY <1>4 DEF L!init_list, L!Becomes
<1> QED  BY <1>5 DEF L!Next

LEMMA FreeListRefines ==
  ASSUME HeapInv, HeapInv', NEW t \in Thread, free_list(t)
  PROVE  [L!Next]_values
<1>1. /\ KeepsOthers(t) /\ list[t] # NoList /\ ~ Freed(t) /\ Freed(t)'  BY FreeListStep
<1>2. Whole(t) /\ ~ Whole(t)'  BY <1>1 DEF Whole, Freed
<1>3. /\ DOMAIN values = {u \in Thread : Whole(u)}
      /\ DOMAIN values' = (DOMAIN values \ {t}) \cup {}
      /\ values' = [u \in DOMAIN values' |-> IF u = t THEN Values(t)' ELSE values[u]]
  BY <1>1, <1>2, OneList
<1>4. t \in DOMAIN values /\ values' = [u \in DOMAIN values \ {t} |-> values[u]]
  BY <1>2, <1>3
<1>5. L!free_list(t)  BY <1>4 DEF L!free_list
<1> QED  BY <1>5 DEF L!Next

(* A list of t that another takes its place in the values.                 *)
LEMMA ListBecomes ==
  ASSUME HeapInv, HeapInv', NEW t \in Thread, KeepsOthers(t), Whole(t), Whole(t)'
  PROVE  /\ t \in DOMAIN values /\ values[t] = Values(t)
         /\ L!Becomes(t, Values(t)')
<1>1. /\ DOMAIN values = {u \in Thread : Whole(u)} /\ values[t] = Values(t)
      /\ DOMAIN values' = (DOMAIN values \ {t}) \cup {t}
      /\ values' = [u \in DOMAIN values' |-> IF u = t THEN Values(t)' ELSE values[u]]
  BY OneList
<1>2. t \in DOMAIN values /\ DOMAIN values' = DOMAIN values \cup {t}  BY <1>1
<1> QED  BY <1>1, <1>2 DEF L!Becomes

(* The values of the list of t, as they are and as a sequence.             *)
LEMMA ValuesNow ==
  ASSUME HeapInv, NEW t \in Thread, Whole(t), NEW at, at = Rest(t)
  PROVE  /\ at \in Seq(Address) /\ Values(t) \in Seq(Value) /\ Len(Values(t)) = Len(at)
         /\ \A i \in 1 .. Len(at) : Values(t)[i] = ValueAt(t, at[i])
         /\ \A i \in 1 .. Len(at) : Filled(t, at[i])
<1>1. Orderly(t, at)  BY DEF HeapInv, InOrder
<1>2. at \in Seq(Address) /\ Len(at) \in Nat /\ \A i \in 1 .. Len(at) : Filled(t, at[i])
  BY <1>1 DEF Orderly, Kept
<1>3. Values(t) = [i \in 1 .. Len(at) |-> ValueAt(t, at[i])]
  BY <1>1, ValuesOfNodes DEF ValuesAre
<1>4. \A i \in 1 .. Len(at) : ValueAt(t, at[i]) \in Value
  BY <1>2 DEF ValueAt, Filled, IsProp
<1>5. Values(t) \in [1 .. Len(at) -> Value]  BY <1>3, <1>4
<1>6. Values(t) \in Seq(Value) /\ Len(Values(t)) = Len(at)  BY <1>2, <1>5
<1> QED  BY <1>2, <1>3, <1>6
LEMMA ValuesAreNow ==
  \A t \in Thread : HeapInv /\ Whole(t) =>
    /\ Rest(t) \in Seq(Address) /\ Values(t) \in Seq(Value) /\ Len(Values(t)) = Len(Rest(t))
    /\ \A i \in 1 .. Len(Rest(t)) : Values(t)[i] = ValueAt(t, Rest(t)[i])
  BY ValuesNow
LEMMA ValuesAreNext ==
  (\A t \in Thread : HeapInv /\ Whole(t) =>
     /\ Rest(t) \in Seq(Address) /\ Values(t) \in Seq(Value) /\ Len(Values(t)) = Len(Rest(t))
     /\ \A i \in 1 .. Len(Rest(t)) : Values(t)[i] = ValueAt(t, Rest(t)[i]))'
  BY ValuesAreNow, PTL

LEMMA AddedRefines ==
  ASSUME HeapInv, HeapInv', NEW t \in Thread, added(t)
  PROVE  [L!Next]_values
<1>1. PICK at : at = Rest(t)  OBVIOUS
<1>2. PICK a : a = doing[t].created  OBVIOUS
<1>3. /\ KeepsOthers(t) /\ list[t] # NoList /\ list'[t] # NoList /\ ~ Freed(t) /\ ~ Freed(t)'
      /\ Rest(t)' = Append(at, a) /\ heap'[a].value = heap[a].value /\ Filled(t, a)
      /\ \A i \in 1 .. Len(at) : heap'[at[i]].value = heap[at[i]].value
      /\ \A p : IsProp(p) => heap'[p] = heap[p]
  BY <1>1, <1>2, AddedStep
<1>4. Whole(t) /\ Whole(t)'  BY <1>3 DEF Whole, Freed
<1>5. /\ at \in Seq(Address) /\ Values(t) \in Seq(Value) /\ Len(Values(t)) = Len(at)
      /\ \A i \in 1 .. Len(at) : Values(t)[i] = ValueAt(t, at[i])
      /\ \A i \in 1 .. Len(at) : Filled(t, at[i])
  BY <1>1, <1>4, ValuesNow
<1>6. /\ Append(at, a) \in Seq(Address) /\ Values(t)' \in Seq(Value) /\ Len(Values(t)') = Len(Append(at, a))
      /\ \A i \in 1 .. Len(Append(at, a)) : Values(t)'[i] = ValueAt(t, Append(at, a)[i])'
  BY <1>3, <1>4, ValuesAreNext
<1> DEFINE n == Len(at)
           v == ValueAt(t, a)
<1>7. Len(Append(at, a)) = n + 1 /\ Append(at, a)[n + 1] = a /\ \A i \in 1 .. n : Append(at, a)[i] = at[i]
  BY <1>5
<1>8. v \in Value /\ ValueAt(t, a)' = v
  BY <1>3 DEF ValueAt, Filled, IsProp
<1>9. \A i \in 1 .. n : ValueAt(t, at[i])' = ValueAt(t, at[i])
  BY <1>3, <1>5 DEF ValueAt, Filled
<1> HIDE DEF v
<1>10. Values(t)' = Append(Values(t), v)
  <2>1. /\ Append(Values(t), v) \in Seq(Value) /\ Len(Append(Values(t), v)) = n + 1
        /\ Append(Values(t), v)[n + 1] = v /\ \A i \in 1 .. n : Append(Values(t), v)[i] = Values(t)[i]
    BY <1>5, <1>8
  <2>2. Len(Values(t)') = n + 1  BY <1>6, <1>7
  <2>3. ASSUME NEW i \in 1 .. n  PROVE Values(t)'[i] = Append(Values(t), v)[i]
    <3>1. i \in 1 .. n + 1  BY <1>5
    <3>2. Values(t)'[i] = ValueAt(t, Append(at, a)[i])'  BY <1>6, <1>7, <3>1
    <3> QED  BY <1>5, <1>7, <1>9, <2>1, <3>2
  <2>4. Values(t)'[n + 1] = v
    <3>1. n + 1 \in 1 .. n + 1  BY <1>5
    <3>2. Values(t)'[n + 1] = ValueAt(t, Append(at, a)[n + 1])'  BY <1>6, <1>7, <3>1
    <3> QED  BY <1>7, <1>8, <3>2
  <2>5. \A i \in 1 .. n + 1 : Values(t)'[i] = Append(Values(t), v)[i]
    <3>1. n \in Nat /\ \A i \in 1 .. n + 1 : i \in 1 .. n \/ i = n + 1  BY <1>5
    <3> QED  BY <2>1, <2>3, <2>4, <3>1
  <2> QED  BY <1>6, <2>1, <2>2, <2>5, SeqEqual
<1>11. t \in DOMAIN values /\ values[t] = Values(t) /\ L!Becomes(t, Values(t)')
  BY <1>3, <1>4, ListBecomes
<1>12. L!add_last(t, v)  BY <1>10, <1>11 DEF L!add_last
<1> QED  BY <1>8, <1>12 DEF L!Next

LEMMA RemoveRefines ==
  ASSUME HeapInv, HeapInv', NEW t \in Thread, NEW v \in Value, remove_element(t, v),
         Search(t, v) # NULL
  PROVE  [L!Next]_values
<1>1. PICK at : at = Rest(t)  OBVIOUS
<1>2. /\ KeepsOthers(t) /\ list[t] # NoList /\ list'[t] # NoList /\ ~ Freed(t) /\ ~ Freed(t)'
      /\ \A i \in 1 .. Len(at) : heap'[at[i]].value = heap[at[i]].value
      /\ \A p : IsProp(p) => heap'[p] = heap[p]
  BY <1>1, RemoveStep
<1>3. PICK k \in 1 .. Len(at) : Rest(t)' = Skip(at, k) /\ Found(t, at, v, k)
  BY <1>1, RemoveStep
<1>4. Whole(t) /\ Whole(t)'  BY <1>2 DEF Whole, Freed
<1>5. /\ at \in Seq(Address) /\ Values(t) \in Seq(Value) /\ Len(Values(t)) = Len(at)
      /\ \A i \in 1 .. Len(at) : Values(t)[i] = ValueAt(t, at[i])
      /\ \A i \in 1 .. Len(at) : Filled(t, at[i])
  BY <1>1, <1>4, ValuesNow
<1>6. /\ Values(t)' \in Seq(Value) /\ Len(Values(t)') = Len(Skip(at, k))
      /\ \A i \in 1 .. Len(Skip(at, k)) : Values(t)'[i] = ValueAt(t, Skip(at, k)[i])'
  BY <1>3, <1>4, ValuesAreNext
<1> DEFINE n == Len(at)
<1>7. Len(Skip(at, k)) = n - 1 /\ \A i \in 1 .. n - 1 : Skip(at, k)[i] = IF i < k THEN at[i] ELSE at[i + 1]
  BY <1>5, SkipOne
<1>8. /\ Skip(Values(t), k) \in Seq(Value) /\ Len(Skip(Values(t), k)) = n - 1
      /\ \A i \in 1 .. n - 1 :
           Skip(Values(t), k)[i] = IF i < k THEN Values(t)[i] ELSE Values(t)[i + 1]
  BY <1>5, SkipOne
<1>9. \A i \in 1 .. n : ValueAt(t, at[i])' = ValueAt(t, at[i])
  BY <1>2, <1>5 DEF ValueAt, Filled
<1>10. Values(t)' = Skip(Values(t), k)
  <2>1. ASSUME NEW i \in 1 .. n - 1  PROVE Values(t)'[i] = Skip(Values(t), k)[i]
    <3>1. PICK j \in 1 .. n : j = IF i < k THEN i ELSE i + 1  BY <1>5
    <3>2. Skip(at, k)[i] = at[j] /\ Skip(Values(t), k)[i] = Values(t)[j]  BY <1>7, <1>8, <3>1
    <3>3. Values(t)'[i] = ValueAt(t, Skip(at, k)[i])'  BY <1>6, <1>7
    <3>4. ValueAt(t, Skip(at, k)[i])' = ValueAt(t, at[j])'  BY <3>2
    <3> QED  BY <1>5, <1>9, <3>2, <3>3, <3>4
  <2> QED  BY <1>6, <1>7, <1>8, <2>1, SeqEqual
<1>11. RemoveFirst(Values(t), v) = Skip(Values(t), k)
  <2>1. Values(t)[k] = v /\ \A j \in 1 .. k - 1 : Values(t)[j] # v
    <3>1. k \in Nat /\ n \in Nat /\ \A j \in 1 .. k - 1 : j \in 1 .. n  BY <1>5
    <3> QED  BY <1>3, <1>5, <3>1 DEF Found
  <2> QED  BY <1>5, <2>1, RemoveFirstSkips
<1>12. t \in DOMAIN values /\ values[t] = Values(t) /\ L!Becomes(t, Values(t)')
  BY <1>2, <1>4, ListBecomes
<1>13. L!remove_element(t, v)
  <2>1. L!RemoveFirst(Values(t), v) = RemoveFirst(Values(t), v)
    BY Zenon DEF L!RemoveFirst, RemoveFirst, L!RemoveAt, RemoveAt, L!SelectInSeq, SelectInSeq, L!Min, Min
  <2> QED  BY <1>10, <1>11, <1>12, <2>1 DEF L!remove_element
<1> QED  BY <1>13 DEF L!Next

(* The steps that the callers do not see: blocks asked for and filled      *)
(* before they are linked, given back after they are unlinked.             *)
LEMMA SameNodes ==
  ASSUME HeapInv, HeapInv', NEW t \in Thread, list' = list, KeepsOthers(t), Rest(t)' = Rest(t),
         ~ Freed(t), ~ Freed(t)', list[t] # NoList,
         \A i \in 1 .. Len(Rest(t)) : heap'[Rest(t)[i]] = heap[Rest(t)[i]],
         \A p : IsProp(p) => heap'[p] = heap[p]
  PROVE  values' = values
<1>1. Whole(t) /\ Whole(t)'  BY DEF Whole, Freed
<1>2. PICK at : at = Rest(t)  OBVIOUS
<1>3. \A i \in 1 .. Len(at) : Filled(t, at[i])  BY <1>1, <1>2, ValuesNow
<1>4. Values(t)' = Values(t)  BY <1>1, <1>2, <1>3, SameValues DEF Filled
<1> QED  BY <1>1, <1>4, SameListStutters

LEMMA NewBlockStutters ==
  ASSUME HeapInv, HeapInv', NEW t \in Thread, list' = list, KeepsOthers(t), Rest(t)' = Rest(t),
         ~ Freed(t), ~ Freed(t)', \A a \in DOMAIN heap : heap'[a] = heap[a]
  PROVE  values' = values
<1>1. CASE list[t] = NoList
  <2>1. ~ Whole(t) /\ ~ Whole(t)'  BY <1>1 DEF Whole
  <2> QED  BY <2>1, NoListStutters
<1>2. CASE list[t] # NoList
  <2>1. \A i \in 1 .. Len(Rest(t)) : heap'[Rest(t)[i]] = heap[Rest(t)[i]]
    <3>1. Orderly(t, Rest(t))  BY SomeThread
    <3> QED  BY <3>1 DEF Orderly, Kept, IsNode
  <2>2. \A p : IsProp(p) => heap'[p] = heap[p]  BY DEF IsProp
  <2> QED  BY <1>2, <2>1, <2>2, SameNodes
<1> QED  BY <1>1, <1>2

LEMMA BlockStutters ==
  ASSUME HeapInv, HeapInv', NEW t \in Thread,
         \/ init_list(t) \/ property_created(t) \/ add_property(t)
         \/ \E v \in Value : new_property(t, v) \/ add_value(t, v)
  PROVE  values' = values
<1>1. CASE init_list(t)
  <2>1. list[t] = NoList /\ list' = list /\ KeepsOthers(t)  BY <1>1, InitListStep DEF init_list
  <2>2. ~ Whole(t) /\ ~ Whole(t)'  BY <2>1 DEF Whole
  <2> QED  BY <2>1, <2>2, NoListStutters
<1>2. CASE property_created(t)
  <2>1. heap' = heap  BY <1>2 DEF property_created
  <2> QED  BY <1>2, <2>1, PropertyCreatedStep, NewBlockStutters
<1>3. ASSUME NEW v \in Value, new_property(t, v)  PROVE values' = values
  <2>1. PICK a \in Free :
          heap' = [b \in DOMAIN heap \cup {a} |-> IF b = a THEN [size |-> PROP, value |-> v] ELSE heap[b]]
    BY <1>3, Zenon DEF new_property
  <2>2. \A b \in DOMAIN heap : heap'[b] = heap[b]  BY <2>1 DEF Free
  <2> QED  BY <1>3, <2>2, NewPropertyStep, NewBlockStutters
<1>4. ASSUME NEW value, add_last(t, value), list[t] # NoList,
             \/ t \notin Owner /\ value \in Value /\ doing[t] = Nothing
             \/ doing[t].op = "property" /\ value = doing[t].created
      PROVE  values' = values
  <2>1. PICK a \in Free :
          heap' = [b \in DOMAIN heap \cup {a} |->
                     IF b = a THEN [size |-> NODE, prev |-> NULL, value |-> value, next |-> NULL]
                     ELSE heap[b]]
    BY <1>4, Zenon DEF add_last
  <2>2. \A b \in DOMAIN heap : heap'[b] = heap[b]  BY <2>1 DEF Free
  <2>3. /\ list' = list /\ KeepsOthers(t) /\ Rest(t)' = Rest(t) /\ ~ Freed(t) /\ ~ Freed(t)'
    BY <1>4, AddLastStep
  <2> QED  BY <2>2, <2>3, NewBlockStutters
<1>5. ASSUME NEW v \in Value, add_value(t, v)  PROVE values' = values
  BY <1>4, <1>5 DEF add_value, Ready
<1>6. CASE add_property(t)
  <2>1. list[t] # NoList  BY <1>6, SomeThread DEF add_property, Orderly
  <2> QED  BY <1>4, <1>6, <2>1 DEF add_property
<1> QED  BY <1>1, <1>2, <1>3, <1>5, <1>6

LEMMA FreeingStutters ==
  ASSUME HeapInv, HeapInv', NEW t \in Thread,
         \/ free_prev(t) \/ free_current(t) \/ free_itself(t) \/ block_freed(t)
  PROVE  values' = values
<1>1. KeepsOthers(t)
  BY FreePrevStep, FreeItselfStep, BlockFreedStep DEF FreesOn
<1>2. ~ Whole(t)
  BY DEF Whole, free_prev, free_current, free_itself, Freeing, block_freed
<1>3. ~ Whole(t)'
  BY FreePrevStep, FreeItselfStep, BlockFreedStep DEF FreesOn, Whole, Freed
<1> QED  BY <1>1, <1>2, <1>3, NoListStutters

(* A call of the allocator on its way, and nothing at all.                 *)
LEMMA CallStutters ==
  ASSUME HeapInv, HeapInv', UNCHANGED <<heap, list, doing>>,
         \A t \in Thread : Rest(t)' = Rest(t)
  PROVE  values' = values
<1>1. \A t \in Thread : Whole(t)' <=> Whole(t)  BY DEF Whole
<1>2. ASSUME NEW t \in Thread, Whole(t)  PROVE Values(t)' = Values(t)
  BY <1>1, <1>2, SameValues
<1> QED  BY <1>1, <1>2 DEF values

LEMMA ElementRemovedStutters ==
  ASSUME HeapInv, HeapInv', NEW t \in Thread, element_removed(t)
  PROVE  values' = values
  BY ElementRemovedStep, SameNodes

LEMMA ListsStep == HeapInv /\ HeapInv' /\ [Next]_vars => [L!Next]_values
<1> SUFFICES ASSUME HeapInv, HeapInv', [Next]_vars  PROVE [L!Next]_values  OBVIOUS
<1>1. ASSUME NEW t \in Thread, list_created(t) \/ added(t) \/ free_list(t)  PROVE [L!Next]_values
  BY <1>1, CreatedRefines, AddedRefines, FreeListRefines
<1>2. ASSUME NEW t \in Thread, NEW v \in Value, remove_element(t, v)  PROVE [L!Next]_values
  <2>1. CASE Search(t, v) # NULL  BY <1>2, <2>1, RemoveRefines
  <2>2. CASE Search(t, v) = NULL
    <3>1. UNCHANGED vars  BY <1>2, <2>2 DEF remove_element, vars
    <3>2. \A u \in Thread : Rest(u)' = Rest(u)  BY <3>1, HeapStays
    <3> QED  BY <3>1, <3>2, CallStutters DEF vars
  <2> QED  BY <2>1, <2>2
<1>3. ASSUME NEW t \in Thread,
             \/ init_list(t) \/ property_created(t) \/ add_property(t)
             \/ \E v \in Value : new_property(t, v) \/ add_value(t, v)
      PROVE  [L!Next]_values
  BY <1>3, BlockStutters
<1>4. ASSUME NEW t \in Thread, element_removed(t)  PROVE [L!Next]_values
  BY <1>4, ElementRemovedStutters
<1>5. ASSUME NEW t \in Thread, free_prev(t) \/ free_current(t) \/ free_itself(t) \/ block_freed(t)
      PROVE  [L!Next]_values
  BY <1>5, FreeingStutters
<1>6. ASSUME NEW t \in Thread, block_free(t) \/ within_call(t)  PROVE [L!Next]_values
  <2>1. UNCHANGED <<heap, list, doing>> /\ KeepsOthers(t) /\ Rest(t)' = Rest(t)
    BY <1>6, InCalls DEF block_free, within_call
  <2>2. \A u \in Thread : Rest(u)' = Rest(u)  BY <2>1 DEF KeepsOthers
  <2> QED  BY <2>1, <2>2, CallStutters
<1>7. CASE UNCHANGED vars
  <2>1. \A u \in Thread : Rest(u)' = Rest(u)  BY <1>7, HeapStays
  <2> QED  BY <1>7, <2>1, CallStutters DEF vars
<1> QED  BY <1>1, <1>2, <1>3, <1>4, <1>5, <1>6, <1>7 DEF Next

LEMMA ListsInit == Init => L!Init
<1> SUFFICES ASSUME Init  PROVE L!Init  OBVIOUS
<1>1. \A t \in Thread : ~ Whole(t)  BY DEF Init, Whole
<1>2. values = << >>
  <2>1. DOMAIN values = {}  BY <1>1 DEF values
  <2>2. values = [u \in DOMAIN values |-> values[u]]  BY DEF values
  <2> QED  BY <2>1, <2>2
<1> QED  BY <1>2 DEF L!Init

(* Every list is the sequence that its callers take it for: added to at    *)
(* its end, the first that is found taken out, gone when it is freed       *)
(* (add_last, remove_element, free_list), whatever other threads do to     *)
(* the heap in between.                                                    *)
THEOREM ImplementsLists == Spec => Implements
<1>1. Init => L!Init  BY ListsInit
<1>2. HeapInv /\ HeapInv' /\ [Next]_vars => [L!Next]_values  BY ListsStep
<1> QED  BY <1>1, <1>2, HeapInvariant, PTL DEF Spec, Implements, L!Spec

-----------------------------------------------------------------------------
(* No list is longer than there are places in the heap: its nodes are all  *)
(* different; and while it is freed its size stays what it was.            *)
SizeBound == \A t \in Thread : list[t] # NoList => list[t].size <= Cardinality(Address)
SizesKnown ==
  \A t \in Thread : Orderly(t, Rest(t)) /\ list[t] # NoList /\ ~ Freed(t) =>
    list[t].size <= Cardinality(Address)
LEMMA NodesFit == SizesKnown
<1> SUFFICES ASSUME NEW t \in Thread, Orderly(t, Rest(t)), list[t] # NoList, ~ Freed(t)
             PROVE  list[t].size <= Cardinality(Address)
  BY DEF SizesKnown
<1>1. PICK at : at = Rest(t)  OBVIOUS
<1>2. /\ at \in Seq(Address) /\ Len(at) = list[t].size
      /\ \A i, j \in 1 .. Len(at) : at[i] = at[j] => i = j
  BY <1>1 DEF Orderly, Joined, Count, Kept
<1> DEFINE n == Len(at)
<1>3. n \in Nat /\ IsFiniteSet(1 .. n) /\ Cardinality(1 .. n) = n
  <2>1. n \in Nat  BY <1>2
  <2> HIDE DEF n
  <2>2. IsFiniteSet(1 .. n) /\ Cardinality(1 .. n) = IF 1 > n THEN 0 ELSE n - 1 + 1
    BY <2>1, FS_Interval
  <2>3. (IF 1 > n THEN 0 ELSE n - 1 + 1) = n  BY <2>1
  <2> QED  BY <2>1, <2>2, <2>3
<1>4. at \in Injection(1 .. n, Address)
  BY <1>2 DEF Injection, IsInjective
<1>5. Cardinality(1 .. n) <= Cardinality(Address)
  BY <1>4, LinkedListAssumption, FS_Injection, Zenon
<1> QED  BY <1>2, <1>3, <1>5
LEMMA NodesFitNext == SizesKnown'
  BY NodesFit, PTL

LEMMA SizeStep == HeapInv /\ HeapInv' /\ SizeBound /\ [Next]_vars => SizeBound'
<1> SUFFICES ASSUME HeapInv, HeapInv', SizeBound, [Next]_vars, NEW u \in Thread,
                    list'[u] # NoList
             PROVE  list'[u].size <= Cardinality(Address)
  BY DEF SizeBound
<1>1. CASE ~ Freed(u)'
  <2>1. Orderly(u, Rest(u))'  BY DEF HeapInv, InOrder
  <2> QED  BY <1>1, <2>1, NodesFitNext DEF SizesKnown
<1>2. CASE list'[u] = list[u]  BY <1>2 DEF SizeBound
<1>3. ~ Freed(u)' \/ list'[u] = list[u]
  <2>1. list \in [Thread -> {NoList} \cup ListRecords] /\ doing \in [Thread -> Doings]
    BY DEF HeapInv, HeapTyped
  <2>2. ASSUME NEW t \in Thread, list_created(t) \/ added(t) \/ \E v \in Value : remove_element(t, v)
        PROVE  ~ Freed(u)' \/ list'[u] = list[u]
    <3>1. CASE u = t
      BY <2>1, <2>2, <3>1 DEF list_created, added, remove_element, Does, Freed, Nothing
    <3>2. CASE u # t
      BY <2>1, <2>2, <3>2 DEF list_created, added, remove_element, Sets
    <3> QED  BY <3>1, <3>2
  <2>3. ASSUME NEW t \in Thread, block_freed(t)  PROVE list'[u] = list[u]
    BY <2>1, <2>3 DEF block_freed, Sets
  <2>4. ASSUME NEW t \in Thread,
               \/ init_list(t) \/ property_created(t) \/ add_property(t) \/ element_removed(t)
               \/ \E v \in Value : new_property(t, v) \/ add_value(t, v)
               \/ free_list(t) \/ free_prev(t) \/ free_current(t) \/ free_itself(t)
               \/ block_free(t) \/ within_call(t)
        PROVE  list' = list
    BY <2>4, Zenon DEF init_list, property_created, add_property, element_removed, new_property, add_value,
       add_last, free_list, free_prev, free_current, free_itself, block_free, within_call
  <2> QED  BY <2>2, <2>3, <2>4 DEF Next, vars
<1> QED  BY <1>1, <1>2, <1>3

(* The types, with the size of a list: at most the number of places of the *)
(* heap, while lists are built, taken from and freed (add_last,            *)
(* remove_element, free_list).                                             *)
THEOREM TypeCorrect == Spec => []TypeOK
<1>1. Init => SizeBound  BY DEF Init, SizeBound
<1>2. HeapInv /\ HeapInv' /\ SizeBound /\ [Next]_vars => SizeBound'  BY SizeStep
<1>3. HeapInv /\ SizeBound => TypeOK
  <2> SUFFICES ASSUME HeapInv, SizeBound  PROVE TypeOK  OBVIOUS
  <2>1. AllocTypeOK /\ DOMAIN heap \subseteq Address  BY DEF HeapInv, HeapTyped
  <2>2. Cardinality(Address) \in Nat  BY LinkedListAssumption, FS_CardinalityType
  <2>3. ASSUME NEW t \in Thread, list[t] # NoList
        PROVE  list[t] \in [at : Address, first : Address \cup {NULL}, last : Address \cup {NULL},
                            size : 0 .. Cardinality(Address)]
    <3>1. list[t] \in ListRecords /\ list[t].size <= Cardinality(Address)
      BY <2>3 DEF HeapInv, HeapTyped, SizeBound
    <3>2. list[t].size \in 0 .. Cardinality(Address)  BY <2>2, <3>1 DEF ListRecords
    <3> QED  BY <3>1, <3>2 DEF ListRecords
  <2> QED  BY <2>1, <2>3 DEF TypeOK
<1> QED  BY <1>1, <1>2, <1>3, HeapInvariant, PTL DEF Spec
=============================================================================
