-------------------------- MODULE LinkedListProofs --------------------------
(***************************************************************************)
(* Theorems about the counters of the allocator, for any number of threads *)
(* and any width of the counters: first about MyAlloc by itself, then      *)
(* about the lists, every step of which is a step of the allocator or      *)
(* leaves it alone.                                                        *)
(***************************************************************************)
EXTENDS LinkedList, TLAPS

-----------------------------------------------------------------------------
(* What a thread in a call relies on.  Of the total: what it has loaded is *)
(* no more than what was asked for by then.  Of all three counters, as     *)
(* long as calls have not overlapped: how far its call has come.           *)
LoadedNoMore ==
  \A t \in Thread : call[t].at = "store all" => call[t].loaded <= asked

Alone(t) == \A u \in Thread \ {t} : call[u] = Idle
PeakToCome == peak = IF max < held THEN held ELSE max
Exact == all = asked /\ current = held /\ max = peak

Reached(t) ==
  LET at == call[t].at  size == call[t].size  loaded == call[t].loaded
  IN /\ all = asked
     /\ at \in {"load all", "store all"} => asked + size < ULLONG /\ held <= asked + size
     /\ at \notin {"load all", "store all"} => held <= asked
     /\ at \in {"load all", "store all", "load current", "store current"} => current + size = held
     /\ at \in {"load max", "compare", "load new max", "store max", "return"} => current = held
     /\ at \in {"load current to free", "store freed"} => current = held + size
     /\ at \in {"load all", "store all", "load current", "store current", "load max", "compare"}
          => PeakToCome
     /\ at \in {"load new max", "store max"} => peak = held
     /\ at \in {"load current to free", "store freed", "return"} => max = peak
     /\ at = "store all" => loaded = all
     /\ at \in {"store current", "store freed"} => loaded = current
     /\ at = "compare" => loaded = max
     /\ at = "store max" => loaded = held

InTurn ==
  ~ raced =>
    /\ \A t \in Thread : call[t] # Idle => Alone(t) /\ Reached(t)
    /\ (\A t \in Thread : call[t] = Idle) => Exact /\ held <= asked

AllocInv == AllocTypeOK /\ NeverMore /\ LoadedNoMore /\ InTurn

LEMMA Sums ==
  ASSUME NEW a \in Counter, NEW b \in Counter
  PROVE  /\ Plus(a, b) \in Counter /\ Plus(a, b) <= a + b
         /\ a + b < ULLONG => Plus(a, b) = a + b
         /\ Minus(a, b) \in Counter
         /\ b <= a => Minus(a, b) = a - b
         /\ a + b < ULLONG => a + b \in Counter
         /\ b \in 0 .. a => a - b \in Counter
         /\ \A n \in Nat : n + a \in Nat
  BY MyAllocAssumption DEF Plus, Minus, Counter

(* A step of a call keeps its thread where it is known to be.              *)
LEMMA StepType ==
  ASSUME AllocTypeOK, NEW t \in Thread, NEW from, NEW to \in Places, NEW loaded \in Counter,
         Step(t, from, to, loaded)
  PROVE  /\ call' \in [Thread -> [at : Places, size : Counter, loaded : Counter]]
         /\ call'[t].at = to /\ call'[t].loaded = loaded /\ call'[t].size = call[t].size
         /\ \A u \in Thread \ {t} : call'[u] = call[u]
         /\ call[t].at = from /\ call[t].size \in Counter /\ call[t].loaded \in Counter
         /\ held' = held /\ peak' = peak /\ raced' = raced
  BY DEF AllocTypeOK, Step

LEMMA StartType ==
  ASSUME AllocTypeOK, NEW t \in Thread, NEW at \in Places, NEW size \in Counter,
         Enter(t, at, size)
  PROVE  /\ call' \in [Thread -> [at : Places, size : Counter, loaded : Counter]]
         /\ call'[t].at = at /\ call'[t].size = size
         /\ \A u \in Thread \ {t} : call'[u] = call[u]
         /\ call[t] = Idle
         /\ raced' = (raced \/ \E u \in Thread \ {t} : call[u] # Idle)
         /\ all' = all /\ current' = current /\ max' = max /\ asked' = asked
  BY MyAllocAssumption DEF AllocTypeOK, Enter, counters, Counter, Idle

LEMMA AllocTypeStep == AllocTypeOK /\ [AllocNext]_alloc_vars => AllocTypeOK'
<1> SUFFICES ASSUME AllocTypeOK, [AllocNext]_alloc_vars  PROVE AllocTypeOK'  OBVIOUS
<1> 0 \in Counter  BY MyAllocAssumption DEF Counter
<1>1. ASSUME NEW t \in Thread, NEW size \in Counter, my_alloc(t, size)  PROVE AllocTypeOK'
  <2>1. Enter(t, "load all", size) /\ "load all" \in Places  BY <1>1 DEF my_alloc, Places, Adding
  <2>2. held + size \in Counter /\ held' = held + size
    BY <1>1, Sums DEF my_alloc, AllocTypeOK
  <2>3. raced' \in BOOLEAN  BY <2>1 DEF Enter
  <2> QED  BY <1>1, <2>1, <2>2, <2>3, StartType DEF my_alloc, AllocTypeOK
<1>2. ASSUME NEW t \in Thread, NEW size \in Counter, my_free(t, size)  PROVE AllocTypeOK'
  <2>1. Enter(t, "load current to free", size) /\ "load current to free" \in Places
    BY <1>2 DEF my_free, Places
  <2>2. held' \in Counter  BY <1>2, Sums DEF my_free, AllocTypeOK
  <2>3. raced' \in BOOLEAN  BY <2>1 DEF Enter
  <2> QED  BY <1>2, <2>1, <2>2, <2>3, StartType DEF my_free, AllocTypeOK
<1>3. ASSUME NEW t \in Thread, NEW from, NEW to \in Places, NEW loaded \in Counter,
             Load(t, from, to, loaded)
      PROVE  AllocTypeOK'
  <2>1. Step(t, from, to, loaded)  BY <1>3 DEF Load
  <2> QED  BY <2>1, <1>3, StepType DEF Load, counters, AllocTypeOK
<1>4. ASSUME NEW t \in Thread, store_all(t)  PROVE AllocTypeOK'
  <2>1. Step(t, "store all", "load current", 0) /\ "load current" \in Places
    BY <1>4 DEF store_all, Places, Adding
  <2>2. all' \in Counter /\ asked' \in Nat
    BY <1>4, <2>1, StepType, Sums DEF store_all, AllocTypeOK
  <2> QED  BY <2>1, <2>2, <1>4, StepType DEF store_all, AllocTypeOK
<1>5. ASSUME NEW t \in Thread, store_current(t)  PROVE AllocTypeOK'
  <2>1. Step(t, "store current", "load max", 0) /\ "load max" \in Places
    BY <1>5 DEF store_current, Places, Adding
  <2> QED  BY <2>1, <1>5, StepType, Sums DEF store_current, AllocTypeOK
<1>6. ASSUME NEW t \in Thread, store_max(t)  PROVE AllocTypeOK'
  <2>1. Step(t, "store max", "return", 0) /\ "return" \in Places
    BY <1>6 DEF store_max, Places, Adding
  <2> QED  BY <2>1, <1>6, StepType DEF store_max, AllocTypeOK
<1>7. ASSUME NEW t \in Thread, store_freed(t)  PROVE AllocTypeOK'
  <2>1. Step(t, "store freed", "return", 0) /\ "return" \in Places
    BY <1>7 DEF store_freed, Places, Adding
  <2> QED  BY <2>1, <1>7, StepType, Sums DEF store_freed, AllocTypeOK
<1>8. ASSUME NEW t \in Thread, Return(t)  PROVE AllocTypeOK'
  BY <1>8 DEF Return, AllocTypeOK, counters, Idle, Places
<1>9. CASE UNCHANGED alloc_vars  BY <1>9 DEF alloc_vars, counters, AllocTypeOK
<1>10. ASSUME NEW t \in Thread,
              load_all(t) \/ load_current(t) \/ load_max(t) \/ compare(t) \/ load_new_max(t)
                \/ load_freed(t)
       PROVE  AllocTypeOK'
  <2>1. \E from, to, loaded :
          to \in Places /\ loaded \in Counter /\ Load(t, from, to, loaded)
    <3> all \in Counter /\ current \in Counter /\ max \in Counter  BY DEF AllocTypeOK
    <3> {"store all", "store current", "compare", "load new max", "return", "store max",
         "store freed"} \subseteq Places  BY DEF Places, Adding
    <3> QED  BY <1>10 DEF load_all, load_current, load_max, compare, load_new_max, load_freed
  <2> QED  BY <1>3, <2>1
<1> QED  BY <1>1, <1>2, <1>4, <1>5, <1>6, <1>7, <1>8, <1>9, <1>10 DEF AllocNext, Within

-----------------------------------------------------------------------------
(* The total is never more than what was asked for: every store adds to    *)
(* what was loaded, and what was loaded was no more than what was asked    *)
(* for then.                                                               *)
LEMMA Naturals ==
  ASSUME AllocTypeOK
  PROVE  /\ all \in Nat /\ current \in Nat /\ max \in Nat
         /\ asked \in Nat /\ held \in Nat /\ peak \in Nat
         /\ \A t \in Thread : call[t].size \in Nat /\ call[t].loaded \in Nat
<1>1. Counter \subseteq Nat  BY MyAllocAssumption DEF Counter
<1>2. \A t \in Thread : call[t].size \in Counter /\ call[t].loaded \in Counter
  BY DEF AllocTypeOK
<1> QED  BY <1>1, <1>2 DEF AllocTypeOK

LEMMA ZeroCounts == 0 \in Counter
  BY MyAllocAssumption DEF Counter

LEMMA Chain ==
  ASSUME NEW a \in Nat, NEW b \in Nat, NEW c \in Nat, a <= b, b <= c
  PROVE  a <= c
  OBVIOUS

LEMMA MinusOfSum ==
  ASSUME NEW a \in Counter, NEW b \in Counter
  PROVE  Minus(a + b, b) = a
  BY MyAllocAssumption DEF Minus, Counter

LEMMA MoreOfBoth ==
  ASSUME NEW a \in Nat, NEW b \in Nat, NEW c \in Nat, a <= b
  PROVE  a + c <= b + c
  OBVIOUS

LEMMA LessOfOne ==
  ASSUME NEW a \in Nat, NEW b \in Nat, NEW c \in 0 .. a, a <= b
  PROVE  a = a - c + c /\ a - c <= b
  OBVIOUS

LEMMA TotalStep ==
  ASSUME AllocTypeOK, AllocTypeOK', NeverMore, LoadedNoMore, [AllocNext]_alloc_vars
  PROVE  NeverMore' /\ LoadedNoMore'
<1>1. /\ all \in Nat /\ asked \in Nat /\ all' \in Nat /\ asked' \in Nat
      /\ \A t \in Thread : call[t].size \in Nat /\ call[t].loaded \in Nat
      /\ \A t \in Thread : call'[t].loaded \in Nat
  <2>1. ASSUME AllocTypeOK'
        PROVE  all' \in Nat /\ asked' \in Nat /\ \A t \in Thread : call'[t].loaded \in Nat
    <3>1. Counter \subseteq Nat  BY MyAllocAssumption DEF Counter
    <3>2. \A t \in Thread : call'[t].loaded \in Counter  BY <2>1 DEF AllocTypeOK
    <3> QED  BY <2>1, <3>1, <3>2 DEF AllocTypeOK
  <2> QED  BY <2>1, Naturals
<1>2. ASSUME NEW t \in Thread, \A u \in Thread \ {t} : call'[u] = call[u],
             call'[t].at = "store all" => call'[t].loaded <= asked,
             asked <= asked', all' <= asked'
      PROVE  NeverMore' /\ LoadedNoMore'
  <2>1. ASSUME NEW u \in Thread, call'[u].at = "store all"  PROVE call'[u].loaded <= asked'
    <3>1. call'[u].loaded <= asked
      <4>1. CASE u = t  BY <1>2, <2>1, <4>1, Zenon
      <4>2. CASE u # t
        <5>1. call'[u] = call[u]  BY <1>2, <4>2, Zenon
        <5> QED  BY <2>1, <5>1, Zenon DEF LoadedNoMore
      <4> QED  BY <4>1, <4>2
    <3> QED  BY <1>1, <1>2, <3>1, Chain, Zenon
  <2> QED  BY <1>2, <2>1 DEF NeverMore, LoadedNoMore
<1>12. ASSUME NEW t \in Thread, \A u \in Thread \ {t} : call'[u] = call[u],
              call'[t].at = "store all" => call'[t].loaded <= asked,
              asked' = asked, all' = all
       PROVE  NeverMore' /\ LoadedNoMore'
  <2>1. asked <= asked /\ all <= asked  BY <1>1 DEF NeverMore
  <2>2. asked <= asked' /\ all' <= asked'  BY <2>1, <1>12, Zenon
  <2> QED  BY <1>2, <1>12, <2>2
<1>3. ASSUME NEW t \in Thread, NEW size \in Counter, my_alloc(t, size) \/ my_free(t, size)
      PROVE  NeverMore' /\ LoadedNoMore'
  <2>1. PICK at \in Places : at # "store all" /\ Enter(t, at, size)
    BY <1>3 DEF my_alloc, my_free, Places, Adding
  <2>2. call'[t].at # "store all" /\ (\A u \in Thread \ {t} : call'[u] = call[u])
        /\ asked' = asked /\ all' = all
    BY <2>1, StartType
  <2> QED  BY <2>2, <1>12
<1>4. ASSUME NEW t \in Thread, NEW from, NEW to \in Places, NEW loaded \in Counter,
             Step(t, from, to, loaded), to # "store all", asked' = asked, all' = all
      PROVE  NeverMore' /\ LoadedNoMore'
  <2>1. call'[t].at = to /\ (\A u \in Thread \ {t} : call'[u] = call[u])
    BY <1>4 DEF Step, AllocTypeOK
  <2> QED  BY <2>1, <1>4, <1>12
<1>5. ASSUME NEW t \in Thread, load_all(t)  PROVE NeverMore' /\ LoadedNoMore'
  <2>1. Step(t, "load all", "store all", all) /\ "store all" \in Places /\ all \in Counter
    BY <1>5 DEF load_all, Load, Places, Adding, AllocTypeOK
  <2>2. call'[t].loaded = all /\ (\A u \in Thread \ {t} : call'[u] = call[u])
    BY <2>1 DEF Step, AllocTypeOK
  <2>3. asked' = asked /\ all' = all  BY <1>5 DEF load_all, Load, counters
  <2>4. call'[t].at = "store all" => call'[t].loaded <= asked  BY <2>2 DEF NeverMore
  <2> QED  BY <2>2, <2>3, <2>4, <1>12, Zenon
<1>6. ASSUME NEW t \in Thread, store_all(t)  PROVE NeverMore' /\ LoadedNoMore'
  <2>1. Step(t, "store all", "load current", 0) /\ "load current" \in Places
    BY <1>6 DEF store_all, Places, Adding
  <2>2. call'[t].at = "load current" /\ (\A u \in Thread \ {t} : call'[u] = call[u])
        /\ call[t].at = "store all" /\ call[t].size \in Counter /\ call[t].loaded \in Counter
    BY <2>1, StepType, ZeroCounts
  <2>3. call[t].loaded <= asked  BY <2>2, Zenon DEF LoadedNoMore
  <2>4. all' <= call[t].loaded + call[t].size /\ asked' = asked + call[t].size
    BY <1>6, <2>2, Sums DEF store_all
  <2>5. asked <= asked' /\ all' <= asked'
    <3> DEFINE loaded == call[t].loaded
               size == call[t].size
    <3>1. loaded \in Nat /\ size \in Nat /\ loaded <= asked
          /\ all' <= loaded + size /\ asked' = asked + size
      BY <1>1, <2>3, <2>4, Zenon
    <3> HIDE DEF loaded, size
    <3> QED  BY <1>1, <3>1
  <2> QED  BY <2>2, <2>5, <1>2
<1>7. ASSUME NEW t \in Thread, store_current(t) \/ store_max(t) \/ store_freed(t)
      PROVE  NeverMore' /\ LoadedNoMore'
  <2>1. PICK from : \E to \in Places : Step(t, from, to, 0) /\ to # "store all"
    BY <1>7 DEF store_current, store_max, store_freed, Places, Adding
  <2>2. all' = all /\ asked' = asked
    BY <1>7 DEF store_current, store_max, store_freed
  <2> QED  BY <2>1, <2>2, <1>4, ZeroCounts
<1>8. ASSUME NEW t \in Thread, Return(t)  PROVE NeverMore' /\ LoadedNoMore'
  <2>1. call'[t].at = "idle" /\ (\A u \in Thread \ {t} : call'[u] = call[u])
        /\ all' = all /\ asked' = asked
    BY <1>8 DEF Return, Idle, AllocTypeOK, counters
  <2> QED  BY <2>1, <1>12
<1>9. CASE UNCHANGED alloc_vars
  BY <1>9 DEF alloc_vars, counters, NeverMore, LoadedNoMore
<1>10. ASSUME NEW t \in Thread,
              load_current(t) \/ load_max(t) \/ compare(t) \/ load_new_max(t) \/ load_freed(t)
       PROVE  NeverMore' /\ LoadedNoMore'
  <2>1. \E from, to, loaded :
          to \in Places /\ loaded \in Counter /\ Load(t, from, to, loaded) /\ to # "store all"
    <3> current \in Counter /\ max \in Counter /\ 0 \in Counter
      BY ZeroCounts DEF AllocTypeOK
    <3> {"store current", "compare", "load new max", "return", "store max",
         "store freed"} \subseteq Places  BY DEF Places, Adding
    <3> QED  BY <1>10 DEF load_current, load_max, compare, load_new_max, load_freed
  <2> QED  BY <1>4, <2>1 DEF Load, counters
<1> QED  BY <1>3, <1>5, <1>6, <1>7, <1>8, <1>9, <1>10 DEF AllocNext, Within

-----------------------------------------------------------------------------
(* As long as calls have not overlapped, a call goes through its places    *)
(* alone and each finds the counters as the place before left them.        *)
LEMMA ExactStep ==
  ASSUME AllocTypeOK, AllocTypeOK', InTurn, [AllocNext]_alloc_vars
  PROVE  InTurn'
<1> SUFFICES ASSUME ~ raced'  PROVE InTurn'  BY DEF InTurn
<1>2. ~ raced
  BY DEF AllocNext, Within, my_alloc, my_free, Enter, load_all, store_all, load_current,
         store_current, load_max, compare, load_new_max, store_max, load_freed, store_freed,
         Load, Step, Return, alloc_vars
<1>3. ASSUME NEW t \in Thread, NEW at \in Places, NEW size \in Counter, Enter(t, at, size)
      PROVE  /\ Exact /\ held <= asked
             /\ call'[t].at = at /\ call'[t].size = size
             /\ \A u \in Thread \ {t} : call'[u] = Idle
             /\ all' = all /\ current' = current /\ max' = max /\ asked' = asked
  <2>1. /\ \A u \in Thread \ {t} : call'[u] = call[u]
        /\ \A u \in Thread \ {t} : call[u] = Idle
        /\ call[t] = Idle
        /\ call'[t].at = at /\ call'[t].size = size
        /\ all' = all /\ current' = current /\ max' = max /\ asked' = asked
    BY <1>3, StartType
  <2>2. \A u \in Thread : call[u] = Idle  BY <2>1
  <2> QED  BY <1>2, <2>1, <2>2 DEF InTurn
<1>4. ASSUME NEW t \in Thread, call'[t] # Idle, \A u \in Thread \ {t} : call'[u] = Idle,
             Reached(t)'
      PROVE  InTurn'
  <2>1. \A u \in Thread : call'[u] # Idle => u = t  BY <1>4
  <2>2. Alone(t)'  BY <1>4 DEF Alone
  <2> QED  BY <1>4, <2>1, <2>2 DEF InTurn
<1>5. ASSUME NEW t \in Thread, NEW size \in Counter, my_alloc(t, size)  PROVE InTurn'
  <2>1. Enter(t, "load all", size) /\ "load all" \in Places  BY <1>5 DEF my_alloc, Places, Adding
  <2>2. /\ Exact /\ held <= asked
        /\ call'[t].at = "load all" /\ call'[t].size = size
        /\ \A u \in Thread \ {t} : call'[u] = Idle
        /\ all' = all /\ current' = current /\ max' = max /\ asked' = asked
    BY <2>1, <1>3
  <2>3. held' = held + size /\ asked + size < ULLONG
        /\ peak' = IF peak < held + size THEN held + size ELSE peak
    BY <1>5 DEF my_alloc
  <2>4. all' = asked' /\ current' + size = held' /\ asked' + size < ULLONG /\ PeakToCome'
    BY <2>2, <2>3, Zenon DEF Exact, PeakToCome
  <2>5. held' <= asked' + size
    <3>1. held \in Nat /\ asked \in Nat /\ size \in Nat
      BY Naturals, MyAllocAssumption DEF Counter
    <3>2. held + size <= asked + size  BY <2>2, <3>1, MoreOfBoth, Zenon
    <3> QED  BY <2>2, <2>3, <3>2, Zenon
  <2>6. Reached(t)'  BY <2>2, <2>4, <2>5 DEF Reached
  <2>7. call'[t] # Idle
    <3>1. Idle.at = "idle"  BY DEF Idle
    <3> QED  BY <2>2, <3>1
  <2> QED  BY <1>4, <2>2, <2>6, <2>7
<1>6. ASSUME NEW t \in Thread, NEW size \in Counter, my_free(t, size)  PROVE InTurn'
  <2>1. Enter(t, "load current to free", size) /\ "load current to free" \in Places
    BY <1>6 DEF my_free, Places
  <2>2. /\ Exact /\ held <= asked
        /\ call'[t].at = "load current to free" /\ call'[t].size = size
        /\ \A u \in Thread \ {t} : call'[u] = Idle
        /\ all' = all /\ current' = current /\ max' = max /\ asked' = asked
    BY <2>1, <1>3
  <2>3. held' = held - size /\ size \in 0 .. held /\ peak' = peak  BY <1>6 DEF my_free
  <2>4. held = held' + size /\ held' <= asked
    <3>1. held \in Nat /\ asked \in Nat /\ size \in 0 .. held /\ held <= asked
      BY <2>2, <2>3, Naturals, Zenon
    <3>2. held = held - size + size /\ held - size <= asked
      BY <3>1, LessOfOne
    <3> QED  BY <2>3, <3>2, Zenon
  <2>5. all' = asked' /\ current' = held' + size /\ held' <= asked' /\ max' = peak'
    BY <2>2, <2>3, <2>4, Zenon DEF Exact
  <2>6. Reached(t)'  BY <2>2, <2>5 DEF Reached
  <2>7. call'[t] # Idle
    <3>1. Idle.at = "idle"  BY DEF Idle
    <3> QED  BY <2>2, <3>1
  <2> QED  BY <1>4, <2>2, <2>6, <2>7
<1>7. ASSUME NEW t \in Thread, Return(t)  PROVE InTurn'
  <2>1. call[t].at = "return" /\ call[t] # Idle  BY <1>7 DEF Return, Idle
  <2>2. Reached(t) /\ Alone(t)  BY <1>2, <2>1 DEF InTurn
  <2>3. Exact /\ held <= asked  BY <2>1, <2>2 DEF Reached, Exact
  <2>4. \A u \in Thread : call'[u] = Idle  BY <1>7, <2>2 DEF Return, Alone, AllocTypeOK
  <2> QED  BY <1>7, <2>3, <2>4 DEF Return, InTurn, Exact, counters
<1>9. CASE UNCHANGED alloc_vars
  BY <1>9 DEF alloc_vars, counters, InTurn, Reached, Alone, Exact, PeakToCome
<1>10. ASSUME NEW t \in Thread, Within(t)  PROVE InTurn'
  <2>1. call[t].at \notin {"idle", "return"} /\ call[t] # Idle
    <3>1. call[t].at \in (Adding \cup {"load current to free", "store freed"})
      BY <1>10 DEF Within, load_all, store_all, load_current, store_current, load_max, compare,
         load_new_max, store_max, load_freed, store_freed, Load, Step, Adding
    <3>2. call[t].at \notin {"idle", "return"}  BY <3>1 DEF Adding
    <3>3. Idle.at = "idle"  BY DEF Idle
    <3> QED  BY <3>2, <3>3
  <2>2. Reached(t) /\ \A u \in Thread \ {t} : call[u] = Idle
    BY <1>2, <2>1 DEF InTurn, Alone
  <2>3. ASSUME NEW from, NEW to \in Places, NEW loaded \in Counter, to # "idle",
               Step(t, from, to, loaded), Reached(t)'
        PROVE  InTurn'
    <3>1. call'[t].at = to /\ \A u \in Thread \ {t} : call'[u] = call[u]
      BY <2>3 DEF Step, AllocTypeOK
    <3>2. call'[t] # Idle
      <4>1. Idle.at = "idle"  BY DEF Idle
      <4> QED  BY <2>3, <3>1, <4>1
    <3> QED  BY <1>4, <2>2, <2>3, <3>1, <3>2
  <2>4. CASE load_all(t)
    <3>1. Step(t, "load all", "store all", all) /\ "store all" \in Places /\ all \in Counter
          /\ UNCHANGED <<counters, asked>>
      BY <2>4 DEF load_all, Load, Places, Adding, AllocTypeOK
    <3>2. call'[t].at = "store all" /\ call'[t].loaded = all /\ call'[t].size = call[t].size
          /\ call[t].at = "load all" /\ held' = held /\ peak' = peak
      BY <3>1 DEF Step, AllocTypeOK
    <3>3. Reached(t)'  BY <2>2, <3>1, <3>2 DEF Reached, counters, PeakToCome
    <3> QED  BY <2>3, <3>1, <3>3
  <2>5. CASE load_current(t)
    <3>1. Step(t, "load current", "store current", current) /\ "store current" \in Places /\ current \in Counter
          /\ UNCHANGED <<counters, asked>>
      BY <2>5 DEF load_current, Load, Places, Adding, AllocTypeOK
    <3>2. call'[t].at = "store current" /\ call'[t].loaded = current /\ call'[t].size = call[t].size
          /\ call[t].at = "load current" /\ held' = held /\ peak' = peak
      BY <3>1 DEF Step, AllocTypeOK
    <3>3. Reached(t)'  BY <2>2, <3>1, <3>2 DEF Reached, counters, PeakToCome
    <3> QED  BY <2>3, <3>1, <3>3
  <2>6. CASE load_max(t)
    <3>1. Step(t, "load max", "compare", max) /\ "compare" \in Places /\ max \in Counter
          /\ UNCHANGED <<counters, asked>>
      BY <2>6 DEF load_max, Load, Places, Adding, AllocTypeOK
    <3>2. call'[t].at = "compare" /\ call'[t].loaded = max /\ call'[t].size = call[t].size
          /\ call[t].at = "load max" /\ held' = held /\ peak' = peak
      BY <3>1 DEF Step, AllocTypeOK
    <3>3. Reached(t)'  BY <2>2, <3>1, <3>2 DEF Reached, counters, PeakToCome
    <3> QED  BY <2>3, <3>1, <3>3
  <2>7. CASE load_new_max(t)
    <3>1. Step(t, "load new max", "store max", current) /\ "store max" \in Places /\ current \in Counter
          /\ UNCHANGED <<counters, asked>>
      BY <2>7 DEF load_new_max, Load, Places, Adding, AllocTypeOK
    <3>2. call'[t].at = "store max" /\ call'[t].loaded = current /\ call'[t].size = call[t].size
          /\ call[t].at = "load new max" /\ held' = held /\ peak' = peak
      BY <3>1 DEF Step, AllocTypeOK
    <3>3. Reached(t)'  BY <2>2, <3>1, <3>2 DEF Reached, counters, PeakToCome
    <3> QED  BY <2>3, <3>1, <3>3
  <2>8. CASE load_freed(t)
    <3>1. Step(t, "load current to free", "store freed", current) /\ "store freed" \in Places /\ current \in Counter
          /\ UNCHANGED <<counters, asked>>
      BY <2>8 DEF load_freed, Load, Places, Adding, AllocTypeOK
    <3>2. call'[t].at = "store freed" /\ call'[t].loaded = current /\ call'[t].size = call[t].size
          /\ call[t].at = "load current to free" /\ held' = held /\ peak' = peak
      BY <3>1 DEF Step, AllocTypeOK
    <3>3. Reached(t)'  BY <2>2, <3>1, <3>2 DEF Reached, counters, PeakToCome
    <3> QED  BY <2>3, <3>1, <3>3
  <2>9. CASE compare(t)
    <3>1. call[t].at = "compare"  BY <2>9 DEF compare, Load, Step
    <3>2. call[t].loaded = max /\ current = held /\ PeakToCome /\ all = asked /\ held <= asked
      BY <2>2, <3>1 DEF Reached
    <3>3. CASE max < current
      <4>1. Step(t, "compare", "load new max", 0) /\ "load new max" \in Places
            /\ UNCHANGED <<counters, asked>>
        BY <2>9, <3>2, <3>3 DEF compare, Load, Places, Adding
      <4>2. call'[t].at = "load new max" /\ held' = held /\ peak' = peak
        BY <4>1, ZeroCounts, StepType, Zenon
      <4>3. peak = held  BY <3>2, <3>3, Zenon DEF PeakToCome
      <4>4. Reached(t)'  BY <3>2, <4>1, <4>2, <4>3 DEF Reached, counters
      <4> QED  BY <2>3, <4>1, <4>4, ZeroCounts
    <3>4. CASE ~ (max < current)
      <4>1. Step(t, "compare", "return", 0) /\ "return" \in Places
            /\ UNCHANGED <<counters, asked>>
        BY <2>9, <3>2, <3>4 DEF compare, Load, Places
      <4>2. call'[t].at = "return" /\ held' = held /\ peak' = peak
        BY <4>1, ZeroCounts, StepType, Zenon
      <4>3. max = peak  BY <3>2, <3>4, Zenon DEF PeakToCome
      <4>4. Reached(t)'  BY <3>2, <4>1, <4>2, <4>3 DEF Reached, counters
      <4> QED  BY <2>3, <4>1, <4>4, ZeroCounts
    <3> QED  BY <3>3, <3>4
  <2>10. CASE store_all(t)
    <3>1. Step(t, "store all", "load current", 0) /\ "load current" \in Places
          /\ all' = Plus(call[t].loaded, call[t].size) /\ asked' = asked + call[t].size
          /\ current' = current /\ max' = max
      BY <2>10 DEF store_all, Places, Adding
    <3>2. /\ call'[t].at = "load current" /\ call'[t].size = call[t].size
          /\ call[t].at = "store all" /\ held' = held /\ peak' = peak
          /\ call[t].size \in Counter
      BY <3>1, ZeroCounts, StepType, Zenon
    <3>3. /\ call[t].loaded = all /\ all = asked
          /\ asked + call[t].size < ULLONG /\ held <= asked + call[t].size
          /\ current + call[t].size = held /\ PeakToCome
      BY <2>2, <3>2 DEF Reached
    <3>4. all \in Counter  BY DEF AllocTypeOK
    <3>5. Plus(all, call[t].size) = all + call[t].size  BY <3>2, <3>3, <3>4, Sums, Zenon
    <3>6. all' = asked' /\ held' <= asked'  BY <3>1, <3>2, <3>3, <3>5, Zenon
    <3>7. Reached(t)'  BY <3>1, <3>2, <3>3, <3>6 DEF Reached, PeakToCome
    <3> QED  BY <2>3, <3>1, <3>7, ZeroCounts
  <2>11. CASE store_current(t)
    <3>1. Step(t, "store current", "load max", 0) /\ "load max" \in Places
          /\ current' = Plus(call[t].loaded, call[t].size)
          /\ all' = all /\ max' = max /\ asked' = asked
      BY <2>11 DEF store_current, Places, Adding
    <3>2. /\ call'[t].at = "load max" /\ call[t].at = "store current"
          /\ held' = held /\ peak' = peak /\ call[t].size \in Counter
      BY <3>1, ZeroCounts, StepType, Zenon
    <3>3. /\ call[t].loaded = current /\ all = asked /\ held <= asked
          /\ current + call[t].size = held /\ PeakToCome
      BY <2>2, <3>2 DEF Reached
    <3>4. current \in Counter /\ held < ULLONG
      BY MyAllocAssumption DEF AllocTypeOK, Counter
    <3>5. Plus(current, call[t].size) = current + call[t].size
      BY <3>2, <3>3, <3>4, Sums, Zenon
    <3>6. current' = held'  BY <3>1, <3>2, <3>3, <3>5, Zenon
    <3>7. Reached(t)'  BY <3>1, <3>2, <3>3, <3>6 DEF Reached, PeakToCome
    <3> QED  BY <2>3, <3>1, <3>7, ZeroCounts
  <2>12. CASE store_max(t)
    <3>1. Step(t, "store max", "return", 0) /\ "return" \in Places
          /\ max' = call[t].loaded /\ all' = all /\ current' = current /\ asked' = asked
      BY <2>12 DEF store_max, Places
    <3>2. call'[t].at = "return" /\ call[t].at = "store max" /\ held' = held /\ peak' = peak
      BY <3>1, ZeroCounts, StepType, Zenon
    <3>3. /\ call[t].loaded = held /\ peak = held /\ all = asked /\ held <= asked
          /\ current = held
      BY <2>2, <3>2 DEF Reached
    <3>4. max' = peak' /\ current' = held'  BY <3>1, <3>2, <3>3, Zenon
    <3>5. Reached(t)'  BY <3>1, <3>2, <3>3, <3>4 DEF Reached
    <3> QED  BY <2>3, <3>1, <3>5, ZeroCounts
  <2>13. CASE store_freed(t)
    <3>1. Step(t, "store freed", "return", 0) /\ "return" \in Places
          /\ current' = Minus(call[t].loaded, call[t].size)
          /\ all' = all /\ max' = max /\ asked' = asked
      BY <2>13 DEF store_freed, Places
    <3>2. /\ call'[t].at = "return" /\ call[t].at = "store freed"
          /\ held' = held /\ peak' = peak /\ call[t].size \in Counter
      BY <3>1, ZeroCounts, StepType, Zenon
    <3>3. /\ call[t].loaded = current /\ all = asked /\ held <= asked
          /\ current = held + call[t].size /\ max = peak
      BY <2>2, <3>2 DEF Reached
    <3>4. current \in Counter /\ held \in Counter  BY DEF AllocTypeOK
    <3>5. Minus(held + call[t].size, call[t].size) = held
      BY <3>2, <3>4, MinusOfSum, Zenon
    <3>6. current' = held' /\ max' = peak'  BY <3>1, <3>2, <3>3, <3>5, Zenon
    <3>7. Reached(t)'  BY <3>1, <3>2, <3>3, <3>6 DEF Reached
    <3> QED  BY <2>3, <3>1, <3>7, ZeroCounts
  <2> QED  BY <1>10, <2>4, <2>5, <2>6, <2>7, <2>8, <2>9, <2>10, <2>11, <2>12, <2>13 DEF Within
<1> QED  BY <1>5, <1>6, <1>7, <1>9, <1>10 DEF AllocNext

-----------------------------------------------------------------------------
(* Every step of the lists is one of the allocator, as far as the counters *)
(* are concerned, or leaves it alone.                                      *)
LEMMA ListsAllocate ==
  ASSUME AllocTypeOK, [Next]_vars
  PROVE  [AllocNext]_alloc_vars
<1>1. LIST \in Counter /\ NODE \in Counter /\ PROP \in Counter
  BY LinkedListAssumption, MyAllocAssumption DEF Counter
<1>2. 0 .. held \subseteq Counter  BY MyAllocAssumption DEF AllocTypeOK, Counter
<1>3. ASSUME NEW t \in Thread, NEW size, my_free(t, size)  PROVE AllocNext
  <2>1. size \in Counter  BY <1>2, <1>3 DEF my_free
  <2> QED  BY <1>3, <2>1 DEF AllocNext
<1>4. ASSUME NEW t \in Thread, NEW size \in Counter, my_alloc(t, size)  PROVE AllocNext
  BY <1>4 DEF AllocNext
<1>5. ASSUME NEW t \in Thread, Within(t) \/ Return(t)  PROVE AllocNext
  BY <1>5 DEF AllocNext
<1>6. ASSUME NEW t \in Thread, NEW v,
             \/ init_list(t) \/ new_property(t, v) \/ add_value(t, v) \/ add_property(t)
      PROVE  AllocNext
  BY <1>1, <1>4, <1>6 DEF init_list, new_property, add_value, add_property, add_last
<1>7. ASSUME NEW t \in Thread, NEW v, remove_element(t, v)  PROVE [AllocNext]_alloc_vars
  BY <1>3, <1>7 DEF remove_element
<1>8. ASSUME NEW t \in Thread, block_free(t)  PROVE AllocNext
  BY <1>3, <1>8 DEF block_free
<1>9. ASSUME NEW t \in Thread,
             \/ list_created(t) \/ property_created(t) \/ added(t) \/ element_removed(t)
             \/ block_freed(t) \/ within_call(t)
      PROVE  AllocNext
  BY <1>5, <1>9 DEF list_created, property_created, added, element_removed, block_freed,
     within_call
<1>10. ASSUME NEW t \in Thread,
              free_list(t) \/ free_prev(t) \/ free_current(t) \/ free_itself(t)
       PROVE  UNCHANGED alloc_vars
  BY <1>10 DEF free_list, free_prev, free_current, free_itself
<1>11. CASE UNCHANGED vars  BY <1>11 DEF vars
<1> QED  BY <1>6, <1>7, <1>8, <1>9, <1>10, <1>11 DEF Next

LEMMA AllocInvInit == init_alloc => AllocInv
<1> SUFFICES ASSUME init_alloc  PROVE AllocInv  OBVIOUS
<1>1. all = 0 /\ current = 0 /\ max = 0 /\ asked = 0 /\ held = 0 /\ peak = 0
      /\ \A t \in Thread : call[t] = Idle
  BY DEF init_alloc
<1>2. AllocTypeOK
  <2>1. Idle \in [at : Places, size : Counter, loaded : Counter]
    BY ZeroCounts DEF Idle, Places
  <2> QED  BY <2>1, ZeroCounts DEF init_alloc, AllocTypeOK
<1>3. NeverMore  BY <1>1 DEF NeverMore
<1>4. LoadedNoMore
  <2>1. Idle.at # "store all"  BY DEF Idle
  <2> QED  BY <1>1, <2>1, Zenon DEF LoadedNoMore
<1>5. InTurn  BY <1>1 DEF InTurn, Exact
<1> QED  BY <1>2, <1>3, <1>4, <1>5 DEF AllocInv

LEMMA AllocInvStep == AllocInv /\ [AllocNext]_alloc_vars => AllocInv'
  BY AllocTypeStep, TotalStep, ExactStep DEF AllocInv

LEMMA AllocInvExact == AllocInv => ExactUnlessRaced
  BY DEF AllocInv, InTurn, Exact, ExactUnlessRaced

LEMMA AllocInvAlways == Spec => []AllocInv
<1>1. Init => AllocInv  BY AllocInvInit DEF Init
<1>2. AllocInv /\ [Next]_vars => AllocInv'
  BY ListsAllocate, AllocInvStep DEF AllocInv
<1> QED  BY <1>1, <1>2, PTL DEF Spec

(* The lists use the allocator only through my_alloc and my_free: what is  *)
(* proved of MyAlloc, whoever calls it, holds of the lists.                *)
THEOREM ListsImplementAllocator == Spec => AllocSpec
<1>1. Init => init_alloc  BY DEF Init
<1>2. AllocInv /\ [Next]_vars => [AllocNext]_alloc_vars  BY ListsAllocate DEF AllocInv
<1> QED  BY <1>1, <1>2, AllocInvAlways, PTL DEF Spec, AllocSpec

(* Of any number of threads that allocate at the same time, none makes the *)
(* printed total more than what was asked for (my_alloc).                  *)
THEOREM NeverMoreHolds == Spec => []NeverMore
<1>1. AllocInv => NeverMore  BY DEF AllocInv
<1> QED  BY <1>1, AllocInvAlways, PTL

(* The counters are exact at the end of every call, as long as no two      *)
(* calls overlapped (my_alloc, my_free).                                   *)
THEOREM ExactHolds == Spec => []ExactUnlessRaced
  BY AllocInvAlways, AllocInvExact, PTL
=============================================================================
