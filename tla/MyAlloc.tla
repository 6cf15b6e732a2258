------------------------------ MODULE MyAlloc ------------------------------
(***************************************************************************)
(* The counting allocator (my_alloc.c), whose totals server_main.c and     *)
(* client_main.c print when they end.  Its three counters are static and   *)
(* nothing guards them, while every thread of the server allocates, most   *)
(* of the time without the mutex (parse_client_xml_request, match results, *)
(* manage_connections): a counter is loaded in one step and stored in      *)
(* another, and what other threads stored between is lost.                 *)
(***************************************************************************)
EXTENDS Integers

CONSTANTS
  Thread,
  ULLONG    \* 2^64, where unsigned long long wraps around

ASSUME MyAllocAssumption == ULLONG \in Nat \ {0}

VARIABLES
  all, current, max,          \* _my_alloc_all, _my_alloc_current, _my_alloc_max
  call,                       \* thread -> where it is in its call, the size
                              \* asked for or given back, what it has loaded
  asked, held, peak, raced    \* history: bytes asked for so far, held now, held
                              \* at most; whether two calls ever overlapped
counters == <<all, current, max>>
alloc_vars == <<counters, call, asked, held, peak, raced>>

Counter == 0 .. ULLONG - 1
Plus(a, b) == IF a + b < ULLONG THEN a + b ELSE a + b - ULLONG

(* Seeded fault: a counter that may fall below 0.                          *)
Minus_Signed(a, b) == a - b

Minus(a, b) == IF a >= b THEN a - b ELSE a - b + ULLONG

Idle == [at |-> "idle", size |-> 0, loaded |-> 0]

init_alloc ==
  /\ all = 0 /\ current = 0 /\ max = 0
  /\ call = [t \in Thread |-> Idle]
  /\ asked = 0 /\ held = 0 /\ peak = 0 /\ raced = FALSE

-----------------------------------------------------------------------------
(* A call.  Memory ends long before the counters do.                       *)
Enter(t, at, size) ==
  /\ call[t] = Idle
  /\ call' = [call EXCEPT ![t] = [at |-> at, size |-> size, loaded |-> 0]]
  /\ raced' = (raced \/ \E u \in Thread \ {t} : call[u] # Idle)
  /\ UNCHANGED <<counters, asked>>

my_alloc(t, size) ==
  /\ asked + size < ULLONG /\ held + size < ULLONG
  /\ Enter(t, "load all", size)
  /\ held' = held + size
  /\ peak' = IF peak < held + size THEN held + size ELSE peak

my_free(t, size) ==
  /\ size \in 0 .. held
  /\ Enter(t, "load current to free", size)
  /\ held' = held - size
  /\ UNCHANGED peak

(* One step within a call: on to the next place, with a value loaded.      *)
Step(t, from, to, loaded) ==
  /\ call[t].at = from
  /\ call' = [call EXCEPT ![t].at = to, ![t].loaded = loaded]
  /\ UNCHANGED <<held, peak, raced>>
Load(t, from, to, loaded) == Step(t, from, to, loaded) /\ UNCHANGED <<counters, asked>>

(* Seeded fault: the head in front of each block is counted too.           *)
store_all_WithHead(t) ==
  /\ Step(t, "store all", "load current", 0)
  /\ all' = Plus(call[t].loaded, call[t].size + 1)
  /\ asked' = asked + call[t].size
  /\ UNCHANGED <<current, max>>

(* _my_alloc_all += size; _my_alloc_current += size;                       *)
load_all(t) == Load(t, "load all", "store all", all)
store_all(t) ==
  /\ Step(t, "store all", "load current", 0)
  /\ all' = Plus(call[t].loaded, call[t].size)
  /\ asked' = asked + call[t].size
  /\ UNCHANGED <<current, max>>
load_current(t) == Load(t, "load current", "store current", current)
store_current(t) ==
  /\ Step(t, "store current", "load max", 0)
  /\ current' = Plus(call[t].loaded, call[t].size)
  /\ UNCHANGED <<all, max, asked>>

(* if (_my_alloc_max < _my_alloc_current) _my_alloc_max = _my_alloc_current *)
load_max(t) == Load(t, "load max", "compare", max)
compare(t) == Load(t, "compare", IF call[t].loaded < current THEN "load new max" ELSE "return", 0)
load_new_max(t) == Load(t, "load new max", "store max", current)
store_max(t) ==
  /\ Step(t, "store max", "return", 0)
  /\ max' = call[t].loaded
  /\ UNCHANGED <<all, current, asked>>

(* Seeded fault: what is given back is never subtracted.                   *)
store_freed_Kept(t) ==
  /\ Step(t, "store freed", "return", 0)
  /\ current' = call[t].loaded
  /\ UNCHANGED <<all, max, asked>>

(* _my_alloc_current -= head->size;                                        *)
load_freed(t) == Load(t, "load current to free", "store freed", current)
store_freed(t) ==
  /\ Step(t, "store freed", "return", 0)
  /\ current' = Minus(call[t].loaded, call[t].size)
  /\ UNCHANGED <<all, max, asked>>

Within(t) ==
  \/ load_all(t) \/ store_all(t) \/ load_current(t) \/ store_current(t)
  \/ load_max(t) \/ compare(t) \/ load_new_max(t) \/ store_max(t)
  \/ load_freed(t) \/ store_freed(t)

Return(t) ==
  /\ call[t].at = "return"
  /\ call' = [call EXCEPT ![t] = Idle]
  /\ UNCHANGED <<counters, asked, held, peak, raced>>

(* The allocator with callers of which nothing is known.                   *)
AllocNext ==
  \E t \in Thread :
    \/ \E size \in Counter : my_alloc(t, size) \/ my_free(t, size)
    \/ Within(t) \/ Return(t)
AllocSpec == init_alloc /\ [][AllocNext]_alloc_vars

-----------------------------------------------------------------------------
Adding == {"load all", "store all", "load current", "store current", "load max", "compare",
           "load new max", "store max"}
Places == Adding \cup {"idle", "load current to free", "store freed", "return"}
AllocTypeOK ==
  /\ all \in Counter /\ current \in Counter /\ max \in Counter
  /\ call \in [Thread -> [at : Places, size : Counter, loaded : Counter]]
  /\ asked \in Nat /\ held \in Counter /\ peak \in Counter /\ raced \in BOOLEAN

(* The total that is printed may miss what threads allocated at the same   *)
(* time, but it is never more than what was asked for, however the threads *)
(* overwrite each other's sums (my_alloc).                                 *)
NeverMore == all <= asked

(* The three numbers printed are exact whenever no call is under way, as   *)
(* long as no two calls ever overlapped: in the client, which has one      *)
(* thread, always (my_alloc, my_free).                                     *)
ExactUnlessRaced ==
  ~ raced /\ (\A t \in Thread : call[t] = Idle) =>
    all = asked /\ current = held /\ max = peak
=============================================================================
