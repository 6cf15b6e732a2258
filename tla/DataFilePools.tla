---------------------------- MODULE DataFilePools ----------------------------
(***************************************************************************)
(* Theorems about the blocks of the data file and about the pool of its    *)
(* nodes, for every size of the blocks, any commands, and a process that   *)
(* may be killed or stopped wherever no new block, or node, is on its way  *)
(* into the file.                                                          *)
(***************************************************************************)
EXTENDS DataFileProofs, DataFileHistory, WellFoundedInduction

-----------------------------------------------------------------------------
(* What the control block says of the blocks: those below empty_block are  *)
(* in use and no other is, prev_node_block is the last of the node blocks, *)
(* and each node block leads to the last one before it.                    *)
LatestBelow(f, e, q) ==
  /\ q \in 0 .. e - 1
  /\ q # 0 => f[q].type = "NODE"
  /\ \A b \in Block : q < b /\ b < e => f[b].type # "NODE"
Linked(f, e, q) ==
  /\ LatestBelow(f, e, q)
  /\ \A b \in Block : b < e =>
       /\ f[b].type # "ABSENT"
       /\ f[b].type = "NODE" => LatestBelow(f, b, f[b].prev_block)
AbsentFrom(f, e) == \A b \in Block : b >= e => f[b].type = "ABSENT"
SoundFile(f) ==
  f[0].type = "CONTROL" => /\ Linked(f, f[0].empty_block, f[0].prev_node_block)
                           /\ AbsentFrom(f, f[0].empty_block)

-----------------------------------------------------------------------------
(* The scan of the node blocks.  First, that the recursive definition      *)
(* defines a function: with n node blocks above it, a node block is met at *)
(* step n + 1.                                                             *)
Above(f, b) == {c \in Block : f[c].type = "NODE" /\ b < c}
IsScan(f, s) ==
  s = [k \in Nat |->
        IF k = 0 THEN {0}
        ELSE {0} \cup {b \in {BlockAfter(f, a) : a \in s[k - 1]} : f[b].type = "NODE"}]
MetBy(f, k) == {0} \cup {b \in Block : f[b].type = "NODE" /\ Cardinality(Above(f, b)) < k}

(* A set of numbers that is not empty has a least one.                     *)
LEMMA LeastNumber ==
  ASSUME NEW S \in SUBSET Nat, S # {}
  PROVE  \E m \in S : \A k \in S : m <= k
<1> DEFINE R == StrictSubsetOrdering(Nat)
           F == FiniteSubsetsOf(Nat)
           T == {0 .. n : n \in S}
<1>1. IsWellFoundedOn(R, F)  BY FS_StrictSubsetOrderingWellFounded, Zenon
<1>2. T \subseteq F
  <2>1. ASSUME NEW n \in S  PROVE 0 .. n \in F
    <3>1. IsFiniteSet(0 .. n)  BY FS_Interval
    <3> QED  BY <3>1 DEF FiniteSubsetsOf
  <2> QED  BY <2>1
<1>3. T # {}  OBVIOUS
<1> HIDE DEF R, F, T
<1>4. PICK t \in T : \A u \in T : ~ (<<u, t>> \in R)  BY <1>1, <1>2, <1>3, WFMin, Zenon
<1>5. PICK m \in S : t = 0 .. m  BY DEF T
<1>6. ASSUME NEW k \in S, k < m  PROVE FALSE
  <2>1. 0 .. k \in T  BY DEF T
  <2>2. 0 .. k \subseteq 0 .. m /\ m \in 0 .. m /\ m \notin 0 .. k  BY <1>6
  <2>3. << 0 .. k, 0 .. m >> \in R  BY <2>2 DEF R, StrictSubsetOrdering
  <2> QED  BY <2>1, <2>3, <1>4, <1>5
<1> QED  BY <1>6

LEMMA BlocksFinite ==
  /\ 0 \in Block /\ Block \subseteq Nat
  /\ \A S \in SUBSET Block : IsFiniteSet(S) /\ Cardinality(S) \in Nat
<1>1. IsFiniteSet(Block)  BY LayoutAssumption, FS_Interval DEF Block
<1>2. \A S \in SUBSET Block : IsFiniteSet(S)  BY <1>1, FS_Subset
<1> QED  BY <1>2, FS_CardinalityType, LayoutAssumption DEF Block

(* Between a node block and the one it leads to there is no other.         *)
LEMMA AboveNext ==
  ASSUME NEW f, NEW b \in Block, NEW e \in Block, LatestBelow(f, e, b), b # 0,
         f[e].type = "NODE"
  PROVE  Cardinality(Above(f, b)) = Cardinality(Above(f, e)) + 1
<1>1. Above(f, b) = Above(f, e) \cup {e}
  <2>1. ASSUME NEW c \in Block
        PROVE  c \in Above(f, b) <=> c \in Above(f, e) \cup {e}
    BY <2>1, LayoutAssumption DEF Above, LatestBelow, Block
  <2> QED  BY <2>1 DEF Above
<1>2. e \notin Above(f, e) /\ IsFiniteSet(Above(f, e))
  BY BlocksFinite DEF Above
<1> QED  BY <1>1, <1>2, FS_AddElement

LEMMA AboveLast ==
  ASSUME NEW f, NEW e \in Nat, NEW b \in Block, AbsentFrom(f, e), LatestBelow(f, e, b)
  PROVE  Above(f, b) = {} /\ Cardinality(Above(f, b)) = 0
<1>1. ASSUME NEW c \in Block, f[c].type = "NODE", b < c  PROVE FALSE
  <2>1. c \in Nat /\ b \in Nat  BY LayoutAssumption DEF Block
  <2>2. c < e  BY <1>1, <2>1 DEF AbsentFrom
  <2> QED  BY <1>1, <2>2 DEF LatestBelow
<1>2. Above(f, b) = {}  BY <1>1 DEF Above
<1> QED  BY <1>2, FS_EmptySet

(* A file as the code leaves it, with what the scan reads of it.           *)
Scannable(f, e) ==
  /\ e \in 1 .. MAX_BLOCKS
  /\ f[0].type # "NODE"
  /\ f[0].prev_node_block \in Block
  /\ Linked(f, e, f[0].prev_node_block)
  /\ AbsentFrom(f, e)

LEMMA MetNext ==
  ASSUME NEW f, NEW e, Scannable(f, e), NEW k \in Nat, k # 0
  PROVE  MetBy(f, k) =
           {0} \cup {b \in {BlockAfter(f, a) : a \in MetBy(f, k - 1)} : f[b].type = "NODE"}
<1> DEFINE q == f[0].prev_node_block
           After == {b \in {BlockAfter(f, a) : a \in MetBy(f, k - 1)} : f[b].type = "NODE"}
<1>1. /\ 0 \in Block /\ \A b \in Block : b \in Nat
      /\ e \in Nat /\ q \in Block /\ LatestBelow(f, e, q) /\ f[0].type # "NODE"
  BY LayoutAssumption DEF Block, Scannable, Linked
<1>2. \A b \in Block : f[b].type = "NODE" => b < e /\ b # 0 /\ LatestBelow(f, b, f[b].prev_block)
  BY <1>1 DEF Scannable, Linked, AbsentFrom
<1>3. \A b \in Block : Cardinality(Above(f, b)) \in Nat
  BY BlocksFinite DEF Above
<1>4. ASSUME NEW a \in MetBy(f, k - 1), f[BlockAfter(f, a)].type = "NODE"
      PROVE  BlockAfter(f, a) \in MetBy(f, k)
  <2>1. CASE a = 0
    <3>1. BlockAfter(f, a) = q  BY <2>1 DEF BlockAfter
    <3>2. Cardinality(Above(f, q)) = 0  BY <1>1, AboveLast DEF Scannable
    <3> QED  BY <1>1, <1>4, <3>1, <3>2 DEF MetBy
  <2>2. CASE a # 0
    <3> DEFINE b == f[a].prev_block
    <3>1. a \in Block /\ f[a].type = "NODE" /\ Cardinality(Above(f, a)) < k - 1
      BY <2>2 DEF MetBy
    <3>2. BlockAfter(f, a) = b  BY <2>2 DEF BlockAfter
    <3>3. LatestBelow(f, a, b)  BY <1>2, <3>1
    <3>4. b \in Block /\ b # 0
      BY <1>1, <1>4, <3>1, <3>2, <3>3, LayoutAssumption DEF LatestBelow, Block
    <3>5. Cardinality(Above(f, b)) = Cardinality(Above(f, a)) + 1
      BY <3>1, <3>3, <3>4, AboveNext
    <3>6. Cardinality(Above(f, b)) < k  BY <1>3, <3>1, <3>5
    <3> QED  BY <1>4, <3>2, <3>4, <3>6 DEF MetBy
  <2> QED  BY <2>1, <2>2
<1>5. ASSUME NEW b \in Block, f[b].type = "NODE", Cardinality(Above(f, b)) < k
      PROVE  \E a \in MetBy(f, k - 1) : b = BlockAfter(f, a)
  <2>1. CASE b = q
    <3>1. 0 \in MetBy(f, k - 1)  BY DEF MetBy
    <3> QED  BY <2>1, <3>1 DEF BlockAfter
  <2>2. CASE b # q
    <3>1. b < q /\ f[q].type = "NODE"
      BY <1>1, <1>2, <1>5, <2>2 DEF LatestBelow
    <3>2. Above(f, b) # {} /\ Above(f, b) \in SUBSET Nat  BY <1>1, <3>1 DEF Above
    <3>3. PICK a \in Above(f, b) : \A c \in Above(f, b) : a <= c
      BY <3>2, LeastNumber, Zenon
    <3>4. a \in Block /\ f[a].type = "NODE" /\ b < a /\ LatestBelow(f, a, f[a].prev_block)
      BY <1>2, <3>3 DEF Above
    <3>5. f[a].prev_block = b
      <4> DEFINE p == f[a].prev_block
      <4>1. p \in 0 .. a - 1 /\ p \in Block
        BY <1>1, <3>4, LayoutAssumption DEF LatestBelow, Block
      <4>2. ~ (p < b)  BY <1>1, <1>5, <3>4, <4>1 DEF LatestBelow
      <4>3. ~ (b < p)
        <5>1. SUFFICES ASSUME b < p  PROVE FALSE  OBVIOUS
        <5>2. f[p].type = "NODE"  BY <1>1, <3>4, <4>1, <5>1 DEF LatestBelow
        <5>3. p \in Above(f, b)  BY <4>1, <5>1, <5>2 DEF Above
        <5> QED  BY <1>1, <3>3, <3>4, <4>1, <5>3
      <4> QED  BY <1>1, <4>1, <4>2, <4>3
    <3>6. b = BlockAfter(f, a)  BY <1>2, <3>4, <3>5 DEF BlockAfter
    <3>7. Cardinality(Above(f, b)) = Cardinality(Above(f, a)) + 1
      BY <1>2, <1>5, <3>4, <3>5, AboveNext
    <3>8. Cardinality(Above(f, a)) < k - 1  BY <1>3, <1>5, <3>4, <3>7
    <3>9. a \in MetBy(f, k - 1)  BY <3>4, <3>8 DEF MetBy
    <3> QED  BY <3>6, <3>9
  <2> QED  BY <2>1, <2>2
<1>6. ASSUME NEW b \in MetBy(f, k)  PROVE b \in {0} \cup After
  <2>1. CASE b = 0  BY <2>1
  <2>2. CASE b # 0
    <3>1. b \in Block /\ f[b].type = "NODE" /\ Cardinality(Above(f, b)) < k
      BY <1>6, <2>2 DEF MetBy
    <3>2. PICK a \in MetBy(f, k - 1) : b = BlockAfter(f, a)  BY <1>5, <3>1
    <3> QED  BY <3>1, <3>2
  <2> QED  BY <2>1, <2>2
<1>7. ASSUME NEW b \in {0} \cup After  PROVE b \in MetBy(f, k)
  <2>1. CASE b = 0  BY <2>1 DEF MetBy
  <2>2. CASE b \in After  BY <1>4, <2>2
  <2> QED  BY <2>1, <2>2
<1> QED  BY <1>6, <1>7

LEMMA ScanIs ==
  ASSUME NEW f, NEW e, Scannable(f, e)
  PROVE  NodeBlocks(f) = MetBy(f, MAX_BLOCKS)
<1> DEFINE met == [k \in Nat |-> MetBy(f, k)]
           s == CHOOSE t : IsScan(f, t)
<1>1. NodeBlocks(f) = s[MAX_BLOCKS]  BY DEF NodeBlocks, IsScan
<1>2. MetBy(f, 0) = {0}
  <2>1. ASSUME NEW b \in Block, Cardinality(Above(f, b)) < 0  PROVE FALSE
    <3>1. Cardinality(Above(f, b)) \in Nat  BY BlocksFinite DEF Above
    <3> QED  BY <2>1, <3>1
  <2> QED  BY <2>1 DEF MetBy
<1>3. IsScan(f, met)
  <2>1. ASSUME NEW k \in Nat
        PROVE  met[k] = IF k = 0 THEN {0}
                        ELSE {0} \cup {b \in {BlockAfter(f, a) : a \in met[k - 1]} : f[b].type = "NODE"}
    <3>1. CASE k = 0  BY <1>2, <3>1
    <3>2. CASE k # 0
      <4>1. met[k] = MetBy(f, k) /\ met[k - 1] = MetBy(f, k - 1)  BY <3>2
      <4> QED  BY <3>2, <4>1, MetNext
    <3> QED  BY <3>1, <3>2
  <2> HIDE DEF met
  <2>2. met = [k \in Nat |-> met[k]]  BY DEF met
  <2> QED  BY <2>1, <2>2 DEF IsScan
<1>4. IsScan(f, s)  BY <1>3, Zenon
<1> HIDE DEF s
<1> DEFINE S == {k \in Nat : s[k] # met[k]}
<1>5. S = {}
  <2>1. SUFFICES ASSUME S # {}  PROVE FALSE  OBVIOUS
  <2>2. PICK k \in S : \A j \in S : k <= j  BY <2>1, LeastNumber, Zenon
  <2>3. k # 0  BY <1>2, <1>4, <2>2 DEF IsScan
  <2>4. k \in Nat /\ k - 1 \in Nat /\ s[k - 1] = met[k - 1]  BY <2>2, <2>3
  <2>5. s[k] = met[k]
    <3>1. s[k] = {0} \cup {b \in {BlockAfter(f, a) : a \in s[k - 1]} : f[b].type = "NODE"}
      BY <1>4, <2>3, <2>4 DEF IsScan
    <3>2. met[k] = {0} \cup {b \in {BlockAfter(f, a) : a \in met[k - 1]} : f[b].type = "NODE"}
      BY <1>3, <2>3, <2>4 DEF IsScan
    <3> QED  BY <2>4, <3>1, <3>2
  <2> QED  BY <2>2, <2>5
<1>6. MAX_BLOCKS \in Nat  BY LayoutAssumption
<1> QED  BY <1>1, <1>5, <1>6

(* The scan meets the control block and every node block, and ends.        *)
LEMMA ScanMeetsAll ==
  ASSUME NEW f, NEW e, Scannable(f, e)
  PROVE  /\ NodeBlocks(f) = {0} \cup {b \in Block : f[b].type = "NODE"}
         /\ ScanEnds(f)
<1>1. /\ 0 \in Block /\ \A b \in Block : b \in Nat
      /\ f[0].type # "NODE" /\ e \in Nat
  BY LayoutAssumption DEF Block, Scannable
<1>2. \A b \in Block : f[b].type = "NODE" => b < e /\ b # 0 /\ LatestBelow(f, b, f[b].prev_block)
  BY <1>1 DEF Scannable, Linked, AbsentFrom
<1>3. ASSUME NEW b \in Block  PROVE Cardinality(Above(f, b)) < MAX_BLOCKS
  <2>1. Above(f, b) \subseteq Block \ {0} /\ IsFiniteSet(Block) /\ MAX_BLOCKS \in Nat
    BY <1>1, BlocksFinite, LayoutAssumption DEF Above
  <2>2. Cardinality(Block) = MAX_BLOCKS
    <3>1. 0 <= MAX_BLOCKS - 1 /\ MAX_BLOCKS - 1 \in Int  BY LayoutAssumption
    <3>2. Cardinality(0 .. MAX_BLOCKS - 1) = MAX_BLOCKS - 1 - 0 + 1  BY <3>1, FS_Interval
    <3> QED  BY <3>2, LayoutAssumption DEF Block
  <2>3. Cardinality(Block \ {0}) = Cardinality(Block) - 1 /\ IsFiniteSet(Block \ {0})
    BY <1>1, <2>1, FS_RemoveElement
  <2>4. Cardinality(Above(f, b)) <= Cardinality(Block \ {0})  BY <2>1, <2>3, FS_Subset
  <2>5. Cardinality(Above(f, b)) \in Nat  BY BlocksFinite DEF Above
  <2> QED  BY <2>1, <2>2, <2>3, <2>4, <2>5
<1>4. NodeBlocks(f) = {0} \cup {b \in Block : f[b].type = "NODE"}
  BY <1>3, ScanIs DEF MetBy
<1>5. ASSUME NEW b \in NodeBlocks(f)
      PROVE  BlockAfter(f, b) \in NodeBlocks(f) /\ (b # 0 => BlockAfter(f, b) < b)
  <2>1. CASE b = 0
    <3>1. BlockAfter(f, b) \in Block /\ LatestBelow(f, e, BlockAfter(f, b))
      BY <2>1 DEF BlockAfter, Scannable, Linked
    <3> QED  BY <1>4, <2>1, <3>1 DEF LatestBelow
  <2>2. CASE b # 0
    <3>1. b \in Block /\ f[b].type = "NODE"  BY <1>4, <1>5, <2>2
    <3>2. LatestBelow(f, b, BlockAfter(f, b))  BY <1>2, <2>2, <3>1 DEF BlockAfter
    <3>3. BlockAfter(f, b) \in 0 .. b - 1 /\ BlockAfter(f, b) \in Block
      BY <3>1, <3>2, LayoutAssumption DEF LatestBelow, Block
    <3> QED  BY <1>1, <1>4, <3>1, <3>2, <3>3 DEF LatestBelow
  <2> QED  BY <2>1, <2>2
<1> QED  BY <1>4, <1>5 DEF ScanEnds

-----------------------------------------------------------------------------
(* The inductive invariant.  From the write of a new block to the write    *)
(* that ends in the control block, the memory copy knows of the block and  *)
(* the file's does not; one fseek later the disk has caught up as well.    *)
AllocPCs == {"create_node_cell", "create_string_cell", "string_in_new_block", "create_cell"}
ChainPCs == {"chain_node_block", "chain_update_control"}

MemLinked ==
  LET e == ctrl_block.empty_block
      q == ctrl_block.prev_node_block
  IN /\ ~ Down /\ exec.pc \notin ChainPCs => Linked(file, e, q) /\ AbsentFrom(file, e)
     /\ exec.pc = "chain_node_block" =>
          /\ Linked(file, e, q) /\ AbsentFrom(file, e + 1)
          /\ e \in Block /\ file[e].type = "NODE"
     /\ exec.pc = "chain_update_control" => Linked(file, e + 1, q) /\ AbsentFrom(file, e + 1)
FileLinked == exec.pc # "wild" /\ ~ (Updating /\ Place \in AllocPCs) => SoundFile(file)
DiskLinked == exec.pc # "wild" /\ Place \notin AllocPCs => SoundFile(disk)
OnlyAdds == Place = "create_node_cell" /\ exec.jobs # << >> => job.op = "add"
BInv == MemLinked /\ FileLinked /\ DiskLinked /\ OnlyAdds

(* A point at which no new block is on its way into the file: outside the  *)
(* creation of nodes, strings and cells, or in a removal.                  *)
SafePoint(at) ==
  \/ at[1] \notin AllocPCs \cup UpdatingPCs \cup {"wild"}
  \/ at[1] = "update_control_block" /\ at[2] \in {"remove", "free"}
SafePoints == \A at \in KillPoints \cup QuitPoints : SafePoint(at)

(* The writes that leave every link between blocks as it is.               *)
SameLinks(f, g) ==
  /\ \A b \in Block : /\ g[b].type = f[b].type
                      /\ f[b].type = "NODE" => g[b].prev_block = f[b].prev_block
  /\ g[0].empty_block = f[0].empty_block
  /\ g[0].prev_node_block = f[0].prev_node_block

LEMMA LinksKept ==
  ASSUME NEW f, NEW g, SameLinks(f, g), NEW e \in 0 .. MAX_BLOCKS, NEW q, Linked(f, e, q)
  PROVE  Linked(g, e, q)
<1>1. \A b \in Block : /\ g[b].type = f[b].type
                       /\ f[b].type = "NODE" => g[b].prev_block = f[b].prev_block
  BY DEF SameLinks
<1>2. ASSUME NEW d \in 0 .. MAX_BLOCKS, NEW p, LatestBelow(f, d, p)
      PROVE  LatestBelow(g, d, p)
  <2>1. p \in Block  BY <1>2, LayoutAssumption DEF LatestBelow, Block
  <2> QED  BY <1>1, <1>2, <2>1 DEF LatestBelow
<1>3. LatestBelow(g, e, q)  BY <1>2 DEF Linked
<1>4. ASSUME NEW b \in Block, b < e
      PROVE  g[b].type # "ABSENT" /\ (g[b].type = "NODE" => LatestBelow(g, b, g[b].prev_block))
  <2>1. f[b].type # "ABSENT" /\ (f[b].type = "NODE" => LatestBelow(f, b, f[b].prev_block))
    BY <1>4 DEF Linked
  <2>2. b \in 0 .. MAX_BLOCKS  BY LayoutAssumption DEF Block
  <2> QED  BY <1>1, <1>2, <2>1, <2>2
<1> QED  BY <1>3, <1>4 DEF Linked

LEMMA SoundKept ==
  ASSUME NEW f \in File, NEW g, SameLinks(f, g), SoundFile(f)
  PROVE  SoundFile(g)
<1>1. 0 \in Block /\ f[0] \in block  BY LayoutAssumption DEF Block, File
<1>2. SUFFICES ASSUME f[0].type = "CONTROL"  PROVE SoundFile(g)
  BY <1>1 DEF SoundFile, SameLinks
<1>3. f[0].empty_block \in 0 .. MAX_BLOCKS
  BY <1>1, <1>2, BlockForm, LayoutAssumption DEF control_block
<1>4. Linked(g, g[0].empty_block, g[0].prev_node_block)
  BY <1>2, <1>3, LinksKept DEF SoundFile, SameLinks
<1>5. AbsentFrom(g, g[0].empty_block)
  BY <1>2 DEF SoundFile, SameLinks, AbsentFrom
<1> QED  BY <1>4, <1>5 DEF SoundFile

LEMMA NodeWriteLinks ==
  ASSUME NEW f \in File, NEW p, IsNode(f, p), NEW n \in node_cell
  PROVE  SameLinks(f, WriteNode(f, p, n))
<1> DEFINE g == WriteNode(f, p, n)
           b == p.block_num
           old == f[b]
           new == [old EXCEPT !.nodes[p.offset] = n]
<1>1. b \in Block /\ old \in block /\ 0 \in Block
  BY LayoutAssumption DEF File, IsNode, Block
<1>2. g = [f EXCEPT ![b] = new]  BY <1>1 DEF WriteNode, File
<1>3. CASE b = 0
  <2>1. old \in control_block  BY <1>1, <1>3, BlockForm DEF IsNode
  <2>2. /\ new.type = old.type /\ old.type = "CONTROL"
        /\ new.empty_block = old.empty_block /\ new.prev_node_block = old.prev_node_block
    BY <2>1 DEF control_block
  <2> HIDE DEF old, new
  <2>3. g[0] = new /\ \A a \in Block \ {0} : g[a] = f[a]  BY <1>1, <1>2, <1>3 DEF File
  <2>4. f[0] = old  BY <1>3 DEF old
  <2>5. SameLinks(f, g)
    <3> HIDE DEF g
    <3> QED  BY <2>2, <2>3, <2>4 DEF SameLinks
  <2> QED  BY <2>5
<1>4. CASE b # 0
  <2>1. old \in node_block  BY <1>1, <1>4, BlockForm DEF IsNode
  <2>2. new.type = old.type /\ new.prev_block = old.prev_block
    BY <2>1 DEF node_block
  <2> HIDE DEF old, new
  <2>3. g[b] = new /\ \A a \in Block \ {b} : g[a] = f[a]  BY <1>1, <1>2 DEF File
  <2>4. f[b] = old  BY DEF old
  <2>5. g[0] = f[0]  BY <1>1, <1>4, <2>3
  <2>6. SameLinks(f, g)
    <3> HIDE DEF g
    <3> QED  BY <2>2, <2>3, <2>4, <2>5 DEF SameLinks
  <2> QED  BY <2>6
<1> QED  BY <1>3, <1>4

LEMMA OtherWriteLinks ==
  ASSUME NEW f \in File, NEW g, NEW n \in Block, WritesBlock(f, g, n), n # 0,
         f[n].type # "NODE"
  PROVE  SameLinks(f, g)
BY LayoutAssumption DEF WritesBlock, SameLinks, Block

(* Most steps leave the links and what the control block says of them as   *)
(* they are.                                                               *)
Quiet ==
  /\ ~ Down /\ ~ Updating
  /\ SameLinks(file, file')
  /\ ctrl_block'.empty_block = ctrl_block.empty_block
  /\ ctrl_block'.prev_node_block = ctrl_block.prev_node_block
  /\ disk' \in {file, file'} \/ (disk' = disk /\ exec.pc \in {"next", "next_second"})
  /\ exec'.pc \notin ChainPCs

LEMMA QuietStep ==
  ASSUME CInv, BInv, Quiet, OnlyAdds'
  PROVE  BInv'
<1> DEFINE e == ctrl_block.empty_block
           q == ctrl_block.prev_node_block
<1>1. /\ file \in File /\ e \in 0 .. MAX_BLOCKS
      /\ exec.pc \notin ChainPCs \cup {"wild"} /\ ~ Updating
  BY Unfold, LayoutAssumption DEF CInv, Quiet, Down, Updating, ChainPCs
<1>2. Linked(file, e, q) /\ AbsentFrom(file, e)  BY <1>1 DEF BInv, MemLinked, Quiet
<1>3. Linked(file', e, q)  BY <1>1, <1>2, LinksKept DEF Quiet
<1>4. AbsentFrom(file', e)  BY <1>2 DEF AbsentFrom, Quiet, SameLinks
<1>5. MemLinked'
  <2>1. exec'.pc # "chain_node_block" /\ exec'.pc # "chain_update_control"
    BY DEF Quiet, ChainPCs
  <2> QED  BY <1>3, <1>4, <2>1 DEF MemLinked, Quiet
<1>6. SoundFile(file)  BY <1>1 DEF BInv, FileLinked
<1>7. SoundFile(file')  BY <1>1, <1>6, SoundKept DEF Quiet
<1>8. exec.pc \in {"next", "next_second"} => SoundFile(disk)
  BY <1>1 DEF BInv, DiskLinked, Place, AllocPCs
<1>9. SoundFile(disk')  BY <1>6, <1>7, <1>8 DEF Quiet
<1> QED  BY <1>5, <1>7, <1>9 DEF BInv, FileLinked, DiskLinked

(* A step that only reads.                                                 *)
LEMMA ReadingStep ==
  ASSUME CInv, BInv, ~ Down, ~ Updating, UNCHANGED <<file, ctrl_block>>,
         disk' = file \/ (disk' = disk /\ exec.pc \in {"next", "next_second"}),
         exec'.pc \notin UpdatingPCs \cup {"create_node_cell"}
  PROVE  BInv'
<1>1. SameLinks(file, file')  BY DEF SameLinks
<1>2. exec'.pc \notin ChainPCs /\ OnlyAdds'
  BY DEF UpdatingPCs, ChainPCs, OnlyAdds, Place, Updating
<1> QED  BY <1>1, <1>2, QuietStep DEF Quiet

LEMMA WildBlocks ==
  ASSUME CInv, BInv, Wild
  PROVE  BInv'
<1>1. exec'.pc = "wild"  BY Unfold DEF Wild, exec_type, CInv
<1> QED  BY <1>1 DEF BInv, MemLinked, FileLinked, DiskLinked, OnlyAdds, Place, Down, Updating, ChainPCs

(* A step that writes a node, a cell or a string, then the control block.  *)
LEMMA WritingStep ==
  ASSUME CInv, BInv, ~ Down, ~ Updating, SameLinks(file, file'),
         ctrl_block'.empty_block = ctrl_block.empty_block,
         ctrl_block'.prev_node_block = ctrl_block.prev_node_block,
         disk' \in {file, file'},
         \/ exec'.pc = "update_control_block" /\ exec'.ret # "create_node_cell"
         \/ exec'.pc \notin UpdatingPCs \cup {"create_node_cell"}
  PROVE  BInv'
<1>1. exec'.pc \notin ChainPCs /\ OnlyAdds'
  BY DEF UpdatingPCs, ChainPCs, OnlyAdds, Place, Updating
<1> QED  BY <1>1, QuietStep DEF Quiet

(* What happens to the blocks from empty_block on is no matter.            *)
LEMMA StillLinked ==
  ASSUME NEW f, NEW g, NEW e \in 0 .. MAX_BLOCKS, NEW q, Linked(f, e, q),
         \A b \in Block : b < e => g[b] = f[b]
  PROVE  Linked(g, e, q)
<1>1. /\ \A b \in Block : b \in Nat
      /\ \A d \in 0 .. MAX_BLOCKS : \A p \in 0 .. d - 1 : p \in Block
  BY LayoutAssumption DEF Block
<1>2. ASSUME NEW d \in 0 .. MAX_BLOCKS, d <= e, NEW p, LatestBelow(f, d, p)
      PROVE  LatestBelow(g, d, p)
  <2>1. p \in Block /\ p < e  BY <1>1, <1>2 DEF LatestBelow
  <2>2. g[p] = f[p]  BY <2>1
  <2>3. ASSUME NEW b \in Block, p < b, b < d  PROVE g[b].type # "NODE"
    <3>1. b < e  BY <1>1, <1>2, <2>3
    <3>2. g[b] = f[b]  BY <3>1
    <3> QED  BY <1>2, <2>3, <3>2 DEF LatestBelow
  <2> QED  BY <1>2, <2>2, <2>3 DEF LatestBelow
<1>3. LatestBelow(g, e, q)  BY <1>2 DEF Linked
<1>4. ASSUME NEW b \in Block, b < e
      PROVE  g[b].type # "ABSENT" /\ (g[b].type = "NODE" => LatestBelow(g, b, g[b].prev_block))
  <2>1. g[b] = f[b] /\ b \in 0 .. MAX_BLOCKS /\ b <= e
    BY <1>1, <1>4, LayoutAssumption DEF Block
  <2>2. f[b].type # "ABSENT" /\ (f[b].type = "NODE" => LatestBelow(f, b, f[b].prev_block))
    BY <1>4 DEF Linked
  <2> QED  BY <1>2, <2>1, <2>2
<1> QED  BY <1>3, <1>4 DEF Linked

(* A new block becomes the last one below empty_block.                     *)
LEMMA OneMore ==
  ASSUME NEW f, NEW e \in Block, e # 0, NEW q, Linked(f, e, q), f[e].type # "ABSENT", NEW r,
         IF f[e].type = "NODE" THEN r = e /\ LatestBelow(f, e, f[e].prev_block) ELSE r = q
  PROVE  Linked(f, e + 1, r)
<1>1. \A b \in Block : b \in Nat /\ (b < e + 1 => b < e \/ b = e)
  BY LayoutAssumption DEF Block
<1>2. LatestBelow(f, e + 1, r)
  <2>1. CASE f[e].type = "NODE"
    <3>1. r = e  BY <2>1
    <3>2. \A b \in Block : ~ (e < b /\ b < e + 1)  BY <1>1
    <3> QED  BY <1>1, <2>1, <3>1, <3>2 DEF LatestBelow
  <2>2. CASE f[e].type # "NODE"
    <3>1. r = q  BY <2>2
    <3>2. LatestBelow(f, e, q)  BY DEF Linked
    <3> QED  BY <1>1, <2>2, <3>1, <3>2 DEF LatestBelow
  <2> QED  BY <2>1, <2>2
<1>3. ASSUME NEW b \in Block, b < e + 1
      PROVE  f[b].type # "ABSENT" /\ (f[b].type = "NODE" => LatestBelow(f, b, f[b].prev_block))
  <2>1. CASE b = e  BY <2>1
  <2>2. CASE b # e
    <3>1. b < e  BY <1>1, <1>3, <2>2
    <3> QED  BY <3>1 DEF Linked
  <2> QED  BY <2>1, <2>2
<1> QED  BY <1>2, <1>3 DEF Linked

LEMMA AllocateBlocks ==
  ASSUME CInv, BInv, ~ Down, ~ Updating, NEW type \in Pool, NEW ret \in AllocPCs,
         allocate_new_block(type, ret), ret = "create_node_cell" => type = "NODE",
         ret = "create_node_cell" => exec.pc = "create_node_cell"
  PROVE  BInv'
<1> DEFINE e == ctrl_block.empty_block
           q == ctrl_block.prev_node_block
<1>1. /\ file \in File /\ ctrl_block \in control_block /\ exec \in exec_type
      /\ e \in Block /\ e # 0 /\ e \in 0 .. MAX_BLOCKS
  BY Unfold, LayoutAssumption DEF CInv, Block, allocate_new_block
<1>2. exec.pc \notin ChainPCs  BY DEF Updating, ChainPCs
<1>3. Linked(file, e, q) /\ AbsentFrom(file, e)  BY <1>2 DEF BInv, MemLinked
<1>4. file' = [file EXCEPT ![e] = ZeroBlock(type)]  BY DEF allocate_new_block
<1>5. file'[e] = ZeroBlock(type) /\ \A b \in Block : b # e => file'[b] = file[b]
  BY <1>1, <1>4 DEF File
<1>6. \A b \in Block : b \in Int /\ (b < e => b # e) /\ (b >= e + 1 => b >= e /\ b # e)
  BY <1>1, LayoutAssumption DEF Block
<1>7. Linked(file', e, q)  BY <1>1, <1>3, <1>5, <1>6, StillLinked
<1>8. AbsentFrom(file', e + 1)  BY <1>3, <1>5, <1>6 DEF AbsentFrom
<1>9. /\ ZeroBlock(type).type = type
      /\ type = "NODE" => ZeroBlock(type).prev_block = 0
  BY DEF ZeroBlock
<1>10. type # "ABSENT"  BY DEF Pool, CellKind
<1>11. OnlyAdds'
  <2>1. PICK pc \in {"chain_node_block", "update_control_block"} :
          exec' = [exec EXCEPT !.pc = pc, !.ret = ret]
    BY DEF allocate_new_block, UpdateControlThen
  <2>2. exec'.pc = pc /\ exec'.ret = ret /\ exec'.jobs = exec.jobs
    BY <1>1, <2>1 DEF exec_type
  <2> QED  BY <2>2 DEF BInv, OnlyAdds, Place, Updating, job
<1>12. CASE type = "NODE" /\ e # 1
  <2>1. ctrl_block' = [ctrl_block EXCEPT !.head[type] = Ptr(e, ctrl_block.head[type].offset)]
        /\ exec' = [exec EXCEPT !.pc = "chain_node_block", !.ret = ret]
    BY <1>12 DEF allocate_new_block
  <2>2. ctrl_block'.empty_block = e /\ ctrl_block'.prev_node_block = q
    BY <1>1, <2>1 DEF control_block
  <2>3. exec'.pc = "chain_node_block" /\ exec'.ret = ret  BY <1>1, <2>1 DEF exec_type
  <2>4. MemLinked'
    BY <1>1, <1>5, <1>7, <1>8, <1>9, <1>12, <2>2, <2>3 DEF MemLinked, ChainPCs
  <2> QED  BY <1>11, <2>3, <2>4 DEF BInv, FileLinked, DiskLinked, Place, Updating
<1>13. CASE ~ (type = "NODE" /\ e # 1)
  <2>1. ctrl_block' = [ctrl_block EXCEPT
                !.head[type] = Ptr(e, ctrl_block.head[type].offset), !.empty_block = e + 1,
                !.prev_node_block = IF type = "NODE" THEN e ELSE @]
        /\ exec' = [exec EXCEPT !.pc = "update_control_block", !.ret = ret]
    BY <1>13 DEF allocate_new_block, UpdateControlThen
  <2> DEFINE r == IF type = "NODE" THEN e ELSE q
  <2>2. ctrl_block'.empty_block = e + 1 /\ ctrl_block'.prev_node_block = r
    BY <1>1, <2>1 DEF control_block
  <2>3. exec'.pc = "update_control_block" /\ exec'.ret = ret  BY <1>1, <2>1 DEF exec_type
  <2>4. file'[e].type = "NODE" => LatestBelow(file', e, file'[e].prev_block)
    <3>1. HAVE file'[e].type = "NODE"
    <3>2. e = 1 /\ file'[e].prev_block = 0  BY <1>5, <1>9, <1>13, <3>1
    <3> QED  BY <1>6, <3>2 DEF LatestBelow
  <2>5. Linked(file', e + 1, r)
    <3>1. file'[e].type = type  BY <1>5, <1>9
    <3> QED  BY <1>1, <1>7, <1>10, <2>4, <3>1, OneMore
  <2> HIDE DEF r
  <2>6. MemLinked'  BY <1>8, <2>2, <2>3, <2>5 DEF MemLinked, ChainPCs
  <2> QED  BY <1>11, <2>3, <2>6 DEF BInv, FileLinked, DiskLinked, Place, Updating
<1> QED  BY <1>12, <1>13

LEMMA ChainBlocks ==
  ASSUME CInv, BInv, chain_node_block
  PROVE  BInv'
<1> DEFINE e == ctrl_block.empty_block
           q == ctrl_block.prev_node_block
           new == [ZeroBlock("NODE") EXCEPT !.prev_block = q]
<1>1. /\ file \in File /\ ctrl_block \in control_block /\ exec \in exec_type
      /\ e \in Block /\ e # 0 /\ e \in 0 .. MAX_BLOCKS
  BY Unfold, LayoutAssumption DEF CInv, Block, chain_node_block
<1>2. exec.pc = "chain_node_block" /\ exec.ret = "create_node_cell"
  BY DEF chain_node_block, CInv, RetOK
<1>3. Linked(file, e, q) /\ AbsentFrom(file, e + 1)  BY <1>2 DEF BInv, MemLinked
<1>4. new.type = "NODE" /\ new.prev_block = q  BY DEF ZeroBlock
<1>5. file' = [file EXCEPT ![e] = new]  BY DEF chain_node_block
<1> HIDE DEF new
<1>6. file'[e] = new /\ \A b \in Block : b # e => file'[b] = file[b]
  BY <1>1, <1>5 DEF File
<1>7. \A b \in Block : b \in Int /\ (b < e => b # e) /\ (b >= e + 1 => b # e)
  BY <1>1, LayoutAssumption DEF Block
<1>8. Linked(file', e, q)  BY <1>1, <1>3, <1>6, <1>7, StillLinked
<1>9. AbsentFrom(file', e + 1)  BY <1>3, <1>6, <1>7 DEF AbsentFrom
<1>10. Linked(file', e + 1, e)
  <2>1. LatestBelow(file', e, q)  BY <1>8 DEF Linked
  <2> QED  BY <1>1, <1>4, <1>6, <1>8, <2>1, OneMore
<1>11. ctrl_block'.empty_block = e /\ ctrl_block'.prev_node_block = e
  BY <1>1 DEF chain_node_block, control_block
<1>12. /\ exec'.pc = "chain_update_control" /\ exec'.ret = "create_node_cell"
       /\ exec'.jobs = exec.jobs
  BY <1>1, <1>2 DEF chain_node_block, exec_type
<1>13. MemLinked'  BY <1>9, <1>10, <1>11, <1>12 DEF MemLinked, ChainPCs
<1>14. OnlyAdds'  BY <1>2, <1>12 DEF BInv, OnlyAdds, Place, Updating, job
<1> QED  BY <1>12, <1>13, <1>14 DEF BInv, FileLinked, DiskLinked, Place, Updating, AllocPCs

(* A write of the control block alone: no block's links are in it but the  *)
(* first of them.                                                          *)
LEMMA ControlWrite ==
  ASSUME CInv, ~ Down, file' = [file EXCEPT ![0] = ctrl_block],
         NEW e \in 0 .. MAX_BLOCKS, NEW q, Linked(file, e, q)
  PROVE  /\ Linked(file', e, q)
         /\ file'[0] = ctrl_block
         /\ \A d \in Int : AbsentFrom(file, d) => AbsentFrom(file', d)
<1>1. /\ file \in File /\ ctrl_block.type = "CONTROL" /\ file[0].type = "CONTROL" /\ 0 \in Block
  BY Unfold, LayoutAssumption DEF CInv, IInv, ControlBlock, Block, control_block
<1>2. file'[0] = ctrl_block /\ \A b \in Block : b # 0 => file'[b] = file[b]
  BY <1>1 DEF File
<1>3. \A b \in Block : /\ file'[b].type = file[b].type
                       /\ file[b].type = "NODE" => file'[b].prev_block = file[b].prev_block
  BY <1>1, <1>2
<1>4. ASSUME NEW d \in 0 .. MAX_BLOCKS, NEW p, LatestBelow(file, d, p)
      PROVE  LatestBelow(file', d, p)
  <2>1. p \in Block  BY <1>4, LayoutAssumption DEF LatestBelow, Block
  <2> QED  BY <1>3, <1>4, <2>1 DEF LatestBelow
<1>5. Linked(file', e, q)
  <2>1. LatestBelow(file', e, q)  BY <1>4 DEF Linked
  <2>2. \A b \in Block : b \in 0 .. MAX_BLOCKS  BY LayoutAssumption DEF Block
  <2> QED  BY <1>3, <1>4, <2>1, <2>2 DEF Linked
<1> QED  BY <1>2, <1>3, <1>5 DEF AbsentFrom

LEMMA ChainControlBlocks ==
  ASSUME CInv, BInv, chain_update_control
  PROVE  BInv'
<1> DEFINE e == ctrl_block.empty_block
           q == ctrl_block.prev_node_block
<1>1. /\ ctrl_block \in control_block /\ exec \in exec_type /\ ~ Down
      /\ e \in Nat /\ e + 1 \in 0 .. MAX_BLOCKS
  BY Unfold, LayoutAssumption DEF CInv, chain_update_control, Down
<1>2. exec.pc = "chain_update_control" /\ exec.ret = "create_node_cell"
  BY DEF chain_update_control, CInv, RetOK
<1>3. Linked(file, e + 1, q) /\ AbsentFrom(file, e + 1)  BY <1>2 DEF BInv, MemLinked
<1>4. Linked(file', e + 1, q) /\ AbsentFrom(file', e + 1)
  <2>1. file' = [file EXCEPT ![0] = ctrl_block]  BY DEF chain_update_control
  <2>2. \A d \in Int : AbsentFrom(file, d) => AbsentFrom(file', d)
    BY <1>1, <1>3, <2>1, ControlWrite, Zenon
  <2>3. Linked(file', e + 1, q)  BY <1>1, <1>3, <2>1, ControlWrite, Zenon
  <2> QED  BY <1>1, <1>3, <2>2, <2>3
<1>5. ctrl_block'.empty_block = e + 1 /\ ctrl_block'.prev_node_block = q
  BY <1>1 DEF chain_update_control, control_block
<1>6. /\ exec'.pc = "update_control_block" /\ exec'.ret = "create_node_cell"
      /\ exec'.jobs = exec.jobs
  BY <1>1, <1>2 DEF chain_update_control, UpdateControlThen, exec_type
<1>7. MemLinked'  BY <1>4, <1>5, <1>6 DEF MemLinked, ChainPCs
<1>8. OnlyAdds'  BY <1>2, <1>6 DEF BInv, OnlyAdds, Place, Updating, job
<1> QED  BY <1>6, <1>7, <1>8 DEF BInv, FileLinked, DiskLinked, Place, Updating, AllocPCs

LEMMA ControlBlocks ==
  ASSUME CInv, BInv, update_control_block
  PROVE  BInv'
<1> DEFINE e == ctrl_block.empty_block
           q == ctrl_block.prev_node_block
<1>1. /\ exec \in exec_type /\ ~ Down /\ e \in 0 .. MAX_BLOCKS
  BY Unfold, LayoutAssumption DEF CInv, update_control_block, Down
<1>2. /\ exec.pc = "update_control_block" /\ exec.ret \notin UpdatingPCs
      /\ exec'.pc = exec.ret /\ exec'.jobs = exec.jobs
      /\ disk' = file /\ ctrl_block' = ctrl_block
  BY <1>1 DEF update_control_block, CInv, RetOK, LastWriteUnflushed, exec_type
<1>3. Linked(file, e, q) /\ AbsentFrom(file, e)
  BY <1>1, <1>2 DEF BInv, MemLinked, ChainPCs
<1>4. Linked(file', e, q) /\ AbsentFrom(file', e) /\ file'[0] = ctrl_block
  <2>1. file' = [file EXCEPT ![0] = ctrl_block]  BY DEF update_control_block
  <2>2. \A d \in Int : AbsentFrom(file, d) => AbsentFrom(file', d)
    BY <1>1, <1>3, <2>1, ControlWrite, Zenon
  <2>3. Linked(file', e, q) /\ file'[0] = ctrl_block  BY <1>1, <1>3, <2>1, ControlWrite, Zenon
  <2> QED  BY <1>1, <1>3, <2>2, <2>3
<1>5. MemLinked'  BY <1>2, <1>4 DEF MemLinked, ChainPCs, UpdatingPCs
<1>6. FileLinked'  BY <1>4 DEF FileLinked, SoundFile
<1>7. ~ Updating' /\ Updating /\ Place' = exec.ret /\ Place = exec.ret
  BY <1>2 DEF Updating, UpdatingPCs, Place
<1>8. DiskLinked'  BY <1>2, <1>7 DEF BInv, FileLinked, DiskLinked
<1>9. OnlyAdds'  BY <1>2, <1>7 DEF BInv, OnlyAdds, job
<1> QED  BY <1>5, <1>6, <1>8, <1>9 DEF BInv

(* The steps of the nodes.                                                 *)
LEMMA CreateNodeBlocks ==
  ASSUME CInv, BInv, create_node_cell
  PROVE  BInv'
<1> DEFINE h == ctrl_block.head["NODE"]
           new == [ZeroNode EXCEPT !.is_empty = 1]
           after == HeadAfter(h, NodeAt(file, h).last["LABEL"], NodesIn(h.block_num))
<1>1. exec.pc = "create_node_cell" /\ ~ Down /\ ~ Updating
  BY DEF create_node_cell, Down, Updating
<1>2. ctrl_block \in control_block /\ exec \in exec_type /\ file \in File
  BY Unfold DEF CInv
<1>3. CASE h.block_num = -1
  <2>1. allocate_new_block("NODE", "create_node_cell")
    BY <1>3 DEF create_node_cell
  <2> QED  BY <1>1, <2>1, AllocateBlocks DEF Pool, AllocPCs
<1>4. CASE Wild  BY <1>4, WildBlocks
<1>5. CASE h.block_num # -1 /\ IsNode(file, h) /\ ~ Wild
  <2> HIDE DEF after
  <2>1. /\ file' = WriteNode(file, h, new)
        /\ IF h.block_num = 0 THEN ctrl_block' = [file'[0] EXCEPT !.head["NODE"] = after]
           ELSE ctrl_block' = [ctrl_block EXCEPT !.head["NODE"] = after]
        /\ exec' = [exec EXCEPT !.pc = "update_control_block", !.ret = "next",
                                !.matched = {h}, !.left = {h}]
        /\ disk' \in {file, file'}
    BY <1>5 DEF create_node_cell, after, AllFlushed, LastWriteUnflushed
  <2>2. new \in node_cell  BY ZeroTypes DEF node_cell
  <2>3. SameLinks(file, file')  BY <1>2, <1>5, <2>1, <2>2, NodeWriteLinks
  <2>4. /\ file'[0].empty_block = ctrl_block.empty_block
        /\ file'[0].prev_node_block = ctrl_block.prev_node_block
    BY <1>1, <2>3 DEF SameLinks, CInv, ControlCoherent
  <2>5. file'[0] \in control_block  BY <1>1, <1>5, <2>1, <2>2, NodeWrite
  <2>6. /\ ctrl_block'.empty_block = ctrl_block.empty_block
        /\ ctrl_block'.prev_node_block = ctrl_block.prev_node_block
    <3>1. CASE h.block_num = 0  BY <2>1, <2>4, <2>5, <3>1 DEF control_block
    <3>2. CASE h.block_num # 0  BY <1>2, <2>1, <3>2 DEF control_block
    <3> QED  BY <3>1, <3>2
  <2>7. exec'.pc = "update_control_block" /\ exec'.ret = "next"
    BY <1>2, <2>1 DEF exec_type
  <2> QED  BY <1>1, <2>1, <2>3, <2>6, <2>7, WritingStep
<1> QED  BY <1>3, <1>4, <1>5 DEF create_node_cell

LEMMA UpdateNodeBlocks ==
  ASSUME CInv, BInv, NEW kind \in CellKind, update_node(kind)
  PROVE  BInv'
<1> DEFINE p == exec.node
           new == [NodeAt(file, p) EXCEPT !.last[kind] = exec.current]
<1>1. exec.pc = "update_node" /\ ~ Down /\ ~ Updating  BY DEF update_node, Down, Updating
<1>2. exec \in exec_type /\ file \in File  BY Unfold DEF CInv
<1>3. CASE Wild  BY <1>3, WildBlocks
<1>4. CASE IsNode(file, p) /\ ~ Wild
  <2>1. /\ file' = WriteNode(file, p, new) /\ ctrl_block' = file'[0] /\ disk' = file'
        /\ \E pc \in {"next", "next_second"} : exec' = [exec EXCEPT !.pc = pc]
    BY <1>4 DEF update_node, AllFlushed
  <2>2. new \in node_cell
    <3>1. exec.current \in cell_ptr  BY <1>2 DEF exec_type
    <3>2. NodeAt(file, p) \in node_cell  BY <1>2, <1>4, NodeAtType
    <3> QED  BY <3>1, <3>2 DEF node_cell
  <2>3. SameLinks(file, file')  BY <1>2, <1>4, <2>1, <2>2, NodeWriteLinks
  <2>4. /\ ctrl_block'.empty_block = ctrl_block.empty_block
        /\ ctrl_block'.prev_node_block = ctrl_block.prev_node_block
    BY <1>1, <2>1, <2>3 DEF SameLinks, CInv, ControlCoherent
  <2>5. exec'.pc \in {"next", "next_second"}  BY <1>2, <2>1 DEF exec_type
  <2>6. exec'.pc \notin UpdatingPCs \cup {"create_node_cell"}  BY <2>5 DEF UpdatingPCs
  <2>7. disk' \in {file, file'}  BY <2>1
  <2> QED  BY <1>1, <2>3, <2>4, <2>6, <2>7, WritingStep
<1> QED  BY <1>3, <1>4 DEF update_node

LEMMA FreeNodeBlocks ==
  ASSUME CInv, BInv, free_node
  PROVE  BInv'
<1> DEFINE p == exec.node
           freed == [NodeAt(file, p) EXCEPT !.is_empty = 0,
                                            !.last["LABEL"] = ctrl_block.head["NODE"]]
<1>1. exec.pc = "free_node" /\ ~ Down /\ ~ Updating  BY DEF free_node, Down, Updating
<1>2. exec \in exec_type /\ file \in File  BY Unfold DEF CInv
<1>3. CASE Wild  BY <1>3, WildBlocks
<1>4. CASE IsNode(file, p) /\ ~ Wild
  <2>1. /\ file' = WriteNode(file, p, freed) /\ disk' = file'
        /\ ctrl_block' = [file'[0] EXCEPT !.head["NODE"] = p]
        /\ exec' = [exec EXCEPT !.pc = "update_control_block", !.ret = "next"]
    BY <1>4 DEF free_node, AllFlushed
  <2>2. freed \in node_cell
    BY <1>4, NodeAtType, Unfold DEF node_cell, Pool, CellKind, CInv
  <2>3. SameLinks(file, file')  BY <1>2, <1>4, <2>1, <2>2, NodeWriteLinks
  <2>4. file'[0] \in control_block  BY <1>1, <1>4, <2>1, <2>2, NodeWrite
  <2>5. /\ file'[0].empty_block = ctrl_block.empty_block
        /\ file'[0].prev_node_block = ctrl_block.prev_node_block
    BY <1>1, <2>3 DEF SameLinks, CInv, ControlCoherent
  <2>6. /\ ctrl_block'.empty_block = ctrl_block.empty_block
        /\ ctrl_block'.prev_node_block = ctrl_block.prev_node_block
    BY <2>1, <2>4, <2>5 DEF control_block
  <2>7. exec'.pc = "update_control_block" /\ exec'.ret = "next"
    BY <1>2, <2>1 DEF exec_type
  <2>8. disk' \in {file, file'}  BY <2>1
  <2> QED  BY <1>1, <2>3, <2>6, <2>7, <2>8, WritingStep
<1> QED  BY <1>3, <1>4 DEF free_node

(* The steps of the strings.                                               *)
LEMMA StoreBlocks ==
  ASSUME CInv, BInv, exec.pc \in StringPCs, NEW p, p.block_num \in Block,
         file[p.block_num].type = "STRING", file' = WriteString(file, p, Head(exec.texts)),
         ctrl_block'.empty_block = ctrl_block.empty_block,
         ctrl_block'.prev_node_block = ctrl_block.prev_node_block,
         StringDone(p), LastWriteUnflushed
  PROVE  BInv'
<1>1. ~ Down /\ ~ Updating  BY DEF Down, StringPCs, Updating
<1>2. p.block_num # 0  BY <1>1 DEF CInv, IInv, ControlBlock
<1>3. Head(exec.texts) \in String
  <2>1. exec.texts # << >> /\ exec.texts \in Seq(String)
    BY Unfold DEF CInv, IInv, ExecOK, InOp, exec_type
  <2> QED  BY <2>1
<1>4. WritesBlock(file, file', p.block_num) /\ file \in File
  BY <1>3, Unfold, WriteStringType DEF CInv
<1>5. SameLinks(file, file')  BY <1>2, <1>4, OtherWriteLinks
<1>6. PICK ret \in {"create_string_cell", "next", "write_value", "create_cell"} :
        exec' = [exec EXCEPT !.pc = "update_control_block", !.strings = Append(@, p),
                             !.texts = Tail(@), !.ret = ret]
  BY DEF StringDone
<1>7. exec'.pc = "update_control_block" /\ exec'.ret # "create_node_cell"
  BY <1>6, Unfold DEF exec_type, CInv
<1> QED  BY <1>1, <1>5, <1>7, WritingStep DEF LastWriteUnflushed

LEMMA CreateStringBlocks ==
  ASSUME CInv, BInv, create_string_cell
  PROVE  BInv'
<1> DEFINE h == ctrl_block.head["STRING"]
           str_length == strlen[Head(exec.texts)]
<1>1. exec.pc \in StringPCs /\ ~ Down /\ ~ Updating
  BY DEF create_string_cell, StringPCs, Down, Updating
<1>2. ctrl_block \in control_block  BY Unfold DEF CInv
<1>3. \/ \E ret \in StringPCs : allocate_new_block("STRING", ret)
      \/ Wild
      \/ /\ Fits(h, str_length)
         /\ file' = WriteString(file, h, Head(exec.texts))
         /\ ctrl_block' = [ctrl_block EXCEPT !.head["STRING"].offset = @ + str_length + 2]
         /\ StringDone(h)
         /\ LastWriteUnflushed
  BY DEF create_string_cell, StringPCs
<1>4. ASSUME NEW ret \in StringPCs, allocate_new_block("STRING", ret)  PROVE BInv'
  BY <1>1, <1>4, AllocateBlocks DEF Pool, StringPCs, AllocPCs
<1>5. CASE Wild  BY <1>5, WildBlocks
<1>6. ASSUME Fits(h, str_length), file' = WriteString(file, h, Head(exec.texts)),
             ctrl_block' = [ctrl_block EXCEPT !.head["STRING"].offset = @ + str_length + 2],
             StringDone(h), LastWriteUnflushed
      PROVE  BInv'
  <2>1. /\ ctrl_block'.empty_block = ctrl_block.empty_block
        /\ ctrl_block'.prev_node_block = ctrl_block.prev_node_block
    <3> HIDE DEF str_length
    <3> QED  BY <1>2, <1>6 DEF control_block
  <2> QED  BY <1>1, <1>6, <2>1, StoreBlocks DEF Fits
<1> QED  BY <1>3, <1>4, <1>5, <1>6

LEMMA StringInNewBlockBlocks ==
  ASSUME CInv, BInv, string_in_new_block
  PROVE  BInv'
<1> DEFINE p == Ptr(ctrl_block.head["STRING"].block_num, 0)
           str_length == strlen[Head(exec.texts)]
<1>1. exec.pc \in StringPCs  BY DEF string_in_new_block, StringPCs
<1>2. ctrl_block \in control_block  BY Unfold DEF CInv
<1>3. CASE Wild  BY <1>3, WildBlocks
<1>4. CASE ~ Wild
  <2>1. /\ Fits(p, str_length)
        /\ file' = WriteString(file, p, Head(exec.texts))
        /\ ctrl_block' = [ctrl_block EXCEPT !.head["STRING"].offset = str_length + 2]
        /\ StringDone(p) /\ LastWriteUnflushed
    BY <1>4 DEF string_in_new_block
  <2>2. /\ ctrl_block'.empty_block = ctrl_block.empty_block
        /\ ctrl_block'.prev_node_block = ctrl_block.prev_node_block
    <3> HIDE DEF str_length
    <3> QED  BY <1>2, <2>1 DEF control_block
  <2> HIDE DEF p
  <2> QED  BY <1>1, <2>1, <2>2, StoreBlocks DEF Fits
<1> QED  BY <1>3, <1>4

(* The steps of the cells.                                                 *)
LEMMA CellWriteLinks ==
  ASSUME CInv, ~ Down, NEW kind \in CellKind, NEW p, IsCell(file, kind, p), NEW c,
         file' = WriteCell(file, p, c)
  PROVE  SameLinks(file, file')
<1> DEFINE b == p.block_num
           old == file[b]
           new == [old EXCEPT !.cells[p.offset] = c]
<1>1. /\ b # 0 /\ b \in Block /\ old.type = kind /\ old.type # "NODE" /\ 0 \in Block
      /\ file \in File
  BY Unfold, LayoutAssumption DEF IsCell, CInv, IInv, ControlBlock, CellKind, Block
<1>2. old \in cell_block(kind)  BY <1>1, BlockForm DEF File
<1>3. new.type = old.type  BY <1>2 DEF cell_block
<1>4. file' = [file EXCEPT ![b] = new]  BY <1>1 DEF WriteCell, File
<1> HIDE DEF old, new
<1>5. file'[b] = new /\ \A a \in Block : a # b => file'[a] = file[a]
  BY <1>1, <1>4 DEF File
<1>6. file[b] = old  BY DEF old
<1> HIDE DEF b
<1> QED  BY <1>1, <1>3, <1>5, <1>6 DEF SameLinks

LEMMA CreateCellBlocks ==
  ASSUME CInv, BInv, NEW kind \in CellKind, create_cell(kind)
  PROVE  BInv'
<1> DEFINE h == ctrl_block.head[kind]
           new == [prev  |-> NodeAt(file, exec.node).last[kind],
                   name  |-> exec.strings[1],
                   value |-> CASE kind = "ATTRIBUTE" -> exec.strings[2]
                               [] kind = "RELATION"  -> exec.second
                               [] OTHER              -> Null]
           after == HeadAfter(h, CellAt(file, h).prev, CellsIn(kind))
<1>1. /\ exec.pc = "create_cell" /\ ~ Down /\ ~ Updating
      /\ kind \in CellKind /\ kind \in Pool
  BY DEF create_cell, Down, Updating, CellKind, Pool
<1>2. ctrl_block \in control_block  BY Unfold DEF CInv
<1>3. \/ allocate_new_block(kind, "create_cell")
      \/ Wild
      \/ /\ IsCell(file, kind, h)
         /\ file' = WriteCell(file, h, new)
         /\ ctrl_block' = [ctrl_block EXCEPT !.head[kind] = after]
         /\ exec' = [exec EXCEPT !.pc = "update_control_block", !.ret = "update_node",
                                 !.current = h]
         /\ LastWriteUnflushed
  BY DEF create_cell
<1>4. CASE allocate_new_block(kind, "create_cell")
  <2>1. "create_cell" \in AllocPCs  BY DEF AllocPCs
  <2> QED  BY <1>1, <1>4, <2>1, AllocateBlocks
<1>5. CASE Wild  BY <1>5, WildBlocks
<1>6. ASSUME IsCell(file, kind, h), file' = WriteCell(file, h, new),
             ctrl_block' = [ctrl_block EXCEPT !.head[kind] = after],
             exec' = [exec EXCEPT !.pc = "update_control_block", !.ret = "update_node",
                                  !.current = h],
             LastWriteUnflushed
      PROVE  BInv'
  <2> HIDE DEF new, after
  <2>1. SameLinks(file, file')  BY <1>1, <1>6, CellWriteLinks
  <2>2. /\ ctrl_block'.empty_block = ctrl_block.empty_block
        /\ ctrl_block'.prev_node_block = ctrl_block.prev_node_block
    BY <1>2, <1>6 DEF control_block
  <2>3. exec'.pc = "update_control_block" /\ exec'.ret = "update_node"
    BY <1>6, Unfold DEF exec_type, CInv
  <2> QED  BY <1>1, <1>6, <2>1, <2>2, <2>3, WritingStep DEF LastWriteUnflushed
<1> QED  BY <1>3, <1>4, <1>5, <1>6

LEMMA WriteValueBlocks ==
  ASSUME CInv, BInv, write_value
  PROVE  BInv'
<1> DEFINE new == [CellAt(file, exec.current) EXCEPT !.value = exec.strings[1]]
<1>1. exec.pc = "write_value" /\ ~ Down /\ ~ Updating  BY DEF write_value, Down, Updating
<1>2. CASE Wild  BY <1>2, WildBlocks
<1>3. CASE ~ Wild
  <2>1. /\ IsCell(file, "ATTRIBUTE", exec.current) /\ file' = WriteCell(file, exec.current, new)
        /\ exec' = [exec EXCEPT !.pc = "next"] /\ ctrl_block' = ctrl_block /\ disk' = file
    BY <1>3 DEF write_value, LastWriteUnflushed
  <2> HIDE DEF new
  <2>2. SameLinks(file, file')  BY <1>1, <2>1, CellWriteLinks DEF CellKind
  <2>3. exec'.pc = "next"  BY <2>1, Unfold DEF exec_type, CInv
  <2> QED  BY <1>1, <2>1, <2>2, <2>3, WritingStep DEF UpdatingPCs
<1> QED  BY <1>2, <1>3

LEMMA FreeCellBlocks ==
  ASSUME CInv, BInv, free_cell
  PROVE  BInv'
<1> DEFINE kind == job.kind
           p == exec.current
           new == [prev |-> ctrl_block.head[kind], name |-> Null,
                   value |-> IF kind = "RELATION" THEN CellAt(file, p).value ELSE Null]
<1>1. exec.pc = "free_cell" /\ ~ Down /\ ~ Updating /\ exec.jobs # << >>
  BY DEF free_cell, Down, Updating, CInv, IInv, ExecOK, InOp, JobPCs
<1>2. kind \in CellKind /\ ctrl_block \in control_block
  BY <1>1, JobType, Unfold DEF exec_type, CellKind, Pool, job, CInv
<1> HIDE DEF kind
<1>3. CASE Wild  BY <1>3, WildBlocks
<1>4. CASE ~ Wild
  <2>1. /\ IsCell(file, kind, p)
        /\ file' = WriteCell(file, p, new)
        /\ ctrl_block' = [ctrl_block EXCEPT !.head[kind] = p]
        /\ disk' = file
    BY <1>4 DEF free_cell, kind, LastWriteUnflushed
  <2>2. PICK number :
          exec' = [exec EXCEPT
                 !.pc = "update_control_block", !.ret = "remove",
                 !.prev = p, !.current = exec.following, !.has_changed = TRUE,
                 !.number = number]
    BY <1>4 DEF free_cell, kind
  <2>3. exec'.pc = "update_control_block" /\ exec'.ret = "remove"
    BY <2>2, Unfold DEF exec_type, CInv
  <2> HIDE DEF new
  <2>4. SameLinks(file, file')  BY <1>1, <1>2, <2>1, CellWriteLinks
  <2>5. /\ ctrl_block'.empty_block = ctrl_block.empty_block
        /\ ctrl_block'.prev_node_block = ctrl_block.prev_node_block
    BY <1>2, <2>1 DEF control_block
  <2> QED  BY <1>1, <2>1, <2>3, <2>4, <2>5, WritingStep
<1> QED  BY <1>3, <1>4

LEMMA StopBlocks ==
  ASSUME CInv, BInv, exec'.pc = "down", SoundFile(file'), SoundFile(disk')
  PROVE  BInv'
BY DEF BInv, MemLinked, FileLinked, DiskLinked, OnlyAdds, Place, Updating, Down

LEMMA RemoveCellBlocks ==
  ASSUME CInv, BInv, NEW kind \in CellKind, remove_cell(kind)
  PROVE  BInv'
<1> DEFINE p == exec.current
           old == CellAt(file, p)
           node == [NodeAt(file, exec.node) EXCEPT !.last[kind] = old.prev]
           prev_cell == [CellAt(file, exec.prev) EXCEPT !.prev = old.prev]
           sound == /\ IsCell(file, kind, p) /\ IsString(file, old.name)
                    /\ IsNode(file, exec.node)
                    /\ IsNode(file, exec.prev) \/ IsCell(file, kind, exec.prev)
           lost == exec.lost_place \/ (kind = "RELATION" /\ Named(old))
<1>1. exec.pc = "remove" /\ ~ Down /\ ~ Updating /\ kind \in CellKind
  BY DEF remove_cell, Down, Updating, CellKind
<1>2. exec \in exec_type /\ file \in File  BY Unfold DEF CInv
<1>3. CASE exec' = [exec EXCEPT !.pc = "next"] /\ ReadOnly
  <2>1. exec'.pc = "next"  BY <1>2, <1>3 DEF exec_type
  <2> QED  BY <1>1, <1>3, <2>1, ReadingStep DEF ReadOnly, UpdatingPCs
<1>4. CASE Wild  BY <1>4, WildBlocks
<1>5. CASE ReadOnly /\ exec' = [exec EXCEPT !.prev = p, !.current = old.prev, !.lost_place = lost]
  <2>1. exec'.pc = "remove"  BY <1>1, <1>2, <1>5 DEF exec_type
  <2> QED  BY <1>1, <1>5, <2>1, ReadingStep DEF ReadOnly, UpdatingPCs
<1>6. ASSUME sound, exec' = [exec EXCEPT !.pc = "free_cell", !.following = old.prev,
                                  !.lost_place = lost],
             IF exec.prev.block_num = 0
             THEN /\ file' = WriteNode(file, exec.node, node)
                  /\ ctrl_block' = file'[0]
                  /\ AllFlushed
             ELSE /\ file' = IF IsNode(file, exec.prev) THEN WriteNode(file, exec.node, node)
                             ELSE WriteCell(file, exec.prev, prev_cell)
                  /\ UNCHANGED ctrl_block
                  /\ LastWriteUnflushed
      PROVE  BInv'
  <2>1. exec'.pc = "free_cell"  BY <1>2, <1>6 DEF exec_type
  <2>2. old.prev \in cell_ptr  BY <1>1, <1>2, <1>6, CellAtType DEF cell
  <2>3. node \in node_cell
    BY <1>1, <1>2, <1>6, <2>2, NodeAtType DEF node_cell
  <2>4. IsNode(file, exec.node) /\ (IsNode(file, exec.prev) \/ IsCell(file, kind, exec.prev))
    BY <1>6
  <2> HIDE DEF node, prev_cell
  <2>5. SameLinks(file, WriteNode(file, exec.node, node))
    BY <1>2, <2>3, <2>4, NodeWriteLinks
  <2>6. SameLinks(file, file')
    BY <1>1, <1>6, <2>4, <2>5, CellWriteLinks
  <2>7. ctrl_block = file[0]  BY <1>1 DEF CInv, ControlCoherent
  <2>8. /\ ctrl_block'.empty_block = ctrl_block.empty_block
        /\ ctrl_block'.prev_node_block = ctrl_block.prev_node_block
    BY <1>6, <2>6, <2>7 DEF SameLinks
  <2>9. disk' \in {file, file'}  BY <1>6 DEF AllFlushed, LastWriteUnflushed
  <2> QED  BY <1>1, <2>1, <2>6, <2>8, <2>9, WritingStep DEF UpdatingPCs
<1>7. CASE disk' = file /\ UNCHANGED file /\ Stop
  <2>1. exec'.pc = "down"  BY <1>7 DEF Stop, Idle
  <2>2. SoundFile(file)  BY <1>1 DEF BInv, FileLinked
  <2> QED  BY <1>7, <2>1, <2>2, StopBlocks
<1> QED  BY <1>3, <1>4, <1>5, <1>6, <1>7 DEF remove_cell

(* The loops, and the search for an attribute.                             *)
LEMMA LoopBlocks ==
  ASSUME CInv, BInv, next_node \/ next_second \/ next_job \/ respond \/ find_node_attribute
  PROVE  BInv'
<1>1. exec \in exec_type  BY Unfold DEF CInv
<1>2. ~ Down /\ ~ Updating /\ UNCHANGED <<file, ctrl_block>>
  BY DEF next_node, next_second, next_job, respond, find_node_attribute, Down, Updating, ReadOnly
<1>3. disk' = file \/ (disk' = disk /\ exec.pc \in {"next", "next_second"})
  BY DEF next_node, next_second, next_job, respond, find_node_attribute, ReadOnly
<1>4. exec'.pc \in {"wild", "next", "create_cell", "idle", "find_node_attribute",
                    "create_string_cell", "remove", "next_second", "free_node"}
  <2>1. CASE next_node
    <3> DEFINE texts == IF job.op = "add" THEN Texts(job) ELSE << >>
               strings == IF job.op = "relate" THEN exec.strings ELSE << >>
               current(p) == IF job.op \in {"put", "remove"}
                             THEN NodeAt(file, p).last[job.kind] ELSE Null
    <3>1. PICK p \in exec.left :
            \/ exec' = [exec EXCEPT
                 !.pc = Entry(job.op), !.left = @ \ {p}, !.node = p, !.prev = p,
                 !.texts = texts, !.strings = strings,
                 !.following = Null, !.has_changed = FALSE,
                 !.others = exec.seconds, !.lost_place = FALSE, !.current = current(p)]
            \/ exec' = [exec EXCEPT !.pc = "wild"]
      BY <2>1 DEF next_node
    <3> HIDE DEF texts, strings, current
    <3>2. exec'.pc = Entry(job.op) \/ exec'.pc = "wild"  BY <1>1, <3>1 DEF exec_type
    <3> QED  BY <3>2 DEF Entry
  <2>2. CASE next_second \/ next_job \/ respond \/ find_node_attribute
    BY <1>1, <2>2 DEF next_second, next_job, respond, find_node_attribute, exec_type, Idle
  <2> QED  BY <2>1, <2>2
<1> QED  BY <1>2, <1>3, <1>4, ReadingStep DEF UpdatingPCs

-----------------------------------------------------------------------------
(* The beginning of a command, and of a process.                           *)
LEMMA CreateJobsAdd ==
  ASSUME NEW info \in Commands, info.command_type = "create", ~ info.has_relation,
         Jobs(info) # << >>
  PROVE  Head(Jobs(info)).op = "add"
<1>1. info.labels \in Seq(String) /\ info.props \in Seq(property)
  BY CommandsAssumption DEF query_info
<1> DEFINE s == LabelJobs("add", info.labels)
           t == PropJobs("add", info.props)
           W == [op : {"add"}, kind : {"LABEL", "ATTRIBUTE"},
                 name : String, value : String \cup {ALL}]
<1>2. Jobs(info) = s \o t  BY DEF Jobs
<1>3. s \in Seq(W)  BY <1>1 DEF LabelJobs, LabelJob
<1>4. t \in Seq(W)
  <2>1. \A p \in property : PropJob("add", p) \in W  BY DEF PropJob, property
  <2> QED  BY <1>1, <2>1 DEF PropJobs
<1>5. \A w \in W : w.op = "add"  OBVIOUS
<1> HIDE DEF s, t, W
<1>6. s \o t \in Seq(W)  BY <1>3, <1>4
<1>7. Head(s \o t) \in W  BY <1>2, <1>6
<1> QED  BY <1>2, <1>5, <1>7

LEMMA ExecutingBlocks ==
  ASSUME CInv, BInv, Execute
  PROVE  BInv'
<1>1. PICK info \in Commands : \/ execute_match(info) \/ execute_create(info)
                               \/ execute_create_relation(info)
                               \/ execute_set(info) \/ execute_remove(info)
                               \/ execute_delete(info)
  BY DEF Execute
<1>2. exec.pc = "idle" /\ ~ Down /\ ~ Updating /\ ReadOnly
  BY <1>1 DEF execute_match, execute_create, execute_create_relation, execute_set,
              execute_remove, execute_delete, OnMatched, Starting, Down, Updating
<1>3. CASE execute_create(info)
  <2>1. /\ exec' = [Idle EXCEPT !.pc = "create_node_cell", !.jobs = Jobs(info), !.number = 1]
        /\ info.command_type = "create" /\ ~ info.has_relation
    BY <1>3 DEF execute_create, Starting
  <2>2. exec'.pc = "create_node_cell" /\ exec'.jobs = Jobs(info)  BY <2>1 DEF Idle
  <2>3. OnlyAdds'  BY <2>1, <2>2, CreateJobsAdd DEF OnlyAdds, job
  <2>4. SameLinks(file, file')  BY <1>2 DEF SameLinks, ReadOnly
  <2> QED  BY <1>2, <2>2, <2>3, <2>4, QuietStep DEF Quiet, ReadOnly, ChainPCs
<1>4. CASE ~ execute_create(info)
  <2>1. exec'.pc \in {"idle", "wild", "create_string_cell", "next"}
    <3>1. CASE execute_match(info)  BY <3>1 DEF execute_match, OnMatched, Respond, Idle
    <3>2. CASE execute_create_relation(info)  BY <3>2 DEF execute_create_relation, Idle
    <3>3. CASE execute_set(info)  BY <3>3 DEF execute_set, OnMatched, Run, Idle
    <3>4. CASE execute_remove(info)  BY <3>4 DEF execute_remove, OnMatched, Run, Idle
    <3>5. CASE execute_delete(info)  BY <3>5 DEF execute_delete, OnMatched, Run, Idle
    <3> QED  BY <1>1, <1>4, <3>1, <3>2, <3>3, <3>4, <3>5
  <2> QED  BY <1>2, <2>1, ReadingStep DEF ReadOnly, UpdatingPCs
<1> QED  BY <1>3, <1>4

(* At a safe point the file and the disk are both sound.                   *)
LEMMA SafeToStop ==
  ASSUME CInv, RelateInv, BInv, SafePoint(At)
  PROVE  SoundFile(file) /\ SoundFile(disk)
<1>1. At[1] = exec.pc /\ At[2] = IF exec.jobs = << >> THEN "none" ELSE job.op  BY DEF At
<1>2. exec.pc # "wild" /\ Place \notin AllocPCs
  <2>1. CASE exec.pc \notin AllocPCs \cup UpdatingPCs \cup {"wild"}
    BY <2>1 DEF Place, Updating, UpdatingPCs
  <2>2. CASE exec.pc = "update_control_block" /\ At[2] \in {"remove", "free"}
    <3>1. exec.jobs # << >> /\ job.op \in {"remove", "free"}  BY <1>1, <2>2
    <3>2. Place # "create_node_cell"  BY <3>1 DEF BInv, OnlyAdds
    <3>3. Place \notin StringPCs \cup {"create_cell", "update_node"}  BY <3>1 DEF RelateInv
    <3> QED  BY <2>2, <3>2, <3>3 DEF AllocPCs, StringPCs
  <2> QED  BY <1>1, <2>1, <2>2 DEF SafePoint
<1> QED  BY <1>2 DEF BInv, FileLinked, DiskLinked

LEMMA StartOrStopBlocks ==
  ASSUME CInv, RelateInv, BInv, SafePoints, init_data \/ kill \/ quit
  PROVE  BInv'
<1>1. Idle.pc = "idle" /\ Idle.jobs = << >> /\ [Idle EXCEPT !.pc = "wild"].pc = "wild"
      /\ [Idle EXCEPT !.pc = "down"].pc = "down"
  BY DEF Idle
<1>2. CASE kill
  <2>1. SoundFile(disk)  BY <1>2, SafeToStop DEF kill, SafePoints
  <2> QED  BY <1>1, <1>2, <2>1, StopBlocks DEF kill, Stop
<1>3. CASE quit
  <2>1. SoundFile(file)  BY <1>3, SafeToStop DEF quit, SafePoints
  <2> QED  BY <1>1, <1>3, <2>1, StopBlocks DEF quit, Stop, AllFlushed
<1>4. CASE init_data
  <2>1. SoundFile(file) /\ SoundFile(disk)
    BY <1>4 DEF init_data, BInv, FileLinked, DiskLinked, Place, Updating, AllocPCs
  <2>2. CASE file[0].type = "CONTROL"
    <3>1. exec' = Idle /\ ctrl_block' = file[0] /\ UNCHANGED <<file, disk>>
      BY <1>4, <2>2 DEF init_data
    <3>2. MemLinked'  BY <1>1, <2>1, <2>2, <3>1 DEF MemLinked, SoundFile
    <3> QED  BY <1>1, <2>1, <3>1, <3>2
             DEF BInv, FileLinked, DiskLinked, OnlyAdds, Place, Updating
  <2>3. CASE file[0].type # "CONTROL"
    <3>1. exec'.pc = "wild"  BY <1>1, <1>4, <2>3 DEF init_data
    <3> QED  BY <3>1 DEF BInv, MemLinked, FileLinked, DiskLinked, OnlyAdds, Place,
                         Updating, Down
  <2> QED  BY <2>2, <2>3
<1> QED  BY <1>2, <1>3, <1>4

LEMMA InitiallyLinked == Init => BInv
<1> SUFFICES ASSUME Init  PROVE BInv
  OBVIOUS
<1>1. 0 \in Block /\ \A b \in Block : b \in Nat  BY LayoutAssumption DEF Block
<1>2. /\ exec.pc = "idle" /\ exec.jobs = << >>
      /\ ctrl_block.empty_block = 1 /\ ctrl_block.prev_node_block = 0
      /\ file[0] = ctrl_block /\ file[0].type = "CONTROL"
      /\ \A b \in Block : b # 0 => file[b].type = "ABSENT"
      /\ disk[0].type = "ABSENT"
  BY <1>1 DEF Init, Idle, NewControl, EmptyFile, Absent
<1>3. Linked(file, 1, 0)
  <2>1. \A b \in Block : b < 1 => b = 0  BY <1>1
  <2>2. \A b \in Block : ~ (0 < b /\ b < 1)  BY <1>1
  <2>3. LatestBelow(file, 1, 0)  BY <2>2 DEF LatestBelow
  <2> QED  BY <1>2, <2>1, <2>3 DEF Linked
<1>4. AbsentFrom(file, 1)  BY <1>1, <1>2 DEF AbsentFrom
<1> QED  BY <1>2, <1>3, <1>4 DEF BInv, MemLinked, FileLinked, DiskLinked, SoundFile, OnlyAdds,
         Place, Updating, ChainPCs

LEMMA InductiveBlocks ==
  ASSUME SafePoints
  PROVE  CInv /\ RelateInv /\ BInv /\ [Next]_vars => BInv'
<1> SUFFICES ASSUME CInv, RelateInv, BInv, [Next]_vars  PROVE BInv'
  OBVIOUS
<1>1. CASE Step
  <2>1. CASE create_label_cell \/ create_attribute_cell \/ create_relation_cell
    BY <2>1, CreateCellBlocks
    DEF create_label_cell, create_attribute_cell, create_relation_cell, CellKind
  <2>2. CASE update_node_labels \/ update_node_attributes \/ update_node_relations
    BY <2>2, UpdateNodeBlocks
    DEF update_node_labels, update_node_attributes, update_node_relations, CellKind
  <2>3. CASE remove_labels \/ remove_attributes \/ delete_relations
    BY <2>3, RemoveCellBlocks DEF remove_labels, remove_attributes, delete_relations, CellKind
  <2> QED
    BY <1>1, <2>1, <2>2, <2>3, ControlBlocks, ChainBlocks, ChainControlBlocks,
       CreateNodeBlocks, LoopBlocks, CreateStringBlocks, StringInNewBlockBlocks,
       WriteValueBlocks, FreeCellBlocks, FreeNodeBlocks
    DEF Step
<1>2. CASE Execute  BY <1>2, ExecutingBlocks
<1>3. CASE init_data \/ kill \/ quit  BY <1>3, StartOrStopBlocks
<1>4. CASE UNCHANGED vars
  BY <1>4 DEF vars, BInv, MemLinked, FileLinked, DiskLinked, OnlyAdds, Place, Updating, Down, job
<1> QED  BY <1>1, <1>2, <1>3, <1>4 DEF Next

LEMMA LinkedAtRest == CInv /\ BInv => BlocksLinked
<1> SUFFICES ASSUME CInv, BInv, AtRest
             PROVE  /\ \A b \in Block : file[b].type = "ABSENT" <=> b >= file[0].empty_block
                    /\ \A b \in Block : file[b].type = "NODE" => b \in NodeBlocks(file)
                    /\ ScanEnds(file)
  BY DEF BlocksLinked
<1> DEFINE e == ctrl_block.empty_block
           q == ctrl_block.prev_node_block
<1>1. exec.pc = "idle" /\ ~ Down /\ ~ Updating  BY DEF AtRest, Down, Updating
<1>2. ctrl_block = file[0] /\ file[0].type = "CONTROL" /\ e \in 1 .. MAX_BLOCKS /\ q \in Block
  BY <1>1, Unfold DEF CInv, ControlCoherent, IInv, ControlBlock
<1>3. Linked(file, e, q) /\ AbsentFrom(file, e)
  BY <1>1 DEF BInv, MemLinked, ChainPCs
<1>4. Scannable(file, e)  BY <1>2, <1>3 DEF Scannable
<1>5. ASSUME NEW b \in Block  PROVE file[b].type = "ABSENT" <=> b >= e
  <2>1. b \in Int /\ e \in Int  BY <1>2, LayoutAssumption DEF Block
  <2> QED  BY <1>3, <2>1 DEF Linked, AbsentFrom
<1> QED  BY <1>2, <1>4, <1>5, ScanMeetsAll

(* At every moment between two commands the control block tells which      *)
(* blocks of the file are in use, and the scan of match reaches every node *)
(* block there is and ends (allocate_new_block and match): for every size  *)
(* of the file and of its blocks, every command, and a process killed or   *)
(* stopped at any point at which no new block is on its way into the file. *)
THEOREM BlocksAlwaysLinked ==
  ASSUME SafePoints
  PROVE  Spec => []BlocksLinked
<1>1. Init => CInv /\ RelateInv
  <2> SUFFICES ASSUME Init  PROVE CInv /\ RelateInv
    OBVIOUS
  <2>1. exec.pc = "idle"  BY DEF Init, Idle
  <2>2. ctrl_block = file[0]  BY LayoutAssumption DEF Init, EmptyFile, Block
  <2> QED  BY <2>1, <2>2, Initially
           DEF CInv, ControlCoherent, PrevOK, Removing, RetOK, UpdatingPCs, RemovingPCs
<1>2. CInv /\ RelateInv /\ BInv /\ [Next]_vars => (CInv /\ RelateInv /\ BInv)'
  BY InductiveCoherent, InductiveBlocks
<1> QED  BY <1>1, <1>2, InitiallyLinked, LinkedAtRest, PTL DEF Spec
-----------------------------------------------------------------------------
(* The nodes of a file, as the pool of nodes sees them: in use, or free;   *)
(* a free one was freed, if it leads to the next one to hand out, or was   *)
(* never used.                                                             *)
Link(f, p) == NodeAt(f, p).last["LABEL"]
InUse(f, p) == IsNode(f, p) /\ NodeAt(f, p).is_empty = 1
Unused(f, p) == IsNode(f, p) /\ NodeAt(f, p).is_empty = 0 /\ Link(f, p) = Null
Freed(f, p) == IsNode(f, p) /\ NodeAt(f, p).is_empty = 0 /\ Link(f, p) # Null
Precedes(p, q) == p.block_num = q.block_num /\ p.offset < q.offset

(* The pool with its head at h.  It can hand out h: there is no room left, *)
(* or h was freed, or is the first of its block that was never used.  What *)
(* a freed node leads to can be handed out as well, and nothing else leads *)
(* there.  Behind a node never used there are only such nodes.  The first  *)
(* node is in use unless none has ever been: a link that leads to it would *)
(* be none.                                                                *)
FirstUnused(f, p) == Unused(f, p) /\ \A q \in cell_ptr : Precedes(q, p) => ~ Unused(f, q)
CanHandOut(f, p) == p = NoRoom \/ Freed(f, p) \/ FirstUnused(f, p)
NoneUsed(f) == \A p \in cell_ptr : ~ InUse(f, p) /\ ~ Freed(f, p)
FilledInOrder(f) ==
  \A p, q \in cell_ptr : Unused(f, p) /\ IsNode(f, q) /\ Precedes(p, q) => Unused(f, q)
LinksApart(f, h) ==
  \A p \in cell_ptr : Freed(f, p) =>
    /\ CanHandOut(f, Link(f, p))
    /\ Link(f, p) # NoRoom =>
         /\ Link(f, p) # h
         /\ \A q \in cell_ptr : Freed(f, q) /\ q # p => Link(f, q) # Link(f, p)
PoolSound(f, h) ==
  /\ CanHandOut(f, h)
  /\ FilledInOrder(f)
  /\ LinksApart(f, h)
  /\ InUse(f, Null) \/ (h = Null /\ NoneUsed(f))

(* The writes that leave the nodes as the pool sees them, but for p.       *)
SameNode(f, g, q) ==
  /\ IsNode(g, q) <=> IsNode(f, q)
  /\ IsNode(f, q) =>
       /\ NodeAt(g, q).is_empty = NodeAt(f, q).is_empty
       /\ NodeAt(f, q).is_empty = 0 => Link(g, q) = Link(f, q)
SameUse(f, g) == \A q \in cell_ptr : SameNode(f, g, q)
SameElsewhere(f, g, p) == \A q \in cell_ptr : q # p => SameNode(f, g, q)

LEMMA SameNodeSeen ==
  ASSUME NEW f, NEW g, NEW q, SameNode(f, g, q)
  PROVE  /\ InUse(g, q) <=> InUse(f, q)
         /\ Unused(g, q) <=> Unused(f, q)
         /\ Freed(g, q) <=> Freed(f, q)
         /\ Freed(f, q) => Link(g, q) = Link(f, q)
BY DEF SameNode, InUse, Unused, Freed

LEMMA NodeStates ==
  ASSUME NEW f \in File, NEW q, IsNode(f, q)
  PROVE  /\ InUse(f, q) \/ Unused(f, q) \/ Freed(f, q)
         /\ Link(f, q) \in cell_ptr
<1>1. NodeAt(f, q) \in node_cell  BY NodeAtType
<1>2. NodeAt(f, q).is_empty \in {0, 1} /\ Link(f, q) \in cell_ptr
  BY <1>1 DEF node_cell, Link, CellKind
<1> QED  BY <1>2 DEF InUse, Unused, Freed

LEMMA Apart ==
  ASSUME NEW f, NEW q
  PROVE  /\ ~ (InUse(f, q) /\ (Unused(f, q) \/ Freed(f, q))) /\ ~ (Unused(f, q) /\ Freed(f, q))
         /\ InUse(f, q) \/ Unused(f, q) \/ Freed(f, q) => IsNode(f, q) /\ q # NoRoom
<1>1. NoRoom.block_num = -1 /\ -1 \notin Block  BY LayoutAssumption DEF NoRoom, Ptr, Block
<1> QED  BY <1>1 DEF InUse, Unused, Freed, IsNode

(* Any other write leaves a sound pool sound.                              *)
LEMMA PoolKept ==
  ASSUME NEW f \in File, NEW g, SameUse(f, g), NEW h \in cell_ptr, PoolSound(f, h)
  PROVE  PoolSound(g, h)
<1>1. \A q \in cell_ptr :
        /\ IsNode(g, q) <=> IsNode(f, q)
        /\ InUse(g, q) <=> InUse(f, q)
        /\ Unused(g, q) <=> Unused(f, q)
        /\ Freed(g, q) <=> Freed(f, q)
        /\ Freed(f, q) => Link(g, q) = Link(f, q)
  <2> SUFFICES ASSUME NEW q \in cell_ptr
               PROVE  /\ IsNode(g, q) <=> IsNode(f, q)
                      /\ InUse(g, q) <=> InUse(f, q)
                      /\ Unused(g, q) <=> Unused(f, q)
                      /\ Freed(g, q) <=> Freed(f, q)
                      /\ Freed(f, q) => Link(g, q) = Link(f, q)
    OBVIOUS
  <2>1. SameNode(f, g, q)  BY DEF SameUse
  <2> QED  BY <2>1, SameNodeSeen DEF SameNode
<1>2. \A q \in cell_ptr : CanHandOut(f, q) => CanHandOut(g, q)
  BY <1>1 DEF CanHandOut, FirstUnused
<1>3. \A q \in cell_ptr : Freed(f, q) => Link(f, q) \in cell_ptr
  BY NodeStates DEF Freed
<1>4. CanHandOut(g, h)  BY <1>2 DEF PoolSound
<1>5. FilledInOrder(g)  BY <1>1 DEF PoolSound, FilledInOrder
<1>6. LinksApart(g, h)  BY <1>1, <1>2, <1>3 DEF PoolSound, LinksApart
<1>7. InUse(g, Null) \/ (h = Null /\ NoneUsed(g))
  BY <1>1, ZeroTypes DEF PoolSound, NoneUsed
<1> QED  BY <1>4, <1>5, <1>6, <1>7 DEF PoolSound

(* A node is taken from the head of the pool.                              *)
LEMMA TakeNode ==
  ASSUME NEW f \in File, NEW g, NEW h \in cell_ptr, PoolSound(f, h), IsNode(f, h),
         SameElsewhere(f, g, h), InUse(g, h)
  PROVE  PoolSound(g, HeadAfter(h, Link(f, h), NodesIn(h.block_num)))
<1> DEFINE n == HeadAfter(h, Link(f, h), NodesIn(h.block_num))
<1>1. \A q \in cell_ptr \ {h} :
        /\ IsNode(g, q) <=> IsNode(f, q)
        /\ InUse(g, q) <=> InUse(f, q)
        /\ Unused(g, q) <=> Unused(f, q)
        /\ Freed(g, q) <=> Freed(f, q)
        /\ Freed(f, q) => Link(g, q) = Link(f, q)
  <2> SUFFICES ASSUME NEW q \in cell_ptr \ {h}
               PROVE  /\ IsNode(g, q) <=> IsNode(f, q)
                      /\ InUse(g, q) <=> InUse(f, q)
                      /\ Unused(g, q) <=> Unused(f, q)
                      /\ Freed(g, q) <=> Freed(f, q)
                      /\ Freed(f, q) => Link(g, q) = Link(f, q)
    OBVIOUS
  <2>1. SameNode(f, g, q)  BY DEF SameElsewhere
  <2> QED  BY <2>1, SameNodeSeen DEF SameNode
<1>2. /\ h # NoRoom /\ ~ InUse(f, h) /\ (Freed(f, h) \/ FirstUnused(f, h))
      /\ ~ Unused(g, h) /\ ~ Freed(g, h) /\ IsNode(g, h)
  <2>1. h # NoRoom  BY LayoutAssumption DEF IsNode, NoRoom, Ptr, Block
  <2>2. Freed(f, h) \/ FirstUnused(f, h)  BY <2>1 DEF PoolSound, CanHandOut
  <2> QED  BY <2>1, <2>2, Apart DEF FirstUnused
<1>3. \A q \in cell_ptr : Freed(f, q) => Link(f, q) \in cell_ptr
  BY NodeStates DEF Freed
<1>4. InUse(g, Null)
  <2>1. CASE h = Null  BY <2>1
  <2>2. CASE h # Null
    <3>1. InUse(f, Null)  BY <2>2 DEF PoolSound
    <3> QED  BY <1>1, <2>2, <3>1, ZeroTypes
  <2> QED  BY <2>1, <2>2
<1>5. \A q \in cell_ptr \ {h} : CanHandOut(f, q) => CanHandOut(g, q)
  BY <1>1, <1>2 DEF CanHandOut, FirstUnused
<1>6. ASSUME NEW p \in cell_ptr, Freed(g, p)
      PROVE  /\ p # h /\ Freed(f, p) /\ Link(g, p) = Link(f, p)
             /\ CanHandOut(g, Link(g, p))
             /\ Link(g, p) # NoRoom =>
                  \A q \in cell_ptr : Freed(g, q) /\ q # p => Link(g, q) # Link(g, p)
  <2>1. p # h /\ Freed(f, p) /\ Link(g, p) = Link(f, p)  BY <1>1, <1>2, <1>6
  <2>2. /\ CanHandOut(f, Link(f, p))
        /\ Link(f, p) # NoRoom =>
             /\ Link(f, p) # h
             /\ \A q \in cell_ptr : Freed(f, q) /\ q # p => Link(f, q) # Link(f, p)
    BY <2>1 DEF PoolSound, LinksApart
  <2>3. Link(f, p) # h /\ Link(f, p) \in cell_ptr  BY <1>2, <1>3, <2>1, <2>2
  <2>4. CanHandOut(g, Link(f, p))  BY <1>5, <2>2, <2>3
  <2>5. \A q \in cell_ptr : Freed(g, q) => Freed(f, q) /\ Link(g, q) = Link(f, q)
    BY <1>1, <1>2
  <2> QED  BY <2>1, <2>2, <2>4, <2>5
<1>7. CASE Freed(f, h)
  <2>1. n = Link(f, h)  BY <1>7 DEF HeadAfter, Freed
  <2>2. /\ CanHandOut(f, n) /\ n # h /\ n \in cell_ptr
        /\ n # NoRoom => \A q \in cell_ptr : Freed(f, q) /\ q # h => Link(f, q) # n
    BY <1>2, <1>3, <1>7, <2>1 DEF PoolSound, LinksApart
  <2>3. CanHandOut(g, n)  BY <1>5, <2>2
  <2>4. \A q \in cell_ptr : Unused(g, q) <=> Unused(f, q)  BY <1>1, <1>2, <1>7, Apart
  <2>5. \A q \in cell_ptr : IsNode(g, q) <=> IsNode(f, q)  BY <1>1, <1>2
  <2>6. FilledInOrder(g)  BY <2>4, <2>5 DEF PoolSound, FilledInOrder
  <2>7. LinksApart(g, n)  BY <1>6, <2>2 DEF LinksApart
  <2> QED  BY <1>4, <2>3, <2>6, <2>7 DEF PoolSound
<1>8. CASE FirstUnused(f, h)
  <2>1. /\ h.block_num \in Block /\ h.offset \in Nat /\ h.offset <= NodesIn(h.block_num) - 1
        /\ NodesIn(h.block_num) \in Nat \ {0}
        /\ h = Ptr(h.block_num, h.offset)
    BY LayoutAssumption DEF IsNode, NodesIn, cell_ptr, Ptr
  <2>2. n = IF h.offset + 1 > NodesIn(h.block_num) - 1 THEN NoRoom
            ELSE Ptr(h.block_num, h.offset + 1)
    BY <1>8 DEF HeadAfter, FirstUnused, Unused
  <2>3. n # NoRoom => n \in cell_ptr /\ n # h /\ Unused(f, n) /\ ~ FirstUnused(f, n)
    <3>1. SUFFICES ASSUME n # NoRoom
                   PROVE  n \in cell_ptr /\ n # h /\ Unused(f, n) /\ ~ FirstUnused(f, n)
      OBVIOUS
    <3>2. n = Ptr(h.block_num, h.offset + 1) /\ h.offset + 1 <= NodesIn(h.block_num) - 1
      BY <2>1, <2>2, <3>1
    <3> HIDE DEF n
    <3>3. n.block_num = h.block_num /\ n.offset = h.offset + 1 /\ n \in cell_ptr
      BY <2>1, <3>2, LayoutAssumption DEF Ptr, cell_ptr, Block
    <3>4. Precedes(h, n) /\ n # h /\ IsNode(f, n)
      BY <2>1, <3>2, <3>3 DEF Precedes, IsNode
    <3>5. Unused(f, n)  BY <1>8, <3>3, <3>4 DEF PoolSound, FilledInOrder, FirstUnused
    <3> QED  BY <1>8, <3>3, <3>4, <3>5 DEF FirstUnused
  <2>4. CanHandOut(g, n)
    <3>1. SUFFICES ASSUME n # NoRoom  PROVE FirstUnused(g, n)
      BY DEF CanHandOut
    <3>2. n = Ptr(h.block_num, h.offset + 1)  BY <2>2, <3>1
    <3> HIDE DEF n
    <3>3. n.block_num = h.block_num /\ n.offset = h.offset + 1
      BY <3>2 DEF Ptr
    <3>4. Unused(g, n)  BY <1>1, <2>3, <3>1
    <3>5. ASSUME NEW q \in cell_ptr, Precedes(q, n), Unused(g, q)  PROVE FALSE
      <4>1. q # h /\ Unused(f, q)  BY <1>1, <1>2, <3>5
      <4>2. q.block_num = h.block_num /\ q.offset < h.offset + 1 /\ q.offset \in Nat
        BY <3>3, <3>5 DEF Precedes, cell_ptr
      <4>3. q.offset # h.offset
        <5>1. q = Ptr(q.block_num, q.offset)  BY DEF cell_ptr, Ptr
        <5> QED  BY <2>1, <4>1, <4>2, <5>1
      <4>4. Precedes(q, h)  BY <2>1, <4>2, <4>3 DEF Precedes
      <4> QED  BY <1>8, <4>1, <4>4 DEF FirstUnused
    <3> QED  BY <3>4, <3>5 DEF FirstUnused
  <2>5. FilledInOrder(g)
    <3> SUFFICES ASSUME NEW p \in cell_ptr, NEW q \in cell_ptr,
                        Unused(g, p), IsNode(g, q), Precedes(p, q)
                 PROVE  Unused(g, q)
      BY DEF FilledInOrder
    <3>1. p # h /\ Unused(f, p)  BY <1>1, <1>2
    <3>2. q # h  BY <1>8, <3>1 DEF FirstUnused
    <3>3. Unused(f, q)  BY <1>1, <3>1, <3>2 DEF PoolSound, FilledInOrder
    <3> QED  BY <1>1, <3>2, <3>3
  <2>6. \A p \in cell_ptr : Freed(g, p) /\ Link(g, p) # NoRoom => Link(g, p) # n
    <3> SUFFICES ASSUME NEW p \in cell_ptr, Freed(g, p), Link(g, p) # NoRoom, Link(g, p) = n
                 PROVE  FALSE
      OBVIOUS
    <3>1. Freed(f, p) /\ Link(f, p) = n  BY <1>6
    <3> HIDE DEF n
    <3>2. CanHandOut(f, n)  BY <3>1 DEF PoolSound, LinksApart
    <3> QED  BY <2>3, <3>2, Apart DEF CanHandOut
  <2> HIDE DEF n
  <2>7. LinksApart(g, n)  BY <1>6, <2>6 DEF LinksApart
  <2>8. PoolSound(g, n)  BY <1>4, <2>4, <2>5, <2>7 DEF PoolSound
  <2> QED  BY <2>8 DEF n
<1> QED  BY <1>2, <1>7, <1>8

(* A node in use, though not the first one, is put in front of the pool.   *)
LEMMA HeadNotFirst ==
  ASSUME NEW f, NEW h, NEW p \in cell_ptr, PoolSound(f, h), InUse(f, p)
  PROVE  h # Null /\ InUse(f, Null) /\ h # p
<1>1. InUse(f, Null)  BY DEF PoolSound, NoneUsed
<1>2. \A q : InUse(f, q) => ~ CanHandOut(f, q)  BY Apart DEF CanHandOut, FirstUnused
<1> QED  BY <1>1, <1>2 DEF PoolSound

LEMMA GiveNode ==
  ASSUME NEW f \in File, NEW g, NEW h \in cell_ptr, NEW p \in cell_ptr, PoolSound(f, h),
         InUse(f, p), p # Null, SameElsewhere(f, g, p), Freed(g, p), Link(g, p) = h
  PROVE  PoolSound(g, p)
<1>1. \A q \in cell_ptr \ {p} :
        /\ IsNode(g, q) <=> IsNode(f, q)
        /\ InUse(g, q) <=> InUse(f, q)
        /\ Unused(g, q) <=> Unused(f, q)
        /\ Freed(g, q) <=> Freed(f, q)
        /\ Freed(f, q) => Link(g, q) = Link(f, q)
  <2> SUFFICES ASSUME NEW q \in cell_ptr \ {p}
               PROVE  /\ IsNode(g, q) <=> IsNode(f, q)
                      /\ InUse(g, q) <=> InUse(f, q)
                      /\ Unused(g, q) <=> Unused(f, q)
                      /\ Freed(g, q) <=> Freed(f, q)
                      /\ Freed(f, q) => Link(g, q) = Link(f, q)
    OBVIOUS
  <2>1. SameNode(f, g, q)  BY DEF SameElsewhere
  <2> QED  BY <2>1, SameNodeSeen DEF SameNode
<1>2. /\ p # NoRoom /\ ~ Unused(f, p) /\ ~ Freed(f, p) /\ IsNode(f, p)
      /\ ~ Unused(g, p) /\ IsNode(g, p)
  BY Apart
<1>3. InUse(g, Null) /\ h # p  BY <1>1, HeadNotFirst, ZeroTypes
<1>4. \A q \in cell_ptr : (Unused(g, q) <=> Unused(f, q)) /\ (IsNode(g, q) <=> IsNode(f, q))
  BY <1>1, <1>2
<1>5. \A q \in cell_ptr : CanHandOut(f, q) => CanHandOut(g, q) /\ q # p
  <2>1. \A q \in cell_ptr : FirstUnused(f, q) <=> FirstUnused(g, q)
    BY <1>4 DEF FirstUnused
  <2> QED  BY <1>1, <1>2, <2>1 DEF CanHandOut, FirstUnused
<1>6. CanHandOut(g, p)  BY DEF CanHandOut
<1>7. FilledInOrder(g)  BY <1>4 DEF PoolSound, FilledInOrder
<1>8. \A q \in cell_ptr : Freed(f, q) =>
        /\ q # p /\ Link(g, q) = Link(f, q)
        /\ CanHandOut(g, Link(f, q)) /\ Link(f, q) # p
        /\ Link(f, q) # NoRoom =>
             /\ Link(f, q) # h
             /\ \A r \in cell_ptr : Freed(f, r) /\ r # q => Link(f, r) # Link(f, q)
  <2> SUFFICES ASSUME NEW q \in cell_ptr, Freed(f, q)
               PROVE  /\ q # p /\ Link(g, q) = Link(f, q)
                      /\ CanHandOut(g, Link(f, q)) /\ Link(f, q) # p
                      /\ Link(f, q) # NoRoom =>
                           /\ Link(f, q) # h
                           /\ \A r \in cell_ptr : Freed(f, r) /\ r # q => Link(f, r) # Link(f, q)
    OBVIOUS
  <2>1. q # p /\ Link(g, q) = Link(f, q)  BY <1>1, <1>2
  <2>2. Link(f, q) \in cell_ptr  BY NodeStates DEF Freed
  <2>3. /\ CanHandOut(f, Link(f, q))
        /\ Link(f, q) # NoRoom =>
             /\ Link(f, q) # h
             /\ \A r \in cell_ptr : Freed(f, r) /\ r # q => Link(f, r) # Link(f, q)
    BY DEF PoolSound, LinksApart
  <2> QED  BY <1>5, <2>1, <2>2, <2>3
<1>9. LinksApart(g, p)
  <2> SUFFICES ASSUME NEW q \in cell_ptr, Freed(g, q)
               PROVE  /\ CanHandOut(g, Link(g, q))
                      /\ Link(g, q) # NoRoom =>
                           /\ Link(g, q) # p
                           /\ \A r \in cell_ptr : Freed(g, r) /\ r # q => Link(g, r) # Link(g, q)
    BY DEF LinksApart
  <2>1. CASE q = p
    <3>1. CanHandOut(g, h)  BY <1>5 DEF PoolSound
    <3>2. ASSUME NEW r \in cell_ptr, Freed(g, r), r # p, h # NoRoom  PROVE Link(g, r) # h
      <4>1. Freed(f, r)  BY <1>1, <3>2
      <4> QED  BY <1>8, <3>2, <4>1
    <3> QED  BY <1>3, <2>1, <3>1, <3>2
  <2>2. CASE q # p
    <3>1. Freed(f, q)  BY <1>1, <2>2
    <3>2. ASSUME NEW r \in cell_ptr, Freed(g, r), r # q, Link(f, q) # NoRoom
          PROVE  Link(g, r) # Link(f, q)
      <4>1. CASE r = p  BY <1>8, <3>1, <3>2, <4>1
      <4>2. CASE r # p
        <5>1. Freed(f, r)  BY <1>1, <3>2, <4>2
        <5> QED  BY <1>8, <3>1, <3>2, <5>1
      <4> QED  BY <4>1, <4>2
    <3> QED  BY <1>8, <3>1, <3>2
  <2> QED  BY <2>1, <2>2
<1> QED  BY <1>3, <1>6, <1>7, <1>9 DEF PoolSound

(* A new block of nodes, when there is no room left.                       *)
LEMMA NewNodes ==
  ASSUME NEW f \in File, NEW g, NEW b \in Block, b # 0, f[b].type = "ABSENT",
         g[b] = ZeroBlock("NODE"), \A a \in Block : a # b => g[a] = f[a],
         PoolSound(f, NoRoom)
  PROVE  PoolSound(g, Ptr(b, 0))
<1> DEFINE n == Ptr(b, 0)
<1>1. n.block_num = b /\ n.offset = 0 /\ n \in cell_ptr /\ n # NoRoom
  BY LayoutAssumption DEF Ptr, NoRoom, cell_ptr, Block
<1>2. ASSUME NEW q \in cell_ptr, q.block_num # b  PROVE SameNode(f, g, q)
  BY <1>2 DEF SameNode, IsNode, NodeAt, Link
<1>3. ASSUME NEW q \in cell_ptr, q.block_num = b
      PROVE  ~ IsNode(f, q) /\ (IsNode(g, q) => Unused(g, q))
  <2>1. ~ IsNode(f, q)  BY <1>3 DEF IsNode
  <2>2. ASSUME IsNode(g, q)  PROVE Unused(g, q)
    <3>1. q.offset \in 0 .. NODES_IN_BLOCK - 1  BY <1>3, <2>2 DEF IsNode, NodesIn
    <3> DEFINE zeroes == [o \in 0 .. NODES_IN_BLOCK - 1 |-> ZeroNode]
    <3>2. g[b] = [type |-> "NODE", prev_block |-> 0, nodes |-> zeroes]  BY DEF ZeroBlock
    <3>3. zeroes[q.offset] = ZeroNode  BY <3>1
    <3> HIDE DEF zeroes
    <3>4. g[b].nodes = zeroes  BY <3>2
    <3>5. NodeAt(g, q) = ZeroNode  BY <1>3, <3>3, <3>4 DEF NodeAt
    <3>6. ZeroNode.is_empty = 0 /\ ZeroNode.last["LABEL"] = Null
      BY DEF ZeroNode, CellKind
    <3> QED  BY <2>2, <3>5, <3>6 DEF Unused, Link
  <2> QED  BY <2>1, <2>2
<1>4. Unused(g, n)
  <2>1. g[b].type = "NODE"  BY DEF ZeroBlock
  <2>2. IsNode(g, n)  BY <1>1, <2>1, LayoutAssumption DEF IsNode, NodesIn
  <2> QED  BY <1>1, <1>3, <2>2
<1> HIDE DEF n
<1>5. \A q \in cell_ptr : q.block_num # b =>
        /\ IsNode(g, q) <=> IsNode(f, q)
        /\ InUse(g, q) <=> InUse(f, q)
        /\ Unused(g, q) <=> Unused(f, q)
        /\ Freed(g, q) <=> Freed(f, q)
        /\ Freed(f, q) => Link(g, q) = Link(f, q)
  <2> SUFFICES ASSUME NEW q \in cell_ptr, q.block_num # b
               PROVE  /\ IsNode(g, q) <=> IsNode(f, q)
                      /\ InUse(g, q) <=> InUse(f, q)
                      /\ Unused(g, q) <=> Unused(f, q)
                      /\ Freed(g, q) <=> Freed(f, q)
                      /\ Freed(f, q) => Link(g, q) = Link(f, q)
    OBVIOUS
  <2>1. SameNode(f, g, q)  BY <1>2
  <2> QED  BY <2>1, SameNodeSeen DEF SameNode
<1>6. \A q \in cell_ptr : Unused(f, q) \/ Freed(f, q) \/ InUse(f, q) => q.block_num # b
  BY <1>3 DEF Unused, Freed, InUse
<1>7. \A q \in cell_ptr : Freed(g, q) \/ InUse(g, q) => q.block_num # b
  BY <1>3, Apart
<1>8. \A q \in cell_ptr : CanHandOut(f, q) => CanHandOut(g, q) /\ q # n
  <2>1. \A q \in cell_ptr : FirstUnused(f, q) => FirstUnused(g, q) /\ q # n
    BY <1>1, <1>5, <1>6 DEF FirstUnused, Precedes
  <2> QED  BY <1>1, <1>5, <1>6, <2>1 DEF CanHandOut
<1>9. FirstUnused(g, n)
  <2>1. \A q \in cell_ptr : ~ Precedes(q, n)
    BY <1>1 DEF Precedes, cell_ptr
  <2> QED  BY <1>4, <2>1 DEF FirstUnused
<1>10. FilledInOrder(g)
  <2> SUFFICES ASSUME NEW p \in cell_ptr, NEW q \in cell_ptr,
                      Unused(g, p), IsNode(g, q), Precedes(p, q)
               PROVE  Unused(g, q)
    BY DEF FilledInOrder
  <2>1. CASE q.block_num = b  BY <1>3, <2>1
  <2>2. CASE q.block_num # b
    <3>1. p.block_num # b  BY <2>2 DEF Precedes
    <3>2. Unused(f, p) /\ IsNode(f, q)  BY <1>5, <2>2, <3>1
    <3>3. Unused(f, q)  BY <3>2 DEF PoolSound, FilledInOrder
    <3> QED  BY <1>5, <2>2, <3>3
  <2> QED  BY <2>1, <2>2
<1>11. \A p \in cell_ptr : Freed(g, p) =>
         /\ Freed(f, p) /\ Link(g, p) = Link(f, p) /\ Link(f, p) \in cell_ptr
  BY <1>5, <1>7, NodeStates DEF Freed
<1>12. LinksApart(g, n)
  BY <1>8, <1>11 DEF PoolSound, LinksApart
<1>13. InUse(g, Null)
  <2>1. Null # NoRoom /\ Null.block_num = 0  BY DEF Null, NoRoom, Ptr
  <2>2. InUse(f, Null)  BY <2>1 DEF PoolSound
  <2> QED  BY <1>5, <2>1, <2>2, ZeroTypes
<1>14. PoolSound(g, n)  BY <1>9, <1>10, <1>12, <1>13 DEF PoolSound, CanHandOut
<1> QED  BY <1>14 DEF n

-----------------------------------------------------------------------------
(* What the writes of the program are to the nodes.                        *)
LEMMA NodeWritten ==
  ASSUME NEW f \in File, NEW p \in cell_ptr, IsNode(f, p), NEW n \in node_cell
  PROVE  /\ \A q : IsNode(WriteNode(f, p, n), q) <=> IsNode(f, q)
         /\ NodeAt(WriteNode(f, p, n), p) = n
         /\ \A q \in cell_ptr : q # p /\ IsNode(f, q) =>
              NodeAt(WriteNode(f, p, n), q) = NodeAt(f, q)
         /\ WriteNode(f, p, n)[0].head = f[0].head
<1> DEFINE g == WriteNode(f, p, n)
           b == p.block_num
           old == f[b]
           new == [old EXCEPT !.nodes[p.offset] = n]
<1>1. b \in Block /\ old \in block  BY DEF File, IsNode
<1>2. g = [f EXCEPT ![b] = new]  BY <1>1 DEF WriteNode, File
<1>3. /\ new.type = old.type /\ new.nodes[p.offset] = n
      /\ \A o : o # p.offset => new.nodes[o] = old.nodes[o]
  <2>1. CASE b = 0
    <3>1. old \in control_block  BY <1>1, <2>1, BlockForm DEF IsNode
    <3>2. p.offset \in DOMAIN old.nodes  BY <2>1, <3>1 DEF control_block, IsNode, NodesIn
    <3>3. new.type = old.type /\ new.nodes = [old.nodes EXCEPT ![p.offset] = n]
      BY <3>1 DEF control_block
    <3> HIDE DEF old, new
    <3> QED  BY <3>2, <3>3
  <2>2. CASE b # 0
    <3>1. old \in node_block  BY <1>1, <2>2, BlockForm DEF IsNode
    <3>2. p.offset \in DOMAIN old.nodes  BY <2>2, <3>1 DEF node_block, IsNode, NodesIn
    <3>3. new.type = old.type /\ new.nodes = [old.nodes EXCEPT ![p.offset] = n]
      BY <3>1 DEF node_block
    <3> HIDE DEF old, new
    <3> QED  BY <3>2, <3>3
  <2> QED  BY <2>1, <2>2
<1>9. b = 0 => new.head = old.head
  <2>1. b = 0 => old \in control_block  BY <1>1, BlockForm DEF IsNode
  <2> QED  BY <2>1 DEF control_block
<1> HIDE DEF new
<1>4. g[b] = new /\ f[b] = old /\ \A a \in Block \ {b} : g[a] = f[a]
  BY <1>1, <1>2 DEF File
<1> HIDE DEF g, old
<1>5. \A q : IsNode(g, q) <=> IsNode(f, q)
  <2> SUFFICES ASSUME NEW q  PROVE IsNode(g, q) <=> IsNode(f, q)
    OBVIOUS
  <2>1. q.block_num \in Block => g[q.block_num].type = f[q.block_num].type
    BY <1>3, <1>4
  <2> QED  BY <2>1 DEF IsNode
<1>6. NodeAt(g, p) = n  BY <1>3, <1>4 DEF NodeAt
<1>7. ASSUME NEW q \in cell_ptr, q # p, IsNode(f, q)  PROVE NodeAt(g, q) = NodeAt(f, q)
  <2>1. q.block_num \in Block  BY <1>7 DEF IsNode
  <2>2. CASE q.block_num = b
    <3>1. q.offset # p.offset  BY <1>7, <2>2 DEF cell_ptr
    <3> QED  BY <1>3, <1>4, <2>2, <3>1 DEF NodeAt
  <2>3. CASE q.block_num # b  BY <1>4, <2>1, <2>3 DEF NodeAt
  <2> QED  BY <2>2, <2>3
<1>10. g[0].head = f[0].head
  <2>1. CASE b = 0  BY <1>4, <1>9, <2>1
  <2>2. CASE b # 0  BY <1>4, <2>2, LayoutAssumption DEF Block
  <2> QED  BY <2>1, <2>2
<1> QED  BY <1>5, <1>6, <1>7, <1>10 DEF g

LEMMA NodeWriteSeen ==
  ASSUME NEW f \in File, NEW p \in cell_ptr, IsNode(f, p), NEW n \in node_cell
  PROVE  /\ SameElsewhere(f, WriteNode(f, p, n), p)
         /\ IsNode(WriteNode(f, p, n), p) /\ NodeAt(WriteNode(f, p, n), p) = n
         /\ WriteNode(f, p, n)[0].head = f[0].head
<1> DEFINE g == WriteNode(f, p, n)
<1>1. /\ \A q : IsNode(g, q) <=> IsNode(f, q)
      /\ NodeAt(g, p) = n /\ g[0].head = f[0].head
      /\ \A q \in cell_ptr : q # p /\ IsNode(f, q) => NodeAt(g, q) = NodeAt(f, q)
  BY NodeWritten
<1> HIDE DEF g
<1>2. SameElsewhere(f, g, p)  BY <1>1 DEF SameElsewhere, SameNode, Link
<1> QED  BY <1>1, <1>2 DEF g

(* A node in use is rewritten.                                             *)
LEMMA InUseWrite ==
  ASSUME NEW f \in File, NEW p \in cell_ptr, InUse(f, p), NEW n \in node_cell, n.is_empty = 1
  PROVE  SameUse(f, WriteNode(f, p, n)) /\ WriteNode(f, p, n)[0].head = f[0].head
<1>1. IsNode(f, p) /\ NodeAt(f, p).is_empty = 1  BY DEF InUse
<1> DEFINE g == WriteNode(f, p, n)
<1>2. /\ SameElsewhere(f, g, p) /\ IsNode(g, p) /\ NodeAt(g, p) = n
      /\ g[0].head = f[0].head
  BY <1>1, NodeWriteSeen
<1> HIDE DEF g
<1>3. SameNode(f, g, p)  BY <1>1, <1>2 DEF SameNode
<1>4. SameUse(f, g)  BY <1>2, <1>3 DEF SameUse, SameElsewhere
<1> QED  BY <1>2, <1>4 DEF g

(* A cell or a string is written.                                          *)
LEMMA OtherWriteSeen ==
  ASSUME NEW f, NEW g, NEW n, f[n].type \notin {"NODE", "CONTROL"},
         \A b \in Block : g[b].type = f[b].type,
         \A b \in Block : b # n => g[b] = f[b]
  PROVE  SameUse(f, g)
<1> SUFFICES ASSUME NEW q \in cell_ptr  PROVE SameNode(f, g, q)
  BY DEF SameUse
<1>1. q.block_num \in Block => g[q.block_num].type = f[q.block_num].type  OBVIOUS
<1>2. IsNode(g, q) <=> IsNode(f, q)  BY <1>1 DEF IsNode
<1>3. IsNode(f, q) => g[q.block_num] = f[q.block_num]  BY DEF IsNode
<1> QED  BY <1>2, <1>3 DEF SameNode, NodeAt, Link

(* The control block is written, with the nodes of the file.               *)
LEMMA ControlWriteSeen ==
  ASSUME NEW f \in File, f[0].type = "CONTROL", NEW c \in control_block, c.nodes = f[0].nodes
  PROVE  SameUse(f, [f EXCEPT ![0] = c])
<1> DEFINE g == [f EXCEPT ![0] = c]
<1>1. 0 \in Block /\ c.type = "CONTROL"  BY LayoutAssumption DEF Block, control_block
<1>2. g[0] = c /\ \A a \in Block \ {0} : g[a] = f[a]  BY <1>1 DEF File
<1> HIDE DEF g
<1>3. ASSUME NEW q \in cell_ptr  PROVE SameNode(f, g, q)
  <2>1. q.block_num \in Block => g[q.block_num].type = f[q.block_num].type
    BY <1>1, <1>2
  <2>2. IsNode(g, q) <=> IsNode(f, q)  BY <2>1 DEF IsNode
  <2>3. IsNode(f, q) => NodeAt(g, q) = NodeAt(f, q)  BY <1>2 DEF IsNode, NodeAt
  <2> QED  BY <2>2, <2>3 DEF SameNode, Link
<1>4. SameUse(f, g)  BY <1>3 DEF SameUse
<1> QED  BY <1>4 DEF g

(* A new block of cells or strings.                                        *)
LEMMA NewBlockSeen ==
  ASSUME NEW f, NEW g, NEW b \in Block, f[b].type = "ABSENT", NEW type \in Pool,
         type # "NODE", g[b] = ZeroBlock(type), \A a \in Block : a # b => g[a] = f[a]
  PROVE  SameUse(f, g)
<1> SUFFICES ASSUME NEW q \in cell_ptr  PROVE SameNode(f, g, q)
  BY DEF SameUse
<1>1. g[b].type = type  BY DEF ZeroBlock
<1>2. type \notin {"NODE", "CONTROL"}  BY DEF Pool, CellKind
<1>3. CASE q.block_num = b
  <2>1. ~ IsNode(f, q) /\ ~ IsNode(g, q)  BY <1>1, <1>2, <1>3 DEF IsNode
  <2> QED  BY <2>1 DEF SameNode
<1>4. CASE q.block_num # b
  <2>1. IsNode(g, q) <=> IsNode(f, q)  BY <1>4 DEF IsNode
  <2>2. IsNode(f, q) => NodeAt(g, q) = NodeAt(f, q)  BY <1>4 DEF IsNode, NodeAt
  <2> QED  BY <2>1, <2>2 DEF SameNode, Link
<1> QED  BY <1>3, <1>4

(* A new block of nodes is linked to the older ones.                       *)
LEMMA LinkedBlockSeen ==
  ASSUME NEW f, NEW g, NEW b \in Block, g[b].type = f[b].type, g[b].nodes = f[b].nodes,
         \A a \in Block : a # b => g[a] = f[a]
  PROVE  SameUse(f, g)
<1>1. \A a \in Block : g[a].type = f[a].type /\ g[a].nodes = f[a].nodes  OBVIOUS
<1>2. ASSUME NEW q \in cell_ptr  PROVE SameNode(f, g, q)
  <2>1. IsNode(g, q) <=> IsNode(f, q)  BY <1>1 DEF IsNode
  <2>2. IsNode(f, q) => NodeAt(g, q) = NodeAt(f, q)  BY <1>1 DEF IsNode, NodeAt
  <2> QED  BY <2>1, <2>2 DEF SameNode, Link
<1> QED  BY <1>2 DEF SameUse

-----------------------------------------------------------------------------
(* The inductive invariant: the pool is sound, in memory at every moment,  *)
(* on disk while a command neither creates nor deletes nodes; the nodes    *)
(* that a command works on are in use, and each is freed once.             *)
SoundNodes(f) == f[0].type = "CONTROL" => PoolSound(f, f[0].head["NODE"])
SteadyOps == {"put", "relate", "remove"}
NodePCs == {"create_cell", "update_node", "next_second", "find_node_attribute", "write_value",
            "remove", "free_cell", "free_node"}
AtNode == Place \in NodePCs \/ (Place \in StringPCs /\ job.op # "relate")

MemSound == ~ Down => PoolSound(file, ctrl_block.head["NODE"])
NewBlockBlank ==
  exec.pc = "chain_node_block" => file[ctrl_block.empty_block] = ZeroBlock("NODE")
DiskSound ==
  exec.jobs # << >> /\ job.op \in SteadyOps =>
    SoundNodes(disk) /\ file[0].head["NODE"] = ctrl_block.head["NODE"]
RestartSound == Place = "down" => exec.pc = "down" /\ SoundNodes(file)
InOrder(jobs) ==
  \A i, j \in 1 .. Len(jobs) : i < j =>
    /\ jobs[j].op \in SteadyOps => jobs[i].op \in SteadyOps
    /\ jobs[i].op # "free"
NodesHeld ==
  ~ Down /\ exec.jobs # << >> =>
    /\ \A p \in exec.left : InUse(file, p)
    /\ job.op # "free" => \A p \in exec.matched : InUse(file, p)
    /\ AtNode => InUse(file, exec.node)
    /\ Place = "free_node" => job.op = "free" /\ exec.node \notin exec.left
NInv ==
  MemSound /\ NewBlockBlank /\ DiskSound /\ RestartSound /\ InOrder(exec.jobs) /\ NodesHeld

(* Most steps leave the pool alone, and go on with the nodes at hand.      *)
SameNodes ==
  /\ exec'.jobs = exec.jobs /\ exec'.matched = exec.matched
  /\ exec'.left = exec.left /\ exec'.node = exec.node
  /\ exec'.pc # "chain_node_block" /\ Place' # "down"
  /\ AtNode' => AtNode
  /\ Place' = "free_node" => Place = "free_node"

LEMMA UseKept ==
  ASSUME CInv, NInv, ~ Down, SameUse(file, file'), SameNodes,
         ctrl_block'.head["NODE"] = ctrl_block.head["NODE"],
         file'[0].head["NODE"] \in {file[0].head["NODE"], ctrl_block.head["NODE"]},
         disk' \in {disk, file, file'}
  PROVE  NInv'
<1> DEFINE h == ctrl_block.head["NODE"]
<1>1. file \in File /\ h \in cell_ptr /\ exec \in exec_type
  BY Unfold DEF CInv, Pool
<1>2. PoolSound(file, h)  BY DEF NInv, MemSound
<1>3. PoolSound(file', h)  BY <1>1, <1>2, PoolKept
<1>4. MemSound'  BY <1>3 DEF MemSound
<1>5. job' = job  BY DEF SameNodes, job
<1>6. DiskSound'
  <2>1. SUFFICES ASSUME exec.jobs # << >>, job.op \in SteadyOps
                 PROVE  SoundNodes(disk') /\ file'[0].head["NODE"] = h
    BY <1>5 DEF DiskSound, SameNodes
  <2>2. SoundNodes(disk) /\ file[0].head["NODE"] = h  BY <2>1 DEF NInv, DiskSound
  <2>3. file'[0].head["NODE"] = h  BY <2>2
  <2>4. SoundNodes(file)  BY <1>2, <2>2 DEF SoundNodes
  <2>5. SoundNodes(file')  BY <1>3, <2>3 DEF SoundNodes
  <2> QED  BY <2>2, <2>3, <2>4, <2>5
<1>7. \A p \in cell_ptr : InUse(file, p) => InUse(file', p)
  BY SameNodeSeen DEF SameUse
<1>8. NodesHeld'
  <2>1. SUFFICES ASSUME exec.jobs # << >>
                 PROVE  /\ \A p \in exec.left : InUse(file', p)
                        /\ job.op # "free" => \A p \in exec.matched : InUse(file', p)
                        /\ AtNode' => InUse(file', exec.node)
                        /\ Place' = "free_node" => job.op = "free" /\ exec.node \notin exec.left
    BY <1>5 DEF NodesHeld, SameNodes
  <2>2. exec.left \subseteq cell_ptr /\ exec.matched \subseteq cell_ptr /\ exec.node \in cell_ptr
    BY <1>1 DEF exec_type
  <2>3. /\ \A p \in exec.left : InUse(file, p)
        /\ job.op # "free" => \A p \in exec.matched : InUse(file, p)
        /\ AtNode => InUse(file, exec.node)
        /\ Place = "free_node" => job.op = "free" /\ exec.node \notin exec.left
    BY <2>1 DEF NInv, NodesHeld
  <2>4. (AtNode' => AtNode) /\ (Place' = "free_node" => Place = "free_node")
    BY DEF SameNodes
  <2> QED  BY <1>7, <2>2, <2>3, <2>4
<1> QED  BY <1>4, <1>6, <1>8 DEF NInv, NewBlockBlank, RestartSound, SameNodes

(* A step that only reads.                                                 *)
LEMMA UseKeptReading ==
  ASSUME CInv, NInv, ~ Down, UNCHANGED <<file, ctrl_block>>, disk' \in {disk, file}, SameNodes
  PROVE  NInv'
<1>1. SameUse(file, file')  BY DEF SameUse, SameNode, IsNode, NodeAt, Link
<1> QED  BY <1>1, UseKept

LEMMA WildNodes ==
  ASSUME CInv, NInv, Wild, ~ Down
  PROVE  NInv'
<1>1. /\ exec'.pc = "wild" /\ exec'.jobs = exec.jobs /\ exec'.matched = exec.matched
      /\ exec'.left = exec.left /\ exec'.node = exec.node
  BY Unfold DEF Wild, exec_type, CInv
<1>2. SameNodes  BY <1>1 DEF SameNodes, AtNode, Place, Updating, NodePCs, StringPCs
<1> QED  BY <1>2, UseKeptReading DEF Wild

(* No command is under way, or it has no job left.                         *)
LEMMA NoJobs ==
  ASSUME NInv, ~ Down, UNCHANGED <<file, ctrl_block>>, exec'.jobs = << >>,
         exec'.pc \notin UpdatingPCs \cup {"down"}
  PROVE  NInv'
<1>1. Len(exec'.jobs) = 0  OBVIOUS
<1>2. InOrder(exec'.jobs)  BY <1>1 DEF InOrder
<1>3. MemSound'  BY DEF NInv, MemSound
<1> QED  BY <1>2, <1>3 DEF NInv, NewBlockBlank, DiskSound, RestartSound, NodesHeld, Place,
             Updating, UpdatingPCs

-----------------------------------------------------------------------------
(* Every step preserves NInv: first those of the allocator.                *)
LEMMA ControlNodes ==
  ASSUME CInv, NInv, update_control_block \/ chain_update_control
  PROVE  NInv'
<1>1. /\ exec \in exec_type /\ file \in File /\ ctrl_block \in control_block
      /\ ~ Down /\ 0 \in Block
  BY Unfold, LayoutAssumption
  DEF CInv, update_control_block, chain_update_control, Down, Block
<1>2. file[0].type = "CONTROL" /\ ctrl_block.nodes = file[0].nodes
  BY <1>1 DEF CInv, IInv, ControlBlock, ControlCoherent
<1>3. /\ file' = [file EXCEPT ![0] = ctrl_block] /\ disk' = file
      /\ ctrl_block'.head = ctrl_block.head
  BY <1>1 DEF update_control_block, chain_update_control, LastWriteUnflushed, control_block
<1>4. SameUse(file, file')  BY <1>1, <1>2, <1>3, ControlWriteSeen
<1>5. file'[0] = ctrl_block  BY <1>1, <1>3 DEF File
<1>6. /\ exec'.jobs = exec.jobs /\ exec'.matched = exec.matched
      /\ exec'.left = exec.left /\ exec'.node = exec.node /\ exec'.ret = exec.ret
      /\ IF exec.pc = "chain_update_control" THEN exec'.pc = "update_control_block"
         ELSE exec.pc = "update_control_block" /\ exec'.pc = exec.ret
  BY <1>1 DEF update_control_block, chain_update_control, UpdateControlThen, exec_type
<1>7. exec.pc = "update_control_block" => exec.ret \notin UpdatingPCs
  BY DEF CInv, RetOK
<1>8. Place' = Place /\ exec'.pc # "chain_node_block"
  BY <1>6, <1>7 DEF Place, Updating, UpdatingPCs
<1>10. Place # "down"  BY <1>1 DEF NInv, RestartSound, Down
<1>9. SameNodes  BY <1>6, <1>8, <1>10 DEF SameNodes, AtNode, job
<1> QED  BY <1>1, <1>3, <1>4, <1>5, <1>9, UseKept

LEMMA ChainNodes ==
  ASSUME CInv, NInv, chain_node_block
  PROVE  NInv'
<1> DEFINE b == ctrl_block.empty_block
           new == [ZeroBlock("NODE") EXCEPT !.prev_block = ctrl_block.prev_node_block]
<1>1. /\ exec \in exec_type /\ file \in File /\ ctrl_block \in control_block
      /\ ~ Down /\ b \in Block /\ b # 0
  BY Unfold, LayoutAssumption DEF CInv, chain_node_block, Down, Block
<1>2. /\ exec.pc = "chain_node_block" /\ file' = [file EXCEPT ![b] = new] /\ disk' = file
      /\ ctrl_block' = [ctrl_block EXCEPT !.prev_node_block = b]
      /\ exec' = [exec EXCEPT !.pc = "chain_update_control"]
  BY DEF chain_node_block, LastWriteUnflushed
<1>3. file[b] = ZeroBlock("NODE")  BY <1>2 DEF NInv, NewBlockBlank
<1> HIDE DEF b
<1>4. file'[b] = new /\ \A a \in Block : a # b => file'[a] = file[a]
  <2> HIDE DEF new
  <2> QED  BY <1>1, <1>2 DEF File
<1>5. SameUse(file, file')
  <2> DEFINE z == ZeroBlock("NODE")
             zeroes == [o \in 0 .. NODES_IN_BLOCK - 1 |-> ZeroNode]
  <2>1. z = [type |-> "NODE", prev_block |-> 0, nodes |-> zeroes]  BY DEF ZeroBlock
  <2> HIDE DEF z, zeroes
  <2>2. file'[b].type = file[b].type /\ file'[b].nodes = file[b].nodes
    BY <1>3, <1>4, <2>1 DEF z
  <2> HIDE DEF new
  <2> QED  BY <1>1, <1>4, <2>2, LinkedBlockSeen
<1>6. file'[0] = file[0]  BY <1>1, <1>4, LayoutAssumption DEF Block
<1>7. ctrl_block'.head = ctrl_block.head  BY <1>1, <1>2 DEF control_block
<1>8. /\ exec'.jobs = exec.jobs /\ exec'.matched = exec.matched
      /\ exec'.left = exec.left /\ exec'.node = exec.node /\ exec'.ret = exec.ret
      /\ exec'.pc = "chain_update_control"
  BY <1>1, <1>2 DEF exec_type
<1>9. Place' = Place /\ Place # "down"
  BY <1>1, <1>2, <1>8 DEF Place, Updating, NInv, RestartSound
<1>10. SameNodes  BY <1>8, <1>9 DEF SameNodes, AtNode, job
<1> QED  BY <1>1, <1>2, <1>5, <1>6, <1>7, <1>10, UseKept

(* A block of cells or of strings.                                         *)
LEMMA AllocateNodes ==
  ASSUME CInv, BInv, NInv, ~ Down, ~ Updating, NEW type \in Pool, type # "NODE", NEW ret,
         (exec.pc \in StringPCs /\ ret \in StringPCs) \/ (exec.pc = ret /\ ret = "create_cell"),
         allocate_new_block(type, ret)
  PROVE  NInv'
<1> DEFINE b == ctrl_block.empty_block
<1>1. /\ exec \in exec_type /\ file \in File /\ ctrl_block \in control_block
      /\ b \in Block /\ b # 0
  BY Unfold, LayoutAssumption DEF CInv, Block, allocate_new_block
<1>2. PICK prev, head :
        /\ file' = [file EXCEPT ![b] = ZeroBlock(type)] /\ disk' = file
        /\ ctrl_block' = [ctrl_block EXCEPT
              !.head[type] = head, !.empty_block = b + 1, !.prev_node_block = prev]
        /\ exec' = [exec EXCEPT !.pc = "update_control_block", !.ret = ret]
  BY DEF allocate_new_block, UpdateControlThen, LastWriteUnflushed
<1>3. file[b].type = "ABSENT"
  <2>1. AbsentFrom(file, b) /\ b >= b
    BY <1>1, LayoutAssumption DEF BInv, MemLinked, ChainPCs, Updating, Block
  <2> QED  BY <1>1, <2>1 DEF AbsentFrom
<1> HIDE DEF b
<1>4. file'[b] = ZeroBlock(type) /\ \A a \in Block : a # b => file'[a] = file[a]
  BY <1>1, <1>2 DEF File
<1>5. SameUse(file, file')  BY <1>1, <1>3, <1>4, NewBlockSeen, Zenon
<1>6. file'[0] = file[0]  BY <1>1, <1>4, LayoutAssumption DEF Block
<1>7. ctrl_block'.head["NODE"] = ctrl_block.head["NODE"]
  BY <1>1, <1>2 DEF control_block, Pool
<1>8. /\ exec'.jobs = exec.jobs /\ exec'.matched = exec.matched
      /\ exec'.left = exec.left /\ exec'.node = exec.node /\ exec'.ret = ret
      /\ exec'.pc = "update_control_block"
  BY <1>1, <1>2 DEF exec_type
<1>9. Place' = ret /\ Place = exec.pc  BY <1>8 DEF Place, Updating
<1>10. SameNodes  BY <1>8, <1>9 DEF SameNodes, AtNode, job, StringPCs, NodePCs
<1> QED  BY <1>1, <1>2, <1>5, <1>6, <1>7, <1>10, UseKept

(* A block of nodes, when there is no room left.                           *)
LEMMA AllocateForNodes ==
  ASSUME CInv, BInv, NInv, exec.pc = "create_node_cell", ctrl_block.head["NODE"].block_num = -1,
         allocate_new_block("NODE", "create_node_cell")
  PROVE  NInv'
<1> DEFINE b == ctrl_block.empty_block
           h == ctrl_block.head["NODE"]
<1>1. /\ exec \in exec_type /\ file \in File /\ ctrl_block \in control_block
      /\ b \in Block /\ b # 0 /\ h \in cell_ptr /\ ~ Down /\ ~ Updating
      /\ b \in Nat /\ ctrl_block.prev_node_block \in Block
  BY Unfold, LayoutAssumption DEF CInv, Block, allocate_new_block, Pool, Down, Updating
<1>2. PICK pc \in {"chain_node_block", "update_control_block"}, empty \in Nat, prev \in Block :
        /\ file' = [file EXCEPT ![b] = ZeroBlock("NODE")] /\ disk' = file
        /\ ctrl_block' = [ctrl_block EXCEPT
              !.head["NODE"] = Ptr(b, h.offset), !.empty_block = empty, !.prev_node_block = prev]
        /\ exec' = [exec EXCEPT !.pc = pc, !.ret = "create_node_cell"]
        /\ pc = "chain_node_block" => empty = b
  <2>1. CASE b # 1
    <3>1. ctrl_block' = [ctrl_block EXCEPT !.head["NODE"] = Ptr(b, h.offset)]
          /\ exec' = [exec EXCEPT !.pc = "chain_node_block", !.ret = "create_node_cell"]
      BY <2>1 DEF allocate_new_block
    <3>2. ctrl_block' = [ctrl_block EXCEPT
              !.head["NODE"] = Ptr(b, h.offset), !.empty_block = b,
              !.prev_node_block = ctrl_block.prev_node_block]
      BY <1>1, <3>1 DEF control_block
    <3>3. file' = [file EXCEPT ![b] = ZeroBlock("NODE")] /\ disk' = file
      BY DEF allocate_new_block, LastWriteUnflushed
    <3> QED  BY <1>1, <3>1, <3>2, <3>3
  <2>2. CASE b = 1
    <3>1. ctrl_block' = [ctrl_block EXCEPT
              !.head["NODE"] = Ptr(b, h.offset), !.empty_block = b + 1, !.prev_node_block = b]
      BY <2>2 DEF allocate_new_block
    <3>2. /\ file' = [file EXCEPT ![b] = ZeroBlock("NODE")] /\ disk' = file
          /\ exec' = [exec EXCEPT !.pc = "update_control_block", !.ret = "create_node_cell"]
      BY <2>2 DEF allocate_new_block, UpdateControlThen, LastWriteUnflushed
    <3>3. b + 1 \in Nat  BY <1>1
    <3> QED  BY <1>1, <3>1, <3>2, <3>3
  <2> QED  BY <2>1, <2>2
<1>3. file[b].type = "ABSENT"
  <2>1. AbsentFrom(file, b) /\ b >= b
    BY <1>1, LayoutAssumption DEF BInv, MemLinked, ChainPCs, Updating, Block
  <2> QED  BY <1>1, <2>1 DEF AbsentFrom
<1>4. PoolSound(file, h)  BY <1>1 DEF NInv, MemSound
<1>5. h = NoRoom
  <2>1. h.block_num \notin Block  BY LayoutAssumption DEF Block
  <2>2. ~ IsNode(file, h)  BY <2>1 DEF IsNode
  <2> QED  BY <1>4, <2>2 DEF PoolSound, CanHandOut, FirstUnused, Freed, Unused
<1> HIDE DEF b
<1>6. file'[b] = ZeroBlock("NODE") /\ \A a \in Block : a # b => file'[a] = file[a]
  BY <1>1, <1>2 DEF File
<1>7. PoolSound(file', Ptr(b, 0))  BY <1>1, <1>3, <1>4, <1>5, <1>6, NewNodes
<1>8. ctrl_block'.head["NODE"] = Ptr(b, 0) /\ ctrl_block'.empty_block = empty
  BY <1>1, <1>2, <1>5 DEF control_block, Pool, NoRoom, Ptr
<1>9. /\ exec'.jobs = exec.jobs /\ exec'.matched = exec.matched
      /\ exec'.left = exec.left /\ exec'.node = exec.node /\ exec'.ret = "create_node_cell"
      /\ exec'.pc = pc
  BY <1>1, <1>2 DEF exec_type
<1>10. Place' = "create_node_cell" /\ Place = "create_node_cell"
  BY <1>9 DEF Place, Updating
<1>11. exec.jobs # << >> => job.op = "add"  BY <1>10 DEF BInv, OnlyAdds
<1>12. DiskSound'  BY <1>9, <1>11 DEF DiskSound, SteadyOps, job
<1>13. NewBlockBlank'  BY <1>2, <1>6, <1>8, <1>9 DEF NewBlockBlank
<1>14. ASSUME NEW p \in cell_ptr, InUse(file, p)  PROVE InUse(file', p)
  <2>1. p.block_num # b  BY <1>3, <1>14, <1>1 DEF InUse, IsNode
  <2>2. p.block_num \in Block  BY <1>14 DEF InUse, IsNode
  <2> QED  BY <1>6, <1>14, <2>1, <2>2 DEF InUse, IsNode, NodeAt
<1>15. NodesHeld'
  <2>1. exec.left \subseteq cell_ptr /\ exec.matched \subseteq cell_ptr
    BY <1>1 DEF exec_type
  <2>2. ~ AtNode'  BY <1>10 DEF AtNode, NodePCs, StringPCs
  <2> QED  BY <1>1, <1>9, <1>10, <1>14, <2>1, <2>2 DEF NInv, NodesHeld, job
<1> QED  BY <1>7, <1>8, <1>9, <1>10, <1>12, <1>13, <1>15 DEF NInv, MemSound, RestartSound


(* The steps of the nodes.                                                 *)
LEMMA CreateNodeNodes ==
  ASSUME CInv, BInv, NInv, create_node_cell
  PROVE  NInv'
<1> DEFINE h == ctrl_block.head["NODE"]
           new == [ZeroNode EXCEPT !.is_empty = 1]
           after == HeadAfter(h, Link(file, h), NodesIn(h.block_num))
<1>1. /\ exec.pc = "create_node_cell" /\ ~ Down /\ ~ Updating
      /\ ctrl_block \in control_block /\ exec \in exec_type /\ file \in File /\ h \in cell_ptr
  BY Unfold DEF create_node_cell, Down, Updating, CInv, Pool
<1>2. PoolSound(file, h)  BY <1>1 DEF NInv, MemSound
<1>3. CASE h.block_num = -1
  <2>1. allocate_new_block("NODE", "create_node_cell")
    BY <1>3 DEF create_node_cell
  <2> QED  BY <1>1, <1>3, <2>1, AllocateForNodes
<1>4. CASE Wild  BY <1>1, <1>4, WildNodes
<1>5. CASE h.block_num # -1 /\ IsNode(file, h) /\ ~ Wild
  <2> HIDE DEF after
  <2>1. /\ file' = WriteNode(file, h, new)
        /\ IF h.block_num = 0 THEN ctrl_block' = [file'[0] EXCEPT !.head["NODE"] = after]
           ELSE ctrl_block' = [ctrl_block EXCEPT !.head["NODE"] = after]
        /\ exec' = [exec EXCEPT !.pc = "update_control_block", !.ret = "next",
                                !.matched = {h}, !.left = {h}]
    BY <1>5 DEF create_node_cell, after, Link
  <2>2. new \in node_cell /\ new.is_empty = 1  BY ZeroTypes DEF node_cell
  <2>3. SameElsewhere(file, file', h) /\ InUse(file', h)
    BY <1>1, <1>5, <2>1, <2>2, NodeWriteSeen DEF InUse
  <2>4. PoolSound(file', after)  BY <1>1, <1>2, <1>5, <2>3, TakeNode DEF after
  <2>5. file'[0] \in control_block  BY <1>1, <1>5, <2>1, <2>2, NodeWrite
  <2>6. ctrl_block'.head["NODE"] = after
    <3>1. CASE h.block_num = 0  BY <2>1, <2>5, <3>1 DEF control_block, Pool
    <3>2. CASE h.block_num # 0  BY <1>1, <2>1, <3>2 DEF control_block, Pool
    <3> QED  BY <3>1, <3>2
  <2>7. /\ exec'.pc = "update_control_block" /\ exec'.ret = "next" /\ exec'.jobs = exec.jobs
        /\ exec'.matched = {h} /\ exec'.left = {h}
    BY <1>1, <2>1 DEF exec_type
  <2>8. Place' = "next" /\ Place = "create_node_cell"  BY <1>1, <2>7 DEF Place, Updating
  <2>9. exec.jobs # << >> => job.op = "add"  BY <2>8 DEF BInv, OnlyAdds
  <2>10. DiskSound'  BY <2>7, <2>9 DEF DiskSound, SteadyOps, job
  <2>11. NodesHeld'
    BY <2>3, <2>7, <2>8 DEF NodesHeld, AtNode, NodePCs, StringPCs
  <2> QED  BY <2>4, <2>6, <2>7, <2>8, <2>10, <2>11
           DEF NInv, MemSound, NewBlockBlank, RestartSound
<1> QED  BY <1>3, <1>4, <1>5 DEF create_node_cell

LEMMA NextNodeNodes ==
  ASSUME CInv, NInv, next_node
  PROVE  NInv'
<1>1. /\ exec \in exec_type /\ ~ Down /\ exec.jobs # << >>
      /\ disk' = file /\ UNCHANGED <<file, ctrl_block>>
  BY Unfold DEF CInv, next_node, Down, ReadOnly
<1> DEFINE texts == IF job.op = "add" THEN Texts(job) ELSE << >>
           strings == IF job.op = "relate" THEN exec.strings ELSE << >>
           current(p) == IF job.op \in {"put", "remove"}
                         THEN NodeAt(file, p).last[job.kind] ELSE Null
<1>2. PICK p \in exec.left :
        \/ exec' = [exec EXCEPT
             !.pc = Entry(job.op), !.left = @ \ {p}, !.node = p, !.prev = p,
             !.texts = texts, !.strings = strings,
             !.following = Null, !.has_changed = FALSE,
             !.others = exec.seconds, !.lost_place = FALSE, !.current = current(p)]
        \/ exec' = [exec EXCEPT !.pc = "wild"]
  BY DEF next_node
<1> HIDE DEF texts, strings, current
<1>3. CASE exec' = [exec EXCEPT !.pc = "wild"]
  <2>1. SameNodes  BY <1>1, <1>3 DEF SameNodes, AtNode, Place, Updating, NodePCs, StringPCs, exec_type
  <2> QED  BY <1>1, <2>1, UseKeptReading
<1>4. CASE exec' # [exec EXCEPT !.pc = "wild"]
  <2>1. /\ exec'.pc = Entry(job.op) /\ exec'.left = exec.left \ {p} /\ exec'.node = p
        /\ exec'.jobs = exec.jobs /\ exec'.matched = exec.matched
    BY <1>1, <1>2, <1>4 DEF exec_type
  <2>2. job.op \in {"add", "put", "relate", "remove", "free"}
    BY <1>1, JobType DEF exec_type, job
  <2>3. /\ Entry(job.op) \in {"create_string_cell", "find_node_attribute", "remove",
                              "next_second", "free_node"}
        /\ Entry(job.op) = "free_node" => job.op = "free"
    BY <2>2 DEF Entry
  <2>4. Place' = Entry(job.op)  BY <2>1, <2>3 DEF Place, Updating
  <2>5. /\ \A q \in exec.left : InUse(file, q)
        /\ job.op # "free" => \A q \in exec.matched : InUse(file, q)
    BY <1>1 DEF NInv, NodesHeld
  <2>6. NodesHeld'  BY <1>1, <2>1, <2>3, <2>4, <2>5 DEF NodesHeld, job
  <2>7. DiskSound'
    BY <1>1, <2>1 DEF NInv, MemSound, DiskSound, SoundNodes, job
  <2> QED  BY <1>1, <2>1, <2>3, <2>4, <2>6, <2>7
           DEF NInv, MemSound, NewBlockBlank, RestartSound
<1> QED  BY <1>3, <1>4

LEMMA NextJobNodes ==
  ASSUME CInv, NInv, next_job
  PROVE  NInv'
<1> DEFINE jobs == exec.jobs
           rest == Tail(jobs)
<1>1. /\ exec \in exec_type /\ ~ Down /\ jobs # << >> /\ jobs \in Seq(Job)
      /\ UNCHANGED <<file, disk, ctrl_block>>
      /\ exec'.pc = "next" /\ exec'.jobs = rest
      /\ exec'.left = exec.matched /\ exec'.matched = exec.matched
  BY Unfold DEF CInv, next_job, Down, exec_type
<1>2. CASE rest = << >>
  <2> QED  BY <1>1, <1>2, NoJobs DEF UpdatingPCs
<1>3. CASE rest # << >>
  <2> HIDE DEF jobs
  <2>1. /\ Len(jobs) \in Nat /\ rest \in Seq(Job) /\ Len(rest) = Len(jobs) - 1
        /\ \A i \in 1 .. Len(rest) : rest[i] = jobs[i + 1]
    BY <1>1
  <2> HIDE DEF rest
  <2>2. Len(rest) # 0 /\ Head(rest) = rest[1] /\ Head(jobs) = jobs[1]
    BY <1>1, <1>3, <2>1
  <2>3. Len(jobs) >= 2 /\ 1 \in 1 .. Len(rest)  BY <2>1, <2>2
  <2>4. \A i, j \in 1 .. Len(jobs) : i < j =>
          /\ jobs[j].op \in SteadyOps => jobs[i].op \in SteadyOps
          /\ jobs[i].op # "free"
    BY DEF NInv, InOrder, jobs
  <2>5. job = jobs[1] /\ job' = jobs[2]
    BY <1>1, <2>1, <2>2, <2>3 DEF job, jobs
  <2>6. job.op # "free" /\ (job'.op \in SteadyOps => job.op \in SteadyOps)
    BY <2>3, <2>4, <2>5
  <2>7. InOrder(rest)
    <3> SUFFICES ASSUME NEW i \in 1 .. Len(rest), NEW j \in 1 .. Len(rest), i < j
                 PROVE  /\ rest[j].op \in SteadyOps => rest[i].op \in SteadyOps
                        /\ rest[i].op # "free"
      BY DEF InOrder
    <3>1. i + 1 \in 1 .. Len(jobs) /\ j + 1 \in 1 .. Len(jobs) /\ i + 1 < j + 1
      BY <2>1
    <3> QED  BY <2>1, <2>4, <3>1
  <2>8. Place' = "next"  BY <1>1 DEF Place, Updating
  <2>9. exec.jobs # << >>  BY <1>1 DEF jobs
  <2>10. NodesHeld'
    BY <1>1, <2>6, <2>8, <2>9 DEF NInv, NodesHeld, AtNode, NodePCs, StringPCs
  <2>11. DiskSound'  BY <1>1, <2>6, <2>9 DEF NInv, DiskSound
  <2>12. MemSound' /\ NewBlockBlank' /\ RestartSound'
    BY <1>1, <2>8 DEF NInv, MemSound, NewBlockBlank, RestartSound
  <2> QED  BY <1>1, <2>7, <2>10, <2>11, <2>12 DEF NInv
<1> QED  BY <1>2, <1>3

LEMMA LoopNodes ==
  ASSUME CInv, RelateInv, NInv, respond \/ next_second \/ find_node_attribute
  PROVE  NInv'
<1>1. exec \in exec_type  BY Unfold DEF CInv
<1>2. ~ Down /\ UNCHANGED <<file, ctrl_block>> /\ disk' \in {disk, file}
  BY DEF respond, next_second, find_node_attribute, Down, ReadOnly
<1>3. CASE respond
  BY <1>2, <1>3, NoJobs DEF respond, Idle, UpdatingPCs
<1>4. CASE next_second
  <2>1. /\ exec'.jobs = exec.jobs /\ exec'.matched = exec.matched
        /\ exec'.left = exec.left /\ exec'.node = exec.node
        /\ exec'.pc \in {"next", "create_cell"} /\ exec.pc = "next_second"
    BY <1>1, <1>4 DEF next_second, exec_type
  <2>2. SameNodes  BY <2>1 DEF SameNodes, AtNode, Place, Updating, NodePCs
  <2> QED  BY <1>2, <2>2, UseKeptReading
<1>5. CASE find_node_attribute
  <2>1. /\ exec'.jobs = exec.jobs /\ exec'.matched = exec.matched
        /\ exec'.left = exec.left /\ exec'.node = exec.node
        /\ exec'.pc \in {"create_string_cell", "wild", "find_node_attribute"}
        /\ exec.pc = "find_node_attribute"
    BY <1>1, <1>5 DEF find_node_attribute, exec_type
  <2>2. SameNodes  BY <2>1 DEF SameNodes, AtNode, Place, Updating, NodePCs
  <2> QED  BY <1>2, <2>2, UseKeptReading
<1> QED  BY <1>3, <1>4, <1>5

(* The steps of the strings.                                               *)
LEMMA StoreNodes ==
  ASSUME CInv, NInv, exec.pc \in StringPCs, NEW p, p.block_num \in Block,
         file[p.block_num].type = "STRING", file' = WriteString(file, p, Head(exec.texts)),
         ctrl_block'.head["NODE"] = ctrl_block.head["NODE"],
         StringDone(p), LastWriteUnflushed
  PROVE  NInv'
<1>1. ~ Down /\ ~ Updating /\ exec \in exec_type /\ 0 \in Block
  BY Unfold, LayoutAssumption DEF Down, StringPCs, Updating, CInv, Block
<1>2. p.block_num # 0  BY <1>1 DEF CInv, IInv, ControlBlock
<1>3. Head(exec.texts) \in String
  <2>1. exec.texts # << >> /\ exec.texts \in Seq(String)
    BY Unfold DEF CInv, IInv, ExecOK, InOp, exec_type
  <2> QED  BY <2>1
<1>4. WritesBlock(file, file', p.block_num) /\ file \in File
  BY <1>3, Unfold, WriteStringType DEF CInv
<1>5. SameUse(file, file') /\ file'[0] = file[0]
  BY <1>1, <1>2, <1>4, OtherWriteSeen DEF WritesBlock
<1>6. PICK ret \in {"create_string_cell", "next", "write_value", "create_cell"} :
        /\ exec' = [exec EXCEPT !.pc = "update_control_block", !.strings = Append(@, p),
                                !.texts = Tail(@), !.ret = ret]
        /\ ret \in {"write_value", "create_cell"} => job.op # "relate"
  BY DEF StringDone
<1>7. /\ exec'.jobs = exec.jobs /\ exec'.matched = exec.matched
      /\ exec'.left = exec.left /\ exec'.node = exec.node
      /\ exec'.pc = "update_control_block" /\ exec'.ret = ret
  BY <1>1, <1>6 DEF exec_type
<1>8. Place' = ret /\ Place \in StringPCs /\ job' = job
  BY <1>1, <1>7 DEF Place, Updating, job
<1>9. SameNodes
  BY <1>6, <1>7, <1>8 DEF SameNodes, AtNode, StringPCs, NodePCs
<1> QED  BY <1>1, <1>5, <1>9, UseKept DEF LastWriteUnflushed

LEMMA CreateStringNodes ==
  ASSUME CInv, BInv, NInv, create_string_cell
  PROVE  NInv'
<1> DEFINE h == ctrl_block.head["STRING"]
           str_length == strlen[Head(exec.texts)]
<1>1. exec.pc \in StringPCs /\ ~ Down /\ ~ Updating
  BY DEF create_string_cell, StringPCs, Down, Updating
<1>2. ctrl_block \in control_block  BY Unfold DEF CInv
<1>3. \/ \E ret \in StringPCs : allocate_new_block("STRING", ret)
      \/ Wild
      \/ /\ Fits(h, str_length)
         /\ file' = WriteString(file, h, Head(exec.texts))
         /\ ctrl_block' = [ctrl_block EXCEPT !.head["STRING"].offset = @ + str_length + 2]
         /\ StringDone(h)
         /\ LastWriteUnflushed
  BY DEF create_string_cell, StringPCs
<1>4. ASSUME NEW ret \in StringPCs, allocate_new_block("STRING", ret)  PROVE NInv'
  <2> DEFINE type == "STRING"
  <2>1. type \in Pool /\ type # "NODE" /\ allocate_new_block(type, ret)
    BY <1>4 DEF Pool
  <2> HIDE DEF type
  <2> QED  BY <1>1, <2>1, AllocateNodes
<1>5. CASE Wild  BY <1>1, <1>5, WildNodes
<1>6. ASSUME Fits(h, str_length), file' = WriteString(file, h, Head(exec.texts)),
             ctrl_block' = [ctrl_block EXCEPT !.head["STRING"].offset = @ + str_length + 2],
             StringDone(h), LastWriteUnflushed
      PROVE  NInv'
  <2>1. ctrl_block'.head["NODE"] = ctrl_block.head["NODE"]
    <3> HIDE DEF str_length
    <3> QED  BY <1>2, <1>6 DEF control_block, Pool
  <2> QED  BY <1>1, <1>6, <2>1, StoreNodes DEF Fits
<1> QED  BY <1>3, <1>4, <1>5, <1>6

LEMMA StringInNewBlockNodes ==
  ASSUME CInv, NInv, string_in_new_block
  PROVE  NInv'
<1> DEFINE p == Ptr(ctrl_block.head["STRING"].block_num, 0)
           str_length == strlen[Head(exec.texts)]
<1>1. exec.pc \in StringPCs /\ ~ Down  BY DEF string_in_new_block, StringPCs, Down
<1>2. ctrl_block \in control_block  BY Unfold DEF CInv
<1>3. CASE Wild  BY <1>1, <1>3, WildNodes
<1>4. CASE ~ Wild
  <2>1. /\ Fits(p, str_length)
        /\ file' = WriteString(file, p, Head(exec.texts))
        /\ ctrl_block' = [ctrl_block EXCEPT !.head["STRING"].offset = str_length + 2]
        /\ StringDone(p) /\ LastWriteUnflushed
    BY <1>4 DEF string_in_new_block
  <2>2. ctrl_block'.head["NODE"] = ctrl_block.head["NODE"]
    <3> HIDE DEF str_length
    <3> QED  BY <1>2, <2>1 DEF control_block, Pool
  <2> HIDE DEF p
  <2> QED  BY <1>1, <2>1, <2>2, StoreNodes DEF Fits
<1> QED  BY <1>3, <1>4

(* The steps of the cells.                                                 *)
LEMMA CellWriteSeen ==
  ASSUME CInv, ~ Down, NEW kind \in CellKind, NEW p, IsCell(file, kind, p), NEW c,
         file' = WriteCell(file, p, c)
  PROVE  SameUse(file, file') /\ file'[0] = file[0]
<1> DEFINE b == p.block_num
           old == file[b]
           new == [old EXCEPT !.cells[p.offset] = c]
<1>1. /\ b # 0 /\ b \in Block /\ old.type = kind /\ kind \notin {"NODE", "CONTROL"} /\ 0 \in Block
      /\ file \in File
  BY Unfold, LayoutAssumption DEF IsCell, CInv, IInv, ControlBlock, CellKind, Block
<1>2. old \in cell_block(kind)  BY <1>1, BlockForm DEF File
<1>3. new.type = old.type  BY <1>2 DEF cell_block
<1>4. file' = [file EXCEPT ![b] = new]  BY <1>1 DEF WriteCell, File
<1> HIDE DEF old, new
<1>5. file'[b] = new /\ \A a \in Block : a # b => file'[a] = file[a]
  BY <1>1, <1>4 DEF File
<1>6. file[b] = old  BY DEF old
<1> HIDE DEF b
<1>7. /\ \A a \in Block : file'[a].type = file[a].type
      /\ file[b].type \notin {"NODE", "CONTROL"} /\ file'[0] = file[0]
  BY <1>1, <1>3, <1>5, <1>6
<1>8. SameUse(file, file')  BY <1>5, <1>7, OtherWriteSeen
<1> QED  BY <1>7, <1>8

LEMMA CreateCellNodes ==
  ASSUME CInv, BInv, NInv, NEW kind \in CellKind, create_cell(kind)
  PROVE  NInv'
<1> DEFINE h == ctrl_block.head[kind]
           new == [prev  |-> NodeAt(file, exec.node).last[kind],
                   name  |-> exec.strings[1],
                   value |-> CASE kind = "ATTRIBUTE" -> exec.strings[2]
                               [] kind = "RELATION"  -> exec.second
                               [] OTHER              -> Null]
           after == HeadAfter(h, CellAt(file, h).prev, CellsIn(kind))
<1>1. /\ exec.pc = "create_cell" /\ ~ Down /\ ~ Updating
      /\ kind \in Pool /\ kind # "NODE"
  BY DEF create_cell, Down, Updating, CellKind, Pool
<1>2. ctrl_block \in control_block /\ exec \in exec_type  BY Unfold DEF CInv
<1>3. \/ allocate_new_block(kind, "create_cell")
      \/ Wild
      \/ /\ IsCell(file, kind, h)
         /\ file' = WriteCell(file, h, new)
         /\ ctrl_block' = [ctrl_block EXCEPT !.head[kind] = after]
         /\ exec' = [exec EXCEPT !.pc = "update_control_block", !.ret = "update_node",
                                 !.current = h]
         /\ LastWriteUnflushed
  BY DEF create_cell
<1>4. CASE allocate_new_block(kind, "create_cell")
  BY <1>1, <1>4, AllocateNodes
<1>5. CASE Wild  BY <1>1, <1>5, WildNodes
<1>6. ASSUME IsCell(file, kind, h), file' = WriteCell(file, h, new),
             ctrl_block' = [ctrl_block EXCEPT !.head[kind] = after],
             exec' = [exec EXCEPT !.pc = "update_control_block", !.ret = "update_node",
                                  !.current = h],
             LastWriteUnflushed
      PROVE  NInv'
  <2> HIDE DEF new, after
  <2>1. SameUse(file, file') /\ file'[0] = file[0]  BY <1>1, <1>6, CellWriteSeen
  <2>2. ctrl_block'.head["NODE"] = ctrl_block.head["NODE"]
    BY <1>1, <1>2, <1>6 DEF control_block, Pool
  <2>3. /\ exec'.jobs = exec.jobs /\ exec'.matched = exec.matched
        /\ exec'.left = exec.left /\ exec'.node = exec.node
        /\ exec'.pc = "update_control_block" /\ exec'.ret = "update_node"
    BY <1>2, <1>6 DEF exec_type
  <2>4. SameNodes  BY <1>1, <2>3 DEF SameNodes, AtNode, Place, Updating, NodePCs
  <2> QED  BY <1>1, <1>6, <2>1, <2>2, <2>4, UseKept DEF LastWriteUnflushed
<1> QED  BY <1>3, <1>4, <1>5, <1>6

LEMMA WriteValueNodes ==
  ASSUME CInv, NInv, write_value
  PROVE  NInv'
<1> DEFINE new == [CellAt(file, exec.current) EXCEPT !.value = exec.strings[1]]
<1>1. exec.pc = "write_value" /\ ~ Down /\ ~ Updating /\ exec \in exec_type
  BY Unfold DEF write_value, Down, Updating, CInv
<1>2. CASE Wild  BY <1>1, <1>2, WildNodes
<1>3. CASE ~ Wild
  <2>1. /\ IsCell(file, "ATTRIBUTE", exec.current) /\ file' = WriteCell(file, exec.current, new)
        /\ exec' = [exec EXCEPT !.pc = "next"] /\ ctrl_block' = ctrl_block /\ disk' = file
    BY <1>3 DEF write_value, LastWriteUnflushed
  <2> HIDE DEF new
  <2>2. SameUse(file, file') /\ file'[0] = file[0]
    BY <1>1, <2>1, CellWriteSeen DEF CellKind
  <2>3. /\ exec'.jobs = exec.jobs /\ exec'.matched = exec.matched
        /\ exec'.left = exec.left /\ exec'.node = exec.node /\ exec'.pc = "next"
    BY <1>1, <2>1 DEF exec_type
  <2>4. SameNodes
    BY <1>1, <2>3 DEF SameNodes, AtNode, Place, Updating, NodePCs, StringPCs
  <2> QED  BY <1>1, <2>1, <2>2, <2>4, UseKept
<1> QED  BY <1>2, <1>3

LEMMA FreeCellNodes ==
  ASSUME CInv, NInv, free_cell
  PROVE  NInv'
<1> DEFINE kind == job.kind
           p == exec.current
           new == [prev |-> ctrl_block.head[kind], name |-> Null,
                   value |-> IF kind = "RELATION" THEN CellAt(file, p).value ELSE Null]
<1>1. exec.pc = "free_cell" /\ ~ Down /\ ~ Updating /\ exec.jobs # << >> /\ exec \in exec_type
  BY Unfold DEF free_cell, Down, Updating, CInv, IInv, ExecOK, InOp, JobPCs
<1>2. kind \in CellKind /\ kind # "NODE" /\ ctrl_block \in control_block
  BY <1>1, JobType, Unfold DEF exec_type, CellKind, Pool, job, CInv
<1> HIDE DEF kind
<1>3. CASE Wild  BY <1>1, <1>3, WildNodes
<1>4. CASE ~ Wild
  <2>1. /\ IsCell(file, kind, p)
        /\ file' = WriteCell(file, p, new)
        /\ ctrl_block' = [ctrl_block EXCEPT !.head[kind] = p]
        /\ disk' = file
    BY <1>4 DEF free_cell, kind, LastWriteUnflushed
  <2>2. PICK number :
          exec' = [exec EXCEPT
                 !.pc = "update_control_block", !.ret = "remove",
                 !.prev = p, !.current = exec.following, !.has_changed = TRUE,
                 !.number = number]
    BY <1>4 DEF free_cell, kind
  <2>3. /\ exec'.jobs = exec.jobs /\ exec'.matched = exec.matched
        /\ exec'.left = exec.left /\ exec'.node = exec.node
        /\ exec'.pc = "update_control_block" /\ exec'.ret = "remove"
    BY <1>1, <2>2 DEF exec_type
  <2> HIDE DEF new
  <2>4. SameUse(file, file') /\ file'[0] = file[0]  BY <1>1, <1>2, <2>1, CellWriteSeen
  <2>5. ctrl_block'.head["NODE"] = ctrl_block.head["NODE"]
    BY <1>2, <2>1 DEF control_block, Pool
  <2>6. SameNodes  BY <1>1, <2>3 DEF SameNodes, AtNode, Place, Updating, NodePCs
  <2> QED  BY <1>1, <2>1, <2>4, <2>5, <2>6, UseKept
<1> QED  BY <1>3, <1>4

LEMMA UpdateNodeNodes ==
  ASSUME CInv, NInv, NEW kind \in CellKind, update_node(kind)
  PROVE  NInv'
<1> DEFINE p == exec.node
           new == [NodeAt(file, p) EXCEPT !.last[kind] = exec.current]
<1>1. /\ exec.pc = "update_node" /\ ~ Down /\ ~ Updating /\ exec.jobs # << >>
      /\ exec \in exec_type /\ file \in File
  BY Unfold DEF update_node, Down, Updating, CInv, IInv, ExecOK, InOp, JobPCs
<1>2. CASE Wild  BY <1>1, <1>2, WildNodes
<1>3. CASE IsNode(file, p) /\ ~ Wild
  <2>1. /\ file' = WriteNode(file, p, new) /\ ctrl_block' = file'[0] /\ disk' = file'
        /\ \E pc \in {"next", "next_second"} : exec' = [exec EXCEPT !.pc = pc]
    BY <1>3 DEF update_node, AllFlushed
  <2>2. AtNode  BY <1>1 DEF AtNode, Place, NodePCs
  <2>3. InUse(file, p)  BY <1>1, <2>2 DEF NInv, NodesHeld
  <2>4. new \in node_cell /\ new.is_empty = 1
    <3>1. exec.current \in cell_ptr  BY <1>1 DEF exec_type
    <3>2. NodeAt(file, p) \in node_cell /\ NodeAt(file, p).is_empty = 1
      BY <1>1, <1>3, <2>3, NodeAtType DEF InUse
    <3> QED  BY <3>1, <3>2 DEF node_cell
  <2> HIDE DEF new
  <2>5. SameUse(file, file') /\ file'[0].head = file[0].head
    <3>1. p \in cell_ptr  BY <1>1 DEF exec_type
    <3> QED  BY <1>1, <2>1, <2>3, <2>4, <3>1, InUseWrite
  <2>6. ctrl_block'.head["NODE"] = ctrl_block.head["NODE"]
    BY <1>1, <2>1, <2>5 DEF CInv, ControlCoherent
  <2>7. /\ exec'.jobs = exec.jobs /\ exec'.matched = exec.matched
        /\ exec'.left = exec.left /\ exec'.node = exec.node
        /\ exec'.pc \in {"next", "next_second"}
    BY <1>1, <2>1 DEF exec_type
  <2>8. SameNodes  BY <2>2, <2>7 DEF SameNodes, AtNode, Place, Updating
  <2> QED  BY <1>1, <2>1, <2>5, <2>6, <2>8, UseKept
<1> QED  BY <1>2, <1>3 DEF update_node

LEMMA FreeNodeNodes ==
  ASSUME CInv, NInv, free_node, exec.node # Null
  PROVE  NInv'
<1> DEFINE p == exec.node
           h == ctrl_block.head["NODE"]
           freed == [NodeAt(file, p) EXCEPT !.is_empty = 0, !.last["LABEL"] = h]
<1>1. /\ exec.pc = "free_node" /\ ~ Down /\ ~ Updating /\ exec.jobs # << >>
      /\ exec \in exec_type /\ file \in File /\ p \in cell_ptr /\ h \in cell_ptr
  BY Unfold DEF free_node, Down, Updating, CInv, IInv, ExecOK, InOp, JobPCs, Pool, exec_type
<1>2. CASE Wild  BY <1>1, <1>2, WildNodes
<1>3. CASE IsNode(file, p) /\ ~ Wild
  <2>1. /\ file' = WriteNode(file, p, freed)
        /\ ctrl_block' = [file'[0] EXCEPT !.head["NODE"] = p]
        /\ exec' = [exec EXCEPT !.pc = "update_control_block", !.ret = "next"]
    BY <1>3 DEF free_node
  <2>2. AtNode /\ Place = "free_node"  BY <1>1 DEF AtNode, Place, NodePCs, Updating
  <2>3. /\ InUse(file, p) /\ job.op = "free" /\ p \notin exec.left
        /\ \A q \in exec.left : InUse(file, q)
    BY <1>1, <2>2 DEF NInv, NodesHeld
  <2>4. PoolSound(file, h)  BY <1>1 DEF NInv, MemSound
  <2>5. freed \in node_cell /\ freed.is_empty = 0 /\ freed.last["LABEL"] = h
    BY <1>1, <1>3, NodeAtType DEF node_cell, CellKind
  <2> HIDE DEF freed
  <2>6. SameElsewhere(file, file', p) /\ IsNode(file', p) /\ NodeAt(file', p) = freed
    BY <1>1, <1>3, <2>1, <2>5, NodeWriteSeen
  <2>7. h # Null /\ h # p  BY <1>1, <2>3, <2>4, HeadNotFirst
  <2>8. Freed(file', p) /\ Link(file', p) = h  BY <2>5, <2>6, <2>7 DEF Freed, Link
  <2>9. PoolSound(file', p)  BY <1>1, <2>3, <2>4, <2>6, <2>8, GiveNode
  <2>10. ctrl_block'.head["NODE"] = p
    <3>1. file'[0] \in control_block  BY <1>1, <1>3, <2>1, <2>5, NodeWrite
    <3> QED  BY <2>1, <3>1 DEF control_block, Pool
  <2>11. /\ exec'.jobs = exec.jobs /\ exec'.matched = exec.matched /\ exec'.left = exec.left
         /\ exec'.pc = "update_control_block" /\ exec'.ret = "next"
    BY <1>1, <2>1 DEF exec_type
  <2>12. Place' = "next" /\ job' = job  BY <2>11 DEF Place, Updating, job
  <2>13. ASSUME NEW q \in exec.left  PROVE InUse(file', q)
    <3>1. InUse(file, q) /\ q # p /\ q \in cell_ptr  BY <1>1, <2>3 DEF exec_type
    <3>2. SameNode(file, file', q)  BY <2>6, <3>1 DEF SameElsewhere
    <3> QED  BY <3>1, <3>2, SameNodeSeen
  <2>14. NodesHeld'
    BY <2>3, <2>11, <2>12, <2>13 DEF NodesHeld, AtNode, NodePCs, StringPCs
  <2>15. DiskSound'  BY <2>3, <2>12 DEF DiskSound, SteadyOps
  <2> QED  BY <2>9, <2>10, <2>11, <2>12, <2>14, <2>15
           DEF NInv, MemSound, NewBlockBlank, RestartSound
<1> QED  BY <1>2, <1>3 DEF free_node

LEMMA StopNodes ==
  ASSUME exec'.pc = "down", exec'.jobs = << >>, SoundNodes(file')
  PROVE  NInv'
<1>1. Len(exec'.jobs) = 0  OBVIOUS
<1>2. InOrder(exec'.jobs)  BY <1>1 DEF InOrder
<1> QED  BY <1>2 DEF NInv, MemSound, NewBlockBlank, DiskSound, RestartSound, NodesHeld, Place,
                     Updating, Down

LEMMA RemoveCellNodes ==
  ASSUME CInv, NInv, NEW kind \in CellKind, remove_cell(kind)
  PROVE  NInv'
<1> DEFINE p == exec.current
           old == CellAt(file, p)
           node == [NodeAt(file, exec.node) EXCEPT !.last[kind] = old.prev]
           prev_cell == [CellAt(file, exec.prev) EXCEPT !.prev = old.prev]
           sound == /\ IsCell(file, kind, p) /\ IsString(file, old.name)
                    /\ IsNode(file, exec.node)
                    /\ IsNode(file, exec.prev) \/ IsCell(file, kind, exec.prev)
           lost == exec.lost_place \/ (kind = "RELATION" /\ Named(old))
<1>1. exec.pc = "remove" /\ ~ Down /\ ~ Updating /\ exec.jobs # << >>
  BY DEF remove_cell, Down, Updating, CInv, IInv, ExecOK, InOp, JobPCs
<1>2. exec \in exec_type /\ file \in File /\ exec.node \in cell_ptr
  BY Unfold DEF CInv, exec_type
<1>3. CASE exec' = [exec EXCEPT !.pc = "next"] /\ ReadOnly
  <2>1. /\ exec'.jobs = exec.jobs /\ exec'.matched = exec.matched
        /\ exec'.left = exec.left /\ exec'.node = exec.node /\ exec'.pc = "next"
    BY <1>2, <1>3 DEF exec_type
  <2>2. SameNodes
    BY <2>1 DEF SameNodes, AtNode, Place, Updating, NodePCs, StringPCs
  <2> QED  BY <1>1, <1>3, <2>2, UseKeptReading DEF ReadOnly
<1>4. CASE Wild  BY <1>1, <1>4, WildNodes
<1>5. CASE ReadOnly /\ exec' = [exec EXCEPT !.prev = p, !.current = old.prev, !.lost_place = lost]
  <2>1. /\ exec'.jobs = exec.jobs /\ exec'.matched = exec.matched
        /\ exec'.left = exec.left /\ exec'.node = exec.node /\ exec'.pc = "remove"
    BY <1>1, <1>2, <1>5 DEF exec_type
  <2>2. SameNodes  BY <1>1, <2>1 DEF SameNodes, AtNode, Place, Updating, NodePCs
  <2> QED  BY <1>1, <1>5, <2>2, UseKeptReading DEF ReadOnly
<1>6. ASSUME sound, exec' = [exec EXCEPT !.pc = "free_cell", !.following = old.prev,
                                  !.lost_place = lost],
             IF exec.prev.block_num = 0
             THEN /\ file' = WriteNode(file, exec.node, node)
                  /\ ctrl_block' = file'[0]
                  /\ AllFlushed
             ELSE /\ file' = IF IsNode(file, exec.prev) THEN WriteNode(file, exec.node, node)
                             ELSE WriteCell(file, exec.prev, prev_cell)
                  /\ UNCHANGED ctrl_block
                  /\ LastWriteUnflushed
      PROVE  NInv'
  <2>1. /\ exec'.jobs = exec.jobs /\ exec'.matched = exec.matched
        /\ exec'.left = exec.left /\ exec'.node = exec.node /\ exec'.pc = "free_cell"
    BY <1>2, <1>6 DEF exec_type
  <2>2. SameNodes  BY <1>1, <2>1 DEF SameNodes, AtNode, Place, Updating, NodePCs
  <2>3. InUse(file, exec.node)
    <3>1. AtNode  BY <1>1 DEF AtNode, Place, NodePCs, Updating
    <3> QED  BY <1>1, <3>1 DEF NInv, NodesHeld
  <2>4. node \in node_cell /\ node.is_empty = 1
    <3>1. old.prev \in cell_ptr  BY <1>2, <1>6, CellAtType DEF cell
    <3>2. NodeAt(file, exec.node) \in node_cell /\ NodeAt(file, exec.node).is_empty = 1
      BY <1>2, <1>6, <2>3, NodeAtType DEF InUse
    <3> QED  BY <3>1, <3>2 DEF node_cell
  <2>5. IsNode(file, exec.prev) \/ IsCell(file, kind, exec.prev)  BY <1>6
  <2> HIDE DEF node, prev_cell
  <2>6. /\ SameUse(file, WriteNode(file, exec.node, node))
        /\ WriteNode(file, exec.node, node)[0].head = file[0].head
    BY <1>2, <2>3, <2>4, InUseWrite
  <2>7. SameUse(file, file') /\ file'[0].head = file[0].head
    <3>1. CASE file' = WriteNode(file, exec.node, node)  BY <2>6, <3>1
    <3>2. CASE file' = WriteCell(file, exec.prev, prev_cell) /\ IsCell(file, kind, exec.prev)
      BY <1>1, <3>2, CellWriteSeen
    <3> QED  BY <1>6, <2>5, <3>1, <3>2
  <2>8. ctrl_block'.head["NODE"] = ctrl_block.head["NODE"] /\ disk' \in {file, file'}
    BY <1>1, <1>6, <2>7 DEF CInv, ControlCoherent, AllFlushed, LastWriteUnflushed
  <2> QED  BY <1>1, <2>2, <2>7, <2>8, UseKept
<1>7. CASE disk' = file /\ UNCHANGED file /\ Stop
  <2>1. exec'.pc = "down" /\ exec'.jobs = << >>  BY <1>7 DEF Stop, Idle
  <2>2. SoundNodes(file)
    BY <1>1 DEF NInv, MemSound, SoundNodes, CInv, ControlCoherent
  <2> QED  BY <1>7, <2>1, <2>2, StopNodes
<1> QED  BY <1>3, <1>4, <1>5, <1>6, <1>7 DEF remove_cell

-----------------------------------------------------------------------------
(* The beginning of a command, and of a process.                           *)
LEMMA ScannableAtRest ==
  ASSUME CInv, BInv, exec.pc = "idle"
  PROVE  Scannable(file, ctrl_block.empty_block)
<1>1. ~ Down /\ ~ Updating  BY DEF Down, Updating
<1>2. /\ ctrl_block = file[0] /\ file[0].type = "CONTROL"
      /\ ctrl_block.empty_block \in 1 .. MAX_BLOCKS /\ ctrl_block.prev_node_block \in Block
  BY <1>1, Unfold DEF CInv, ControlCoherent, IInv, ControlBlock
<1> QED  BY <1>1, <1>2 DEF BInv, MemLinked, ChainPCs, Scannable

LEMMA PtrOfNode ==
  ASSUME NEW f, f[0].type = "CONTROL", NEW p
  PROVE  p \in NodePtr /\ p.block_num \in {0} \cup {b \in Block : f[b].type = "NODE"}
           <=> p \in cell_ptr /\ IsNode(f, p)
<1>1. /\ 0 \in Block /\ NODES_IN_BLOCK \in Nat /\ NODES_IN_CONTROL_BLOCK \in Nat
      /\ \A b \in Block : b \in -1 .. MAX_BLOCKS - 1
  BY LayoutAssumption DEF Block
<1>2. ASSUME p \in NodePtr, p.block_num \in {0} \cup {b \in Block : f[b].type = "NODE"}
      PROVE  p \in cell_ptr /\ IsNode(f, p)
  <2>1. PICK b \in Block, o \in Nat :
          p = Ptr(b, o) /\ o <= (IF b = 0 THEN NODES_IN_CONTROL_BLOCK ELSE NODES_IN_BLOCK) - 1
    BY <1>1, <1>2 DEF NodePtr
  <2>2. p.block_num = b /\ p.offset = o /\ p \in cell_ptr
    BY <1>1, <2>1 DEF Ptr, cell_ptr
  <2> QED  BY <1>1, <1>2, <2>1, <2>2 DEF IsNode, NodesIn
<1>3. ASSUME p \in cell_ptr, IsNode(f, p)
      PROVE  p \in NodePtr /\ p.block_num \in {0} \cup {b \in Block : f[b].type = "NODE"}
  <2>1. p = Ptr(p.block_num, p.offset)  BY <1>3 DEF cell_ptr, Ptr
  <2>2. /\ p.block_num \in Block /\ p.offset \in Nat
        /\ p.offset <= NodesIn(p.block_num) - 1
        /\ p.block_num # 0 => f[p.block_num].type = "NODE"
    BY <1>1, <1>3 DEF IsNode, cell_ptr, NodesIn
  <2>3. p \in NodePtr
    <3>1. CASE p.block_num = 0
      <4>1. p.offset \in 0 .. NODES_IN_CONTROL_BLOCK - 1  BY <1>1, <2>2, <3>1 DEF NodesIn
      <4> QED  BY <2>1, <3>1, <4>1 DEF NodePtr
    <3>2. CASE p.block_num # 0
      <4>1. p.offset \in 0 .. NODES_IN_BLOCK - 1  BY <1>1, <2>2, <3>2 DEF NodesIn
      <4> QED  BY <2>1, <2>2, <3>2, <4>1 DEF NodePtr
    <3> QED  BY <3>1, <3>2
  <2> QED  BY <2>2, <2>3
<1> QED  BY <1>2, <1>3

LEMMA ScannedInUse ==
  ASSUME CInv, BInv, exec.pc = "idle", NEW p \in ScannedNodes(file)
  PROVE  p \in cell_ptr /\ InUse(file, p)
<1>1. NodeBlocks(file) = {0} \cup {b \in Block : file[b].type = "NODE"}
  BY ScannableAtRest, ScanMeetsAll
<1>2. file[0].type = "CONTROL"  BY DEF CInv, IInv, ControlBlock, Down
<1>3. p \in NodePtr /\ p.block_num \in NodeBlocks(file) /\ NodeAt(file, p).is_empty = 1
  BY DEF ScannedNodes
<1> QED  BY <1>1, <1>2, <1>3, PtrOfNode DEF InUse

LEMMA JobsLength ==
  ASSUME NEW labels \in Seq(String), NEW props \in Seq(property), NEW a, NEW b,
         Len(labels) + Len(props) <= 1
  PROVE  LET jobs == LabelJobs(a, labels) \o PropJobs(b, props)
         IN Len(jobs) \in Nat /\ Len(jobs) <= 1
<1> DEFINE s == LabelJobs(a, labels)
           t == PropJobs(b, props)
           W == {LabelJob(a, labels[i]) : i \in 1 .. Len(labels)}
                  \cup {PropJob(b, props[i]) : i \in 1 .. Len(props)}
<1>1. s \in Seq(W) /\ Len(s) = Len(labels)  BY DEF LabelJobs
<1>2. t \in Seq(W) /\ Len(t) = Len(props)  BY DEF PropJobs
<1> HIDE DEF s, t, W
<1>3. Len(s \o t) = Len(labels) + Len(props)  BY <1>1, <1>2
<1>4. Len(s \o t) \in Nat /\ Len(s \o t) <= 1  BY <1>3
<1> QED  BY <1>4 DEF s, t

LEMMA JobsInOrder ==
  ASSUME NEW info \in Commands
  PROVE  InOrder(Jobs(info))
<1>1. /\ info.labels \in Seq(String) /\ info.props \in Seq(property)
      /\ info.changed_labels \in Seq(String) /\ info.changed_props \in Seq(property)
      /\ info.command_type \in {"match", "create", "set", "remove", "delete"}
      /\ Len(info.changed_labels) + Len(info.changed_props) <= 1
  BY CommandsAssumption DEF query_info
<1>2. ASSUME NEW jobs, Len(jobs) \in Nat, Len(jobs) <= 1  PROVE InOrder(jobs)
  BY <1>2 DEF InOrder
<1>3. CASE info.command_type = "create" /\ ~ info.has_relation
  <2> DEFINE s == LabelJobs("add", info.labels)
             t == PropJobs("add", info.props)
             W == [op : {"add"}, kind : {"LABEL", "ATTRIBUTE"},
                   name : String, value : String \cup {ALL}]
  <2>1. Jobs(info) = s \o t  BY <1>3 DEF Jobs
  <2>2. s \in Seq(W)  BY <1>1 DEF LabelJobs, LabelJob
  <2>3. t \in Seq(W)
    <3>1. \A p \in property : PropJob("add", p) \in W  BY DEF PropJob, property
    <3> QED  BY <1>1, <3>1 DEF PropJobs
  <2>4. \A w \in W : w.op = "add"  OBVIOUS
  <2> HIDE DEF s, t, W
  <2>5. s \o t \in Seq(W)  BY <2>2, <2>3
  <2> DEFINE u == s \o t
  <2>6. u \in Seq(W)  BY <2>5
  <2> HIDE DEF u
  <2>7. \A i \in 1 .. Len(u) : u[i] \in W  BY <2>6
  <2>8. \A i \in 1 .. Len(u) : u[i].op = "add"  BY <2>4, <2>7
  <2>9. InOrder(u)  BY <2>8 DEF InOrder, SteadyOps
  <2> QED  BY <2>1, <2>9 DEF u
<1>4. CASE info.command_type \in {"set", "remove"}
  <2>1. PICK a \in {"add", "remove"}, b \in {"put", "remove"} :
          Jobs(info) = LabelJobs(a, info.changed_labels) \o PropJobs(b, info.changed_props)
    BY <1>4 DEF Jobs
  <2>2. Len(Jobs(info)) \in Nat /\ Len(Jobs(info)) <= 1  BY <1>1, <2>1, JobsLength
  <2> QED  BY <1>2, <2>2
<1>5. CASE Jobs(info) = delete_nodes
  <2>1. /\ Len(delete_nodes) = 4
        /\ delete_nodes[1].op = "remove" /\ delete_nodes[2].op = "remove"
        /\ delete_nodes[3].op = "remove" /\ delete_nodes[4].op = "free"
    BY DEF delete_nodes, AllOf
  <2> HIDE DEF delete_nodes
  <2> QED  BY <1>5, <2>1 DEF InOrder, SteadyOps
<1>6. CASE \E op : Jobs(info) = << RelationJob(op, info.rel_name) >>
  <2>1. PICK op : Jobs(info) = << RelationJob(op, info.rel_name) >>  BY <1>6
  <2>2. Len(Jobs(info)) \in Nat /\ Len(Jobs(info)) <= 1  BY <2>1
  <2> QED  BY <1>2, <2>2
<1> QED  BY <1>1, <1>3, <1>4, <1>5, <1>6 DEF Jobs

LEMMA ExecutingNodes ==
  ASSUME CInv, BInv, NInv, Execute
  PROVE  NInv'
<1>1. PICK info \in Commands : \/ execute_match(info) \/ execute_create(info)
                               \/ execute_create_relation(info)
                               \/ execute_set(info) \/ execute_remove(info)
                               \/ execute_delete(info)
  BY DEF Execute
<1>2. /\ exec.pc = "idle" /\ ~ Down /\ ~ Updating
      /\ disk' = file /\ UNCHANGED <<file, ctrl_block>>
  BY <1>1 DEF execute_match, execute_create, execute_create_relation, execute_set,
              execute_remove, execute_delete, OnMatched, Starting, Down, Updating, ReadOnly
<1>3. MemSound' /\ SoundNodes(file) /\ file[0].head["NODE"] = ctrl_block.head["NODE"]
  BY <1>2 DEF NInv, MemSound, SoundNodes, CInv, ControlCoherent
<1>4. /\ Matched(file, info) \subseteq ScannedNodes(file)
      /\ Like(file, info.labels, info.props) \subseteq ScannedNodes(file)
  BY DEF Matched, Like
<1>5. \A p \in ScannedNodes(file) : InUse(file, p)  BY <1>2, ScannedInUse
<1>6. InOrder(Jobs(info))  BY JobsInOrder
<1>7. CASE exec'.jobs = << >> /\ exec'.pc \in {"idle", "wild"}
  <2>1. exec'.pc \notin UpdatingPCs \cup {"down"}  BY <1>7 DEF UpdatingPCs
  <2> QED  BY <1>2, <1>7, <2>1, NoJobs
<1>8. CASE execute_create(info)
  <2>1. /\ exec' = [Idle EXCEPT !.pc = "create_node_cell", !.jobs = Jobs(info), !.number = 1]
        /\ info.command_type = "create" /\ ~ info.has_relation
    BY <1>8 DEF execute_create, Starting
  <2>2. /\ exec'.pc = "create_node_cell" /\ exec'.jobs = Jobs(info)
        /\ exec'.matched = {} /\ exec'.left = {}
    BY <2>1 DEF Idle
  <2>3. Place' = "create_node_cell"  BY <2>2 DEF Place, Updating
  <2>4. DiskSound'  BY <2>1, <2>2, CreateJobsAdd DEF DiskSound, SteadyOps, job
  <2>5. NodesHeld'  BY <2>2, <2>3 DEF NodesHeld, AtNode, NodePCs, StringPCs
  <2> QED  BY <1>3, <1>6, <2>2, <2>3, <2>4, <2>5 DEF NInv, NewBlockBlank, RestartSound
<1>9. ASSUME NEW nodes, nodes \subseteq ScannedNodes(file), exec'.jobs = Jobs(info),
             exec'.matched = nodes, exec'.left = nodes,
             \/ exec'.pc = "next"
             \/ exec'.pc = "create_string_cell" /\ job'.op = "relate"
      PROVE  NInv'
  <2>1. Place' = exec'.pc  BY <1>9 DEF Place, Updating
  <2>2. DiskSound'  BY <1>2, <1>3 DEF DiskSound
  <2>3. NodesHeld'
    BY <1>2, <1>5, <1>9, <2>1 DEF NodesHeld, AtNode, NodePCs, StringPCs
  <2> QED  BY <1>3, <1>6, <1>9, <2>1, <2>2, <2>3 DEF NInv, NewBlockBlank, RestartSound
<1>10. ASSUME NEW nodes, nodes \subseteq ScannedNodes(file), NEW number,
              exec' = Run(info, nodes, number)
       PROVE  NInv'
  <2>1. /\ exec'.pc = "next" /\ exec'.jobs = Jobs(info)
        /\ exec'.matched = nodes /\ exec'.left = nodes
    BY <1>10 DEF Run, Idle
  <2> QED  BY <1>9, <1>10, <2>1
<1>11. CASE execute_match(info)
  BY <1>7, <1>11 DEF execute_match, OnMatched, Respond, Idle
<1>12. CASE execute_create_relation(info)
  <2>1. CASE exec' = [Idle EXCEPT !.pc = "wild"]  BY <1>7, <2>1 DEF Idle
  <2>2. CASE exec' # [Idle EXCEPT !.pc = "wild"]
    <3> DEFINE nodes == Like(file, info.labels, info.props)
    <3>1. PICK number, others :
            exec' = [Idle EXCEPT
                  !.pc = "create_string_cell", !.jobs = Jobs(info), !.texts = << info.rel_name >>,
                  !.matched = nodes, !.left = nodes, !.seconds = others,
                  !.number = number]
      BY <1>12, <2>2 DEF execute_create_relation
    <3>2. Jobs(info) = << RelationJob("relate", info.rel_name) >>
      BY <1>12 DEF execute_create_relation, Starting, Jobs
    <3> HIDE DEF nodes
    <3>3. /\ exec'.pc = "create_string_cell" /\ exec'.jobs = Jobs(info)
          /\ exec'.matched = nodes /\ exec'.left = nodes
      BY <3>1 DEF Idle
    <3>4. job'.op = "relate"  BY <3>2, <3>3 DEF job, RelationJob
    <3>5. nodes \subseteq ScannedNodes(file)  BY <1>4 DEF nodes
    <3> QED  BY <1>9, <3>3, <3>4, <3>5
  <2> QED  BY <2>1, <2>2
<1>13. ASSUME NEW nodes, nodes \subseteq ScannedNodes(file), NEW number,
              exec' = Run(info, nodes, number) \/ exec' = [Idle EXCEPT !.pc = "wild"]
       PROVE  NInv'
  <2>1. CASE exec' = Run(info, nodes, number)  BY <1>10, <1>13, <2>1
  <2>2. CASE exec' = [Idle EXCEPT !.pc = "wild"]  BY <1>7, <2>2 DEF Idle
  <2> QED  BY <1>13, <2>1, <2>2
<1>14. CASE execute_set(info)
  BY <1>4, <1>13, <1>14 DEF execute_set, OnMatched
<1>15. CASE execute_remove(info)
  BY <1>4, <1>13, <1>15 DEF execute_remove, OnMatched
<1>16. CASE execute_delete(info)
  BY <1>4, <1>13, <1>16 DEF execute_delete, OnMatched
<1> QED  BY <1>1, <1>8, <1>11, <1>12, <1>14, <1>15, <1>16

(* Where the process may be killed, or stopped, and leave a sound pool of  *)
(* nodes behind: killed, at no point of a creation or deletion of nodes,   *)
(* and not when the last write of one may still be unflushed; stopped, at  *)
(* no point at which the control block in memory is ahead of the file's.   *)
NodeSafePoints ==
  /\ SafePoints
  /\ \A at \in KillPoints : at[2] \in SteadyOps
  /\ \A at \in QuitPoints : at[1] = "update_control_block" => at[2] = "remove"

LEMMA StartOrStopNodes ==
  ASSUME CInv, RelateInv, BInv, NInv, NodeSafePoints, init_data \/ kill \/ quit
  PROVE  NInv'
<1>1. /\ Idle.pc = "idle" /\ Idle.jobs = << >>
      /\ [Idle EXCEPT !.pc = "wild"].pc = "wild" /\ [Idle EXCEPT !.pc = "wild"].jobs = << >>
      /\ [Idle EXCEPT !.pc = "down"].pc = "down" /\ [Idle EXCEPT !.pc = "down"].jobs = << >>
  BY DEF Idle
<1>2. At[1] = exec.pc /\ At[2] = IF exec.jobs = << >> THEN "none" ELSE job.op  BY DEF At
<1>3. CASE kill
  <2>1. At[2] \in SteadyOps  BY <1>3 DEF kill, NodeSafePoints
  <2>2. exec.jobs # << >> /\ job.op \in SteadyOps  BY <1>2, <2>1 DEF SteadyOps
  <2>3. SoundNodes(disk)  BY <2>2 DEF NInv, DiskSound
  <2> QED  BY <1>1, <1>3, <2>3, StopNodes DEF kill, Stop
<1>4. CASE quit
  <2>1. SoundNodes(file)
    <3>1. At \in QuitPoints /\ SafePoint(At)  BY <1>4 DEF quit, NodeSafePoints, SafePoints
    <3>2. exec.pc # "wild" /\ (Updating => exec.pc = "update_control_block")
      BY <1>2, <3>1 DEF SafePoint, Updating, UpdatingPCs
    <3>3. CASE exec.pc = "down"  BY <3>3 DEF NInv, RestartSound, Place, Updating
    <3>4. CASE ~ Down /\ ~ Updating
      BY <3>4 DEF NInv, MemSound, SoundNodes, CInv, ControlCoherent
    <3>5. CASE exec.pc = "update_control_block"
      <4>1. At[2] = "remove"  BY <1>2, <3>1, <3>5 DEF NodeSafePoints
      <4>2. exec.jobs # << >> /\ job.op \in SteadyOps  BY <1>2, <4>1 DEF SteadyOps
      <4>3. file[0].head["NODE"] = ctrl_block.head["NODE"]  BY <4>2 DEF NInv, DiskSound
      <4> QED  BY <3>5, <4>3 DEF NInv, MemSound, SoundNodes, Down
    <3> QED  BY <3>2, <3>3, <3>4, <3>5 DEF Down
  <2> QED  BY <1>1, <1>4, <2>1, StopNodes DEF quit, Stop
<1>5. CASE init_data
  <2>1. SoundNodes(file)
    BY <1>5 DEF init_data, NInv, RestartSound, Place, Updating
  <2>2. exec'.jobs = << >> /\ exec'.pc \in {"idle", "wild"}
    BY <1>1, <1>5 DEF init_data
  <2>3. MemSound'
    <3>1. CASE file[0].type = "CONTROL"
      BY <1>5, <2>1, <3>1 DEF init_data, MemSound, SoundNodes
    <3>2. CASE file[0].type # "CONTROL"
      BY <1>1, <1>5, <3>2 DEF init_data, MemSound, Down
    <3> QED  BY <3>1, <3>2
  <2>4. Len(exec'.jobs) = 0  BY <2>2
  <2>5. InOrder(exec'.jobs)  BY <2>4 DEF InOrder
  <2> QED  BY <2>2, <2>3, <2>5
           DEF NInv, NewBlockBlank, DiskSound, RestartSound, NodesHeld, Place, Updating
<1> QED  BY <1>3, <1>4, <1>5

LEMMA InitiallyPooled == Init => NInv
<1> SUFFICES ASSUME Init  PROVE NInv
  OBVIOUS
<1>1. /\ 0 \in Block /\ NODES_IN_CONTROL_BLOCK \in Nat \ {0}
      /\ Null.block_num = 0 /\ Null.offset = 0 /\ Null \in cell_ptr
  BY LayoutAssumption, ZeroTypes DEF Block, Null, Ptr
<1>2. /\ exec.pc = "idle" /\ exec.jobs = << >> /\ ctrl_block = NewControl
      /\ file[0] = NewControl
      /\ \A b \in Block : b # 0 => file[b].type = "ABSENT"
  BY <1>1 DEF Init, Idle, EmptyFile, Absent
<1>3. /\ NewControl.head["NODE"] = Null
      /\ \A o \in 0 .. NODES_IN_CONTROL_BLOCK - 1 : NewControl.nodes[o] = ZeroNode
  BY DEF NewControl, Pool
<1>4. ZeroNode.is_empty = 0 /\ ZeroNode.last["LABEL"] = Null
  BY DEF ZeroNode, CellKind
<1> HIDE DEF NewControl, ZeroNode, Null
<1>5. ASSUME NEW p \in cell_ptr, IsNode(file, p)  PROVE Unused(file, p)
  <2>1. p.block_num = 0 /\ p.offset \in 0 .. NODES_IN_CONTROL_BLOCK - 1
    BY <1>1, <1>2, <1>5 DEF IsNode, NodesIn, cell_ptr
  <2>2. NodeAt(file, p) = ZeroNode  BY <1>2, <1>3, <2>1 DEF NodeAt
  <2> QED  BY <1>4, <1>5, <2>2 DEF Unused, Link
<1>6. IsNode(file, Null)
  BY <1>1, <1>2 DEF IsNode, NodesIn, NewControl
<1>7. FirstUnused(file, Null)
  <2>1. \A q \in cell_ptr : ~ Precedes(q, Null)  BY <1>1 DEF Precedes, cell_ptr
  <2> QED  BY <1>1, <1>5, <1>6, <2>1 DEF FirstUnused
<1>8. NoneUsed(file)  BY <1>5, Apart DEF NoneUsed, InUse, Freed
<1>9. FilledInOrder(file)  BY <1>5 DEF FilledInOrder
<1>10. LinksApart(file, Null)  BY <1>8 DEF LinksApart, NoneUsed
<1>11. PoolSound(file, Null)  BY <1>7, <1>8, <1>9, <1>10 DEF PoolSound, CanHandOut
<1>12. Len(exec.jobs) = 0  BY <1>2
<1>13. InOrder(exec.jobs)  BY <1>12 DEF InOrder
<1> QED  BY <1>2, <1>3, <1>11, <1>13
         DEF NInv, MemSound, NewBlockBlank, DiskSound, RestartSound, NodesHeld, Place, Updating

(* The first node of the file is not deleted.                              *)
FirstNodeStays == exec.pc = "free_node" => exec.node # Null

LEMMA InductiveNodes ==
  ASSUME NodeSafePoints
  PROVE  CInv /\ RelateInv /\ BInv /\ NInv /\ FirstNodeStays /\ [Next]_vars => NInv'
<1> SUFFICES ASSUME CInv, RelateInv, BInv, NInv, FirstNodeStays, [Next]_vars  PROVE NInv'
  OBVIOUS
<1>1. CASE Step
  <2>1. CASE create_label_cell \/ create_attribute_cell \/ create_relation_cell
    BY <2>1, CreateCellNodes
    DEF create_label_cell, create_attribute_cell, create_relation_cell, CellKind
  <2>2. CASE update_node_labels \/ update_node_attributes \/ update_node_relations
    BY <2>2, UpdateNodeNodes
    DEF update_node_labels, update_node_attributes, update_node_relations, CellKind
  <2>3. CASE remove_labels \/ remove_attributes \/ delete_relations
    BY <2>3, RemoveCellNodes DEF remove_labels, remove_attributes, delete_relations, CellKind
  <2>4. CASE free_node  BY <2>4, FreeNodeNodes DEF FirstNodeStays, free_node
  <2> QED
    BY <1>1, <2>1, <2>2, <2>3, <2>4, ControlNodes, ChainNodes, CreateNodeNodes, NextNodeNodes,
       NextJobNodes, LoopNodes, CreateStringNodes, StringInNewBlockNodes, WriteValueNodes,
       FreeCellNodes
    DEF Step
<1>2. CASE Execute  BY <1>2, ExecutingNodes
<1>3. CASE init_data \/ kill \/ quit  BY <1>3, StartOrStopNodes
<1>4. CASE UNCHANGED vars
  BY <1>4 DEF vars, NInv, MemSound, NewBlockBlank, DiskSound, RestartSound, NodesHeld, AtNode,
              Place, Updating, Down, job, Link, InUse, IsNode, NodeAt
<1> QED  BY <1>1, <1>2, <1>3, <1>4 DEF Next

-----------------------------------------------------------------------------
(* The nodes that will be handed out.  First, that the recursive           *)
(* definition defines a function: turn k meets what a path of at most k    *)
(* turns leads to.                                                         *)
TurnAfter(f, p) == HeadAfter(p, NodeAt(f, p).last["LABEL"], NodesIn(p.block_num))
IsTurns(f, t) ==
  t = [k \in Nat |->
        IF k = 0 THEN {f[0].head["NODE"]}
        ELSE {f[0].head["NODE"]} \cup {TurnAfter(f, p) : p \in {q \in t[k - 1] : IsNode(f, q)}}]
TurnsAlong(f, s, n) ==
  s[0] = f[0].head["NODE"] /\ \A i \in 0 .. n - 1 : IsNode(f, s[i]) /\ s[i + 1] = TurnAfter(f, s[i])
TurnsBy(f, k) ==
  {p \in cell_ptr : \E s \in [Nat -> cell_ptr] : \E n \in 0 .. k : TurnsAlong(f, s, n) /\ s[n] = p}

LEMMA TurnType ==
  ASSUME NEW f \in File, NEW p \in cell_ptr, IsNode(f, p)
  PROVE  TurnAfter(f, p) \in cell_ptr
<1>1. Link(f, p) \in cell_ptr  BY NodeStates
<1>2. /\ p.block_num \in Block /\ p.offset \in Nat /\ NodesIn(p.block_num) \in Nat
      /\ p.block_num \in -1 .. MAX_BLOCKS - 1
  BY LayoutAssumption DEF IsNode, cell_ptr, NodesIn
<1>3. Ptr(p.block_num, p.offset + 1) \in cell_ptr  BY <1>2 DEF Ptr, cell_ptr
<1> QED  BY <1>1, <1>3, ZeroTypes DEF TurnAfter, HeadAfter, Link

LEMMA TurnsNext ==
  ASSUME NEW f \in File, f[0].head["NODE"] \in cell_ptr, NEW k \in Nat, k # 0
  PROVE  TurnsBy(f, k) =
           {f[0].head["NODE"]}
             \cup {TurnAfter(f, p) : p \in {q \in TurnsBy(f, k - 1) : IsNode(f, q)}}
<1> DEFINE h == f[0].head["NODE"]
           Turned(S) == {TurnAfter(f, p) : p \in {q \in S : IsNode(f, q)}}
<1>1. h \in TurnsBy(f, k)
  <2> DEFINE s == [i \in Nat |-> h]
  <2>1. s \in [Nat -> cell_ptr] /\ TurnsAlong(f, s, 0) /\ s[0] = h  BY DEF TurnsAlong
  <2> HIDE DEF s
  <2>2. 0 \in 0 .. k  OBVIOUS
  <2> QED  BY <2>1, <2>2 DEF TurnsBy
<1>2. ASSUME NEW q \in TurnsBy(f, k - 1), IsNode(f, q)
      PROVE  TurnAfter(f, q) \in TurnsBy(f, k)
  <2>1. PICK s \in [Nat -> cell_ptr], n \in 0 .. k - 1 : TurnsAlong(f, s, n) /\ s[n] = q
    BY DEF TurnsBy
  <2> DEFINE p == TurnAfter(f, q)
             r == [s EXCEPT ![n + 1] = p]
  <2>2. p \in cell_ptr  BY <1>2, TurnType DEF TurnsBy
  <2> HIDE DEF p
  <2>3. /\ r \in [Nat -> cell_ptr] /\ r[n + 1] = p
        /\ \A i \in 0 .. n : r[i] = s[i]
    BY <2>2
  <2> HIDE DEF r
  <2>4. TurnsAlong(f, r, n + 1)
    <3>1. r[0] = h  BY <2>1, <2>3 DEF TurnsAlong
    <3>2. ASSUME NEW i \in 0 .. n  PROVE IsNode(f, r[i]) /\ r[i + 1] = TurnAfter(f, r[i])
      <4>1. CASE i = n  BY <1>2, <2>1, <2>3, <4>1 DEF p
      <4>2. CASE i # n
        <5>1. i \in 0 .. n - 1 /\ i + 1 \in 0 .. n  BY <4>2
        <5>2. IsNode(f, s[i]) /\ s[i + 1] = TurnAfter(f, s[i])  BY <2>1, <5>1 DEF TurnsAlong
        <5> QED  BY <2>3, <5>1, <5>2
      <4> QED  BY <4>1, <4>2
    <3> QED  BY <3>1, <3>2 DEF TurnsAlong
  <2>5. n + 1 \in 0 .. k  OBVIOUS
  <2> QED  BY <2>2, <2>3, <2>4, <2>5 DEF TurnsBy, p
<1>3. ASSUME NEW p \in TurnsBy(f, k), p # h
      PROVE  \E q \in TurnsBy(f, k - 1) : IsNode(f, q) /\ p = TurnAfter(f, q)
  <2>1. PICK s \in [Nat -> cell_ptr], n \in 0 .. k : TurnsAlong(f, s, n) /\ s[n] = p
    BY DEF TurnsBy
  <2>2. n # 0  BY <1>3, <2>1 DEF TurnsAlong
  <2> DEFINE m == n - 1
  <2>3. m \in 0 .. k - 1 /\ m + 1 = n /\ m \in Nat /\ m \in 0 .. n - 1
        /\ \A i \in 0 .. m - 1 : i \in 0 .. n - 1
    BY <2>2
  <2> HIDE DEF m
  <2>4. IsNode(f, s[m]) /\ s[m + 1] = TurnAfter(f, s[m])  BY <2>1, <2>3 DEF TurnsAlong
  <2>5. TurnsAlong(f, s, m)  BY <2>1, <2>3 DEF TurnsAlong
  <2>6. s[m] \in cell_ptr  BY <2>3
  <2>7. s[m] \in TurnsBy(f, k - 1)  BY <2>3, <2>5, <2>6 DEF TurnsBy
  <2>8. p = TurnAfter(f, s[m])  BY <2>1, <2>3, <2>4
  <2> QED  BY <2>4, <2>7, <2>8
<1>4. ASSUME NEW p \in TurnsBy(f, k)  PROVE p \in {h} \cup Turned(TurnsBy(f, k - 1))
  BY <1>3
<1>5. ASSUME NEW p \in {h} \cup Turned(TurnsBy(f, k - 1))  PROVE p \in TurnsBy(f, k)
  BY <1>1, <1>2
<1> QED  BY <1>4, <1>5

(* A node that will be handed out is a free one.                           *)
LEMMA HandoutsFree ==
  ASSUME NEW f \in File, f[0].head["NODE"] \in cell_ptr, PoolSound(f, f[0].head["NODE"]),
         NEW p \in NodeHandouts(f)
  PROVE  ~ InUse(f, p)
<1> DEFINE h == f[0].head["NODE"]
           t == CHOOSE u : IsTurns(f, u)
           by == [k \in Nat |-> TurnsBy(f, k)]
           Free == {q \in cell_ptr : q = NoRoom \/ Freed(f, q) \/ Unused(f, q)}
<1>1. NodeHandouts(f) = t[Cardinality(NodePtr)]  BY DEF NodeHandouts, IsTurns, TurnAfter
<1>2. TurnsBy(f, 0) = {h}
  <2>1. ASSUME NEW q \in TurnsBy(f, 0)  PROVE q = h
    <3>1. PICK s \in [Nat -> cell_ptr], n \in 0 .. 0 : TurnsAlong(f, s, n) /\ s[n] = q
      BY DEF TurnsBy
    <3> QED  BY <3>1 DEF TurnsAlong
  <2>2. h \in TurnsBy(f, 0)
    <3> DEFINE s == [i \in Nat |-> h]
    <3>1. s \in [Nat -> cell_ptr] /\ TurnsAlong(f, s, 0) /\ s[0] = h  BY DEF TurnsAlong
    <3> HIDE DEF s
    <3>2. 0 \in 0 .. 0  OBVIOUS
    <3> QED  BY <3>1, <3>2 DEF TurnsBy
  <2> QED  BY <2>1, <2>2
<1>3. IsTurns(f, by)
  <2>1. ASSUME NEW k \in Nat
        PROVE  by[k] = IF k = 0 THEN {h}
                       ELSE {h} \cup {TurnAfter(f, q) : q \in {r \in by[k - 1] : IsNode(f, r)}}
    <3>1. CASE k = 0  BY <1>2, <3>1
    <3>2. CASE k # 0
      <4>1. by[k] = TurnsBy(f, k) /\ by[k - 1] = TurnsBy(f, k - 1)  BY <3>2
      <4> QED  BY <3>2, <4>1, TurnsNext
    <3> QED  BY <3>1, <3>2
  <2> HIDE DEF by
  <2>2. by = [k \in Nat |-> by[k]]  BY DEF by
  <2> QED  BY <2>1, <2>2 DEF IsTurns
<1>4. IsTurns(f, t)  BY <1>3, Zenon
<1> HIDE DEF t
<1>5. h \in Free  BY DEF PoolSound, CanHandOut, FirstUnused
<1>6. ASSUME NEW q \in Free, IsNode(f, q)  PROVE TurnAfter(f, q) \in Free
  <2>1. TurnAfter(f, q) \in cell_ptr  BY <1>6, TurnType
  <2>2. q # NoRoom  BY <1>6, LayoutAssumption DEF IsNode, NoRoom, Ptr, Block
  <2>3. CASE Freed(f, q)
    <3>1. TurnAfter(f, q) = Link(f, q)  BY <2>3 DEF TurnAfter, HeadAfter, Freed, Link
    <3>2. CanHandOut(f, Link(f, q))  BY <2>3 DEF PoolSound, LinksApart
    <3> QED  BY <2>1, <3>1, <3>2 DEF CanHandOut, FirstUnused
  <2>4. CASE Unused(f, q)
    <3> DEFINE n == Ptr(q.block_num, q.offset + 1)
    <3>1. /\ q.block_num \in Block /\ q.offset \in Nat /\ NodesIn(q.block_num) \in Nat
      BY <1>6, LayoutAssumption DEF IsNode, NodesIn, cell_ptr
    <3>2. TurnAfter(f, q) = IF q.offset + 1 > NodesIn(q.block_num) - 1 THEN NoRoom ELSE n
      BY <2>4 DEF TurnAfter, HeadAfter, Unused, Link
    <3>3. n.block_num = q.block_num /\ n.offset = q.offset + 1  BY DEF Ptr
    <3> HIDE DEF n
    <3>4. CASE TurnAfter(f, q) = n /\ q.offset + 1 <= NodesIn(q.block_num) - 1
      <4>1. IsNode(f, n) /\ Precedes(q, n)
        BY <1>6, <3>1, <3>3, <3>4 DEF IsNode, Precedes
      <4>2. Unused(f, n)  BY <2>1, <2>4, <3>4, <4>1 DEF PoolSound, FilledInOrder
      <4> QED  BY <2>1, <3>4, <4>2
    <3>5. CASE TurnAfter(f, q) = NoRoom  BY <2>1, <3>5
    <3> QED  BY <3>1, <3>2, <3>4, <3>5
  <2> QED  BY <2>2, <2>3, <2>4
<1> DEFINE S == {k \in Nat : ~ (t[k] \subseteq Free)}
<1>7. S = {}
  <2>1. SUFFICES ASSUME S # {}  PROVE FALSE  OBVIOUS
  <2>2. PICK k \in S : \A j \in S : k <= j  BY <2>1, LeastNumber, Zenon
  <2> HIDE DEF Free
  <2>3. CASE k = 0
    <3>1. t[0] = {h}  BY <1>4 DEF IsTurns
    <3> QED  BY <1>5, <2>2, <2>3, <3>1
  <2>4. CASE k # 0
    <3>1. k \in Nat /\ k - 1 \in Nat /\ k - 1 \notin S  BY <2>2, <2>4
    <3>2. t[k - 1] \subseteq Free  BY <3>1
    <3>3. t[k] = {h} \cup {TurnAfter(f, q) : q \in {r \in t[k - 1] : IsNode(f, r)}}
      BY <1>4, <2>4, <3>1 DEF IsTurns
    <3>4. t[k] \subseteq Free  BY <1>5, <1>6, <3>2, <3>3
    <3> QED  BY <2>2, <3>4
  <2> QED  BY <2>3, <2>4
<1>8. Cardinality(NodePtr) \in Nat  BY PtrTypes, FS_CardinalityType
<1>9. p \in Free  BY <1>1, <1>7, <1>8
<1> QED  BY <1>9, Apart

-----------------------------------------------------------------------------
(* What the invariant says between two commands.                           *)
LEMMA PoolAtRest ==
  ASSUME CInv, NInv, exec.pc = "idle"
  PROVE  /\ file \in File /\ file[0].type = "CONTROL"
         /\ file[0].head["NODE"] \in cell_ptr /\ PoolSound(file, file[0].head["NODE"])
<1>1. ~ Down /\ ~ Updating  BY DEF Down, Updating
<1>2. ctrl_block = file[0] /\ file[0].type = "CONTROL"
  BY <1>1 DEF CInv, ControlCoherent, IInv, ControlBlock
<1> QED  BY <1>1, <1>2, Unfold DEF CInv, Pool, NInv, MemSound

LEMMA OwnedAtRest == CInv /\ NInv => NodesOwnedOnce
<1> SUFFICES ASSUME CInv, NInv, AtRest, NEW p \in NodesInUse(file), p \in NodeHandouts(file)
             PROVE  FALSE
  BY DEF NodesOwnedOnce
<1>1. InUse(file, p)  BY DEF NodesInUse, InUse
<1> QED  BY <1>1, PoolAtRest, HandoutsFree DEF AtRest

LEMMA ScannedAtRest == CInv /\ BInv /\ NInv => NodesAllScanned
<1> SUFFICES ASSUME CInv, BInv, NInv, AtRest  PROVE ScannedNodes(file) = NodesInUse(file)
  BY DEF NodesAllScanned
<1>1. exec.pc = "idle"  BY DEF AtRest
<1>2. ASSUME NEW p \in ScannedNodes(file)  PROVE p \in NodesInUse(file)
  <2>1. p \in NodePtr  BY DEF ScannedNodes
  <2>2. InUse(file, p)  BY <1>1, ScannedInUse
  <2> QED  BY <2>1, <2>2 DEF NodesInUse, InUse
<1>3. ASSUME NEW p \in NodesInUse(file)  PROVE p \in ScannedNodes(file)
  <2>1. p \in NodePtr /\ InUse(file, p)  BY DEF NodesInUse, InUse
  <2>2. NodeBlocks(file) = {0} \cup {b \in Block : file[b].type = "NODE"}
    BY <1>1, ScannableAtRest, ScanMeetsAll
  <2>3. PoolSound(file, file[0].head["NODE"]) /\ file[0].type = "CONTROL"
    BY <1>1, PoolAtRest
  <2>4. p \in cell_ptr /\ IsNode(file, p)  BY <2>1, PtrTypes DEF InUse
  <2>5. p.block_num \in NodeBlocks(file)  BY <2>2, <2>3, <2>4, PtrOfNode
  <2>6. ASSUME NEW o \in 0 .. p.offset - 1, NeverUsed(NodeAt(file, Ptr(p.block_num, o)))
        PROVE  FALSE
    <3> DEFINE q == Ptr(p.block_num, o)
    <3>1. q.block_num = p.block_num /\ q.offset = o /\ o \in Nat /\ o < p.offset
          /\ p.offset \in Nat /\ NodesIn(p.block_num) \in Nat
      BY <2>4, LayoutAssumption DEF Ptr, cell_ptr, NodesIn
    <3>2. q \in cell_ptr  BY <2>4, <3>1 DEF cell_ptr, Ptr
    <3> HIDE DEF q
    <3>3. IsNode(file, q) /\ Precedes(q, p)
      BY <2>4, <3>1, LayoutAssumption DEF IsNode, Precedes
    <3>4. Unused(file, q)  BY <2>6, <3>3 DEF Unused, NeverUsed, Link, q
    <3>5. Unused(file, p)  BY <2>3, <2>4, <3>2, <3>3, <3>4 DEF PoolSound, FilledInOrder
    <3> QED  BY <2>1, <3>5, Apart
  <2> QED  BY <2>1, <2>5, <2>6 DEF ScannedNodes, InUse
<1> QED  BY <1>2, <1>3

LEMMA InitiallyCoherent == Init => CInv /\ RelateInv
<1> SUFFICES ASSUME Init  PROVE CInv /\ RelateInv
  OBVIOUS
<1>1. exec.pc = "idle"  BY DEF Init, Idle
<1>2. ctrl_block = file[0]  BY LayoutAssumption DEF Init, EmptyFile, Block
<1> QED  BY <1>1, <1>2, Initially
         DEF CInv, ControlCoherent, PrevOK, Removing, RetOK, UpdatingPCs, RemovingPCs

LEMMA NodesInvariant ==
  ASSUME NodeSafePoints
  PROVE  Spec /\ []FirstNodeStays => [](CInv /\ BInv /\ NInv)
<1>1. Init => CInv /\ RelateInv  BY InitiallyCoherent
<1>2. CInv /\ RelateInv /\ [Next]_vars => (CInv /\ RelateInv)'  BY InductiveCoherent
<1>3. CInv /\ RelateInv /\ BInv /\ [Next]_vars => BInv'
  BY InductiveBlocks DEF NodeSafePoints
<1>4. CInv /\ RelateInv /\ BInv /\ NInv /\ FirstNodeStays /\ [Next]_vars => NInv'
  BY InductiveNodes
<1> QED  BY <1>1, <1>2, <1>3, <1>4, InitiallyLinked, InitiallyPooled, PTL DEF Spec

(* As long as the first node of the file is not deleted, no node in use is *)
(* ever on its way to be handed out again: what create_node_cell takes,    *)
(* from the list of the freed nodes or from the rest of a block that was   *)
(* never used, is a node of nobody (create_node_cell, delete_nodes and     *)
(* allocate_new_block): for every size of the file, every command, and a   *)
(* process killed or stopped where no node is being created or deleted.    *)
THEOREM NodesOwnedOnceHolds ==
  ASSUME NodeSafePoints
  PROVE  Spec /\ []FirstNodeStays => []NodesOwnedOnce
BY NodesInvariant, OwnedAtRest, PTL

(* Nor does the scan of match, which gives up a block at the first node    *)
(* that looks never used, miss a node in use or show one that is not.      *)
THEOREM NodesAllScannedHolds ==
  ASSUME NodeSafePoints
  PROVE  Spec /\ []FirstNodeStays => []NodesAllScanned
BY NodesInvariant, ScannedAtRest, PTL
=============================================================================
