---------------------------- MODULE DataFileCells ----------------------------
(***************************************************************************)
(* Theorems about the cells of the data file: the chains of labels,        *)
(* properties and relations of its nodes, and the pools of free cells; and *)
(* that no block is ever taken for what it is not; and that no cell is     *)
(* lost.  For every size of the blocks, any commands, and a process that   *)
(* may be killed while it removes cells and stopped anywhere but in the    *)
(* allocator; for the last theorem, one that is not killed and not stopped *)
(* with a cell in its hands.                                               *)
(***************************************************************************)
EXTENDS DataFilePools, SequenceTheorems

-----------------------------------------------------------------------------
(* Whose a cell is: that of the node whose chain it is in, or of the pool, *)
(* which goes by the name of NoRoom, or Nobody's: on its way from the one  *)
(* to the other, lost, or no cell at all.                                  *)
Nobody == Ptr(-1, 1)
Owners == [cell_ptr -> cell_ptr]
OfNode(o, p) == o[p] # NoRoom /\ o[p] # Nobody
PrevOf(f, p) == CellAt(f, p).prev
LastOf(f, kind, n) == NodeAt(f, n).last[kind]
Spelled(f, kind, p) ==
  /\ IsString(f, CellAt(f, p).name)
  /\ kind = "ATTRIBUTE" => IsString(f, CellAt(f, p).value)

(* The chains of the nodes in use.  No cell is where a chain ends, each    *)
(* begins with a cell of its node; each cell of a node is one the code can *)
(* read, and leads to another of the node's, that no other leads to, or    *)
(* ends the chain.                                                         *)
ChainBegins(f, kind, o, n) == LastOf(f, kind, n) = Null \/ o[LastOf(f, kind, n)] = n
ChainGoesOn(f, kind, o, p) ==
  /\ o[PrevOf(f, p)] = o[p]
  /\ PrevOf(f, p) # LastOf(f, kind, o[p])
  /\ \A q \in cell_ptr : o[q] = o[p] /\ q # p => PrevOf(f, q) # PrevOf(f, p)
ChainsApart(f, kind, o) ==
  /\ ~ IsCell(f, kind, Null)
  /\ \A n \in cell_ptr : InUse(f, n) => ChainBegins(f, kind, o, n)
  /\ \A p \in cell_ptr : OfNode(o, p) =>
       /\ IsCell(f, kind, p) /\ InUse(f, o[p]) /\ Spelled(f, kind, p)
       /\ PrevOf(f, p) # Null => ChainGoesOn(f, kind, o, p)

(* The pool with its head at h, as that of the nodes: it can hand out h,   *)
(* and what a listed cell leads to, which no other leads to; behind a      *)
(* cell never used there are only such cells.                              *)
NeverWritten(f, o, p) == o[p] = NoRoom /\ PrevOf(f, p) = Null
Listed(f, o, p) == o[p] = NoRoom /\ PrevOf(f, p) # Null
Ready(f, o, p) ==
  \/ p = NoRoom
  \/ Listed(f, o, p)
  \/ NeverWritten(f, o, p) /\ \A q \in cell_ptr : Precedes(q, p) => ~ NeverWritten(f, o, q)
PoolGoesOn(f, h, o, p) ==
  /\ Ready(f, o, PrevOf(f, p))
  /\ PrevOf(f, p) # NoRoom =>
       /\ PrevOf(f, p) # h
       /\ \A q \in cell_ptr : Listed(f, o, q) /\ q # p => PrevOf(f, q) # PrevOf(f, p)
PoolApart(f, kind, h, o) ==
  /\ Ready(f, o, h)
  /\ \A p \in cell_ptr : o[p] = NoRoom => IsCell(f, kind, p)
  /\ \A p, q \in cell_ptr :
       NeverWritten(f, o, p) /\ IsCell(f, kind, q) /\ Precedes(p, q) => NeverWritten(f, o, q)
  /\ \A p \in cell_ptr : Listed(f, o, p) => PoolGoesOn(f, h, o, p)

LEMMA CellPlace ==
  ASSUME NEW f, NEW kind, NEW p, IsCell(f, kind, p)
  PROVE  p.block_num \in Block /\ p # NoRoom /\ p # Nobody
<1>1. -1 \notin Block  BY LayoutAssumption DEF Block
<1> QED  BY <1>1 DEF IsCell, NoRoom, Nobody, Ptr

LEMMA NodePlace ==
  ASSUME NEW f, NEW n, IsNode(f, n)
  PROVE  n.block_num \in Block /\ n # NoRoom /\ n # Nobody
<1>1. -1 \notin Block  BY LayoutAssumption DEF Block
<1> QED  BY <1>1 DEF IsNode, NoRoom, Nobody, Ptr

LEMMA OwnersTypes ==
  Nobody \in cell_ptr /\ Nobody # NoRoom /\ NoRoom # Null /\ Nobody # Null
BY LayoutAssumption DEF Nobody, NoRoom, Null, Ptr, cell_ptr

LEMMA PrevType ==
  ASSUME NEW f \in File, NEW kind \in CellKind, NEW p, IsCell(f, kind, p)
  PROVE  PrevOf(f, p) \in cell_ptr
<1>1. CellAt(f, p) \in cell  BY CellAtType
<1> QED  BY <1>1 DEF cell, PrevOf

LEMMA LastType ==
  ASSUME NEW f \in File, NEW kind \in CellKind, NEW n, IsNode(f, n)
  PROVE  LastOf(f, kind, n) \in cell_ptr
<1>1. NodeAt(f, n) \in node_cell  BY NodeAtType
<1> QED  BY <1>1 DEF node_cell, LastOf

-----------------------------------------------------------------------------
(* The writes that leave what is somebody's as it was.                     *)
CellsKept(f, g, kind, o) ==
  \A q \in cell_ptr :
    /\ IsCell(g, kind, q) <=> IsCell(f, kind, q)
    /\ o[q] # Nobody /\ IsCell(f, kind, q) =>
         PrevOf(g, q) = PrevOf(f, q) /\ (Spelled(f, kind, q) => Spelled(g, kind, q))
ChainKept(f, g, kind, n) ==
  /\ InUse(f, n) => InUse(g, n) /\ LastOf(g, kind, n) = LastOf(f, kind, n)
  /\ InUse(g, n) => InUse(f, n) \/ LastOf(g, kind, n) = Null
ChainsKept(f, g, kind) == \A n \in cell_ptr : ChainKept(f, g, kind, n)

LEMMA ApartKept ==
  ASSUME NEW f, NEW g, NEW kind, NEW o \in Owners, CellsKept(f, g, kind, o),
         ChainsKept(f, g, kind), ChainsApart(f, kind, o)
  PROVE  ChainsApart(g, kind, o)
<1>1. ASSUME NEW n \in cell_ptr, InUse(g, n)  PROVE ChainBegins(g, kind, o, n)
  BY <1>1 DEF ChainsKept, ChainKept, ChainsApart, ChainBegins
<1>2. ASSUME NEW p \in cell_ptr, OfNode(o, p)
      PROVE  /\ IsCell(g, kind, p) /\ InUse(g, o[p]) /\ Spelled(g, kind, p)
             /\ PrevOf(g, p) # Null => ChainGoesOn(g, kind, o, p)
  <2>1. /\ IsCell(f, kind, p) /\ InUse(f, o[p]) /\ Spelled(f, kind, p)
        /\ PrevOf(f, p) # Null => ChainGoesOn(f, kind, o, p)
    BY <1>2 DEF ChainsApart
  <2>2. o[p] \in cell_ptr  BY DEF Owners
  <2>3. InUse(g, o[p]) /\ LastOf(g, kind, o[p]) = LastOf(f, kind, o[p])
    BY <2>1, <2>2 DEF ChainsKept, ChainKept
  <2>4. IsCell(g, kind, p) /\ PrevOf(g, p) = PrevOf(f, p) /\ Spelled(g, kind, p)
    BY <1>2, <2>1 DEF CellsKept, OfNode
  <2>5. ASSUME NEW q \in cell_ptr, o[q] = o[p]  PROVE PrevOf(g, q) = PrevOf(f, q)
    <3>1. OfNode(o, q)  BY <1>2, <2>5 DEF OfNode
    <3>2. IsCell(f, kind, q)  BY <3>1 DEF ChainsApart
    <3> QED  BY <3>1, <3>2 DEF CellsKept, OfNode
  <2>6. PrevOf(g, p) # Null => ChainGoesOn(g, kind, o, p)
    BY <2>1, <2>3, <2>4, <2>5 DEF ChainGoesOn
  <2> QED  BY <2>3, <2>4, <2>6
<1>3. ~ IsCell(g, kind, Null)  BY ZeroTypes DEF ChainsApart, CellsKept
<1> QED  BY <1>1, <1>2, <1>3 DEF ChainsApart

LEMMA PoolApartKept ==
  ASSUME NEW f, NEW g, NEW kind, NEW h, NEW o \in Owners, CellsKept(f, g, kind, o),
         PoolApart(f, kind, h, o), f \in File, kind \in CellKind, h \in cell_ptr
  PROVE  PoolApart(g, kind, h, o)
<1>1. \A q \in cell_ptr : o[q] = NoRoom =>
        IsCell(f, kind, q) /\ IsCell(g, kind, q) /\ PrevOf(g, q) = PrevOf(f, q)
  BY OwnersTypes DEF CellsKept, PoolApart
<1>2. \A q \in cell_ptr : /\ NeverWritten(g, o, q) <=> NeverWritten(f, o, q)
                          /\ Listed(g, o, q) <=> Listed(f, o, q)
  BY <1>1 DEF NeverWritten, Listed
<1>3. \A q \in cell_ptr : Ready(f, o, q) => Ready(g, o, q)
  BY <1>2 DEF Ready
<1>4. ASSUME NEW p \in cell_ptr, Listed(g, o, p)  PROVE PoolGoesOn(g, h, o, p)
  <2>1. Listed(f, o, p)  BY <1>2, <1>4
  <2>2. PoolGoesOn(f, h, o, p)  BY <2>1 DEF PoolApart
  <2>3. PrevOf(g, p) = PrevOf(f, p) /\ IsCell(f, kind, p)  BY <1>1, <2>1 DEF Listed
  <2>4. PrevOf(f, p) \in cell_ptr  BY <2>3, PrevType
  <2>5. ASSUME NEW q \in cell_ptr, Listed(g, o, q)
        PROVE  Listed(f, o, q) /\ PrevOf(g, q) = PrevOf(f, q)
    BY <1>1, <1>2, <2>5 DEF Listed
  <2> QED  BY <1>3, <2>2, <2>3, <2>4, <2>5 DEF PoolGoesOn
<1>5. \A p, q \in cell_ptr :
        NeverWritten(g, o, p) /\ IsCell(g, kind, q) /\ Precedes(p, q) => NeverWritten(g, o, q)
  BY <1>2 DEF PoolApart, CellsKept
<1> QED  BY <1>1, <1>3, <1>4, <1>5 DEF PoolApart

-----------------------------------------------------------------------------
(* A cell changes hands.                                                   *)
Moves(o, r, c, a) ==
  /\ r \in Owners /\ r[c] = a
  /\ \A q \in cell_ptr : q # c => r[q] = o[q]

LEMMA CanMove ==
  ASSUME NEW o \in Owners, NEW c \in cell_ptr, NEW a \in cell_ptr
  PROVE  \E r \in Owners : Moves(o, r, c, a)
<1> DEFINE r == [o EXCEPT ![c] = a]
<1>1. r \in Owners /\ r[c] = a /\ \A q \in cell_ptr : q # c => r[q] = o[q]  BY DEF Owners
<1> HIDE DEF r
<1>2. Moves(o, r, c, a)  BY <1>1 DEF Moves
<1> QED  BY <1>1, <1>2

(* From one who is not the pool to another, or from one who is not a node. *)
LEMMA SamePool ==
  ASSUME NEW f, NEW kind, NEW h, NEW o, NEW r, PoolApart(f, kind, h, o),
         \A q \in cell_ptr : r[q] = NoRoom <=> o[q] = NoRoom,
         f \in File, kind \in CellKind, h \in cell_ptr
  PROVE  PoolApart(f, kind, h, r)
<1>1. \A q \in cell_ptr : /\ NeverWritten(f, r, q) <=> NeverWritten(f, o, q)
                          /\ Listed(f, r, q) <=> Listed(f, o, q)
  BY DEF NeverWritten, Listed
<1>2. \A q \in cell_ptr : Ready(f, r, q) <=> Ready(f, o, q)  BY <1>1 DEF Ready
<1>3. ASSUME NEW p \in cell_ptr, Listed(f, r, p)  PROVE PoolGoesOn(f, h, r, p)
  <2>1. Listed(f, o, p) /\ PoolGoesOn(f, h, o, p)  BY <1>1, <1>3 DEF PoolApart
  <2>2. IsCell(f, kind, p)  BY <2>1 DEF PoolApart, Listed
  <2>3. PrevOf(f, p) \in cell_ptr  BY <2>2, PrevType
  <2> QED  BY <1>1, <1>2, <2>1, <2>3 DEF PoolGoesOn
<1>4. /\ \A p \in cell_ptr : r[p] = NoRoom => IsCell(f, kind, p)
      /\ \A p, q \in cell_ptr :
           NeverWritten(f, r, p) /\ IsCell(f, kind, q) /\ Precedes(p, q) => NeverWritten(f, r, q)
  BY <1>1 DEF PoolApart
<1> QED  BY <1>2, <1>3, <1>4 DEF PoolApart

LEMMA SameChains ==
  ASSUME NEW f, NEW kind, NEW o, NEW r, ChainsApart(f, kind, o), f \in File, kind \in CellKind,
         o \in Owners, r \in Owners,
         \A q \in cell_ptr : OfNode(o, q) \/ OfNode(r, q) => r[q] = o[q]
  PROVE  ChainsApart(f, kind, r)
<1>1. ASSUME NEW n \in cell_ptr, InUse(f, n)  PROVE ChainBegins(f, kind, r, n)
  <2>1. ChainBegins(f, kind, o, n)  BY <1>1 DEF ChainsApart
  <2>2. n # NoRoom /\ n # Nobody  BY <1>1, NodePlace DEF InUse
  <2>3. LastOf(f, kind, n) \in cell_ptr  BY <1>1, LastType DEF InUse
  <2> QED  BY <2>1, <2>2, <2>3 DEF ChainBegins, OfNode
<1>2. ASSUME NEW p \in cell_ptr, OfNode(r, p)
      PROVE  /\ IsCell(f, kind, p) /\ InUse(f, r[p]) /\ Spelled(f, kind, p)
             /\ PrevOf(f, p) # Null => ChainGoesOn(f, kind, r, p)
  <2>1. r[p] = o[p] /\ OfNode(o, p)  BY <1>2 DEF OfNode
  <2>2. /\ IsCell(f, kind, p) /\ InUse(f, o[p]) /\ Spelled(f, kind, p)
        /\ PrevOf(f, p) # Null => ChainGoesOn(f, kind, o, p)
    BY <2>1 DEF ChainsApart
  <2>3. PrevOf(f, p) \in cell_ptr  BY <2>2, PrevType
  <2>4. ASSUME PrevOf(f, p) # Null  PROVE ChainGoesOn(f, kind, r, p)
    <3>1. ChainGoesOn(f, kind, o, p)  BY <2>2, <2>4
    <3>2. r[PrevOf(f, p)] = r[p]  BY <2>1, <2>3, <3>1 DEF ChainGoesOn, OfNode
    <3>3. \A q \in cell_ptr : r[q] = r[p] => o[q] = o[p]
      BY <1>2, <2>1 DEF OfNode
    <3> QED  BY <2>1, <3>1, <3>2, <3>3 DEF ChainGoesOn
  <2> QED  BY <2>1, <2>2, <2>4
<1> QED  BY <1>1, <1>2 DEF ChainsApart

(* create_X_cell takes the cell at the head of the pool.                   *)
LEMMA TakeCell ==
  ASSUME NEW f \in File, NEW kind \in CellKind, NEW h \in cell_ptr, NEW o \in Owners, NEW r,
         PoolApart(f, kind, h, o), IsCell(f, kind, h), Moves(o, r, h, Nobody)
  PROVE  PoolApart(f, kind, HeadAfter(h, PrevOf(f, h), CellsIn(kind)), r) /\ o[h] = NoRoom
<1> DEFINE n == HeadAfter(h, PrevOf(f, h), CellsIn(kind))
<1>1. h # NoRoom  BY CellPlace
<1>2. Listed(f, o, h) \/ NeverWritten(f, o, h)
  BY <1>1 DEF PoolApart, Ready
<1>3. o[h] = NoRoom /\ r[h] # NoRoom
  BY <1>2, OwnersTypes DEF Listed, NeverWritten, Moves
<1>4. \A q \in cell_ptr : /\ NeverWritten(f, r, q) <=> NeverWritten(f, o, q) /\ q # h
                          /\ Listed(f, r, q) <=> Listed(f, o, q) /\ q # h
  BY <1>3 DEF NeverWritten, Listed, Moves
<1>5. \A q \in cell_ptr : Ready(f, o, q) /\ q # h => Ready(f, r, q)
  BY <1>4 DEF Ready
<1>6. \A p \in cell_ptr : r[p] = NoRoom => IsCell(f, kind, p)
  BY <1>3 DEF PoolApart, Moves
<1>7. ASSUME NEW p \in cell_ptr, Listed(f, r, p)
      PROVE  /\ PrevOf(f, p) \in cell_ptr /\ Ready(f, o, PrevOf(f, p)) /\ Ready(f, r, PrevOf(f, p))
             /\ PrevOf(f, p) # NoRoom =>
                  /\ PrevOf(f, p) # h
                  /\ \A q \in cell_ptr : Listed(f, o, q) /\ q # p => PrevOf(f, q) # PrevOf(f, p)
  <2>1. Listed(f, o, p)  BY <1>4, <1>7
  <2>2. PoolGoesOn(f, h, o, p)  BY <2>1 DEF PoolApart
  <2>3. IsCell(f, kind, p)  BY <2>1 DEF PoolApart, Listed
  <2>4. PrevOf(f, p) \in cell_ptr  BY <2>3, PrevType
  <2>5. Ready(f, r, PrevOf(f, p))
    BY <1>1, <1>5, <2>2, <2>4 DEF PoolGoesOn, Ready
  <2> QED  BY <2>2, <2>4, <2>5 DEF PoolGoesOn
<1>8. CASE Listed(f, o, h)
  <2>1. n = PrevOf(f, h)  BY <1>8 DEF HeadAfter, Listed
  <2>2. PoolGoesOn(f, h, o, h)  BY <1>8 DEF PoolApart
  <2>3. n \in cell_ptr /\ Ready(f, o, n)  BY <2>1, <2>2, PrevType DEF PoolGoesOn
  <2>4. Ready(f, r, n)  BY <1>1, <1>5, <2>1, <2>2, <2>3 DEF PoolGoesOn, Ready
  <2>5. \A p \in cell_ptr : Listed(f, r, p) /\ PrevOf(f, p) # NoRoom => PrevOf(f, p) # n
    BY <1>4, <1>7, <1>8, <2>1
  <2>6. ~ NeverWritten(f, o, h)  BY <1>8 DEF Listed, NeverWritten
  <2>7. \A p, q \in cell_ptr :
          NeverWritten(f, r, p) /\ IsCell(f, kind, q) /\ Precedes(p, q) => NeverWritten(f, r, q)
    BY <1>4, <2>6 DEF PoolApart
  <2>8. \A p \in cell_ptr : Listed(f, r, p) => PoolGoesOn(f, n, r, p)
    BY <1>4, <1>7, <2>5 DEF PoolGoesOn
  <2> HIDE DEF n
  <2>9. PoolApart(f, kind, n, r)  BY <1>6, <2>4, <2>7, <2>8 DEF PoolApart
  <2> QED  BY <1>3, <2>9 DEF n
<1>9. CASE NeverWritten(f, o, h)
  <2>1. \A q \in cell_ptr : Precedes(q, h) => ~ NeverWritten(f, o, q)
    BY <1>1, <1>9 DEF PoolApart, Ready, Listed, NeverWritten
  <2>2. \A p, q \in cell_ptr :
          NeverWritten(f, r, p) /\ IsCell(f, kind, q) /\ Precedes(p, q) => NeverWritten(f, r, q)
    BY <1>4, <2>1 DEF PoolApart
  <2>3. \/ n = NoRoom
        \/ n = Ptr(h.block_num, h.offset + 1) /\ h.offset + 1 <= CellsIn(kind) - 1
    <3>1. h.offset \in Nat /\ CellsIn(kind) \in Nat
      BY LayoutAssumption DEF cell_ptr, CellsIn
    <3> QED  BY <1>9, <3>1 DEF HeadAfter, NeverWritten
  <2>4. n # NoRoom =>
          /\ n \in cell_ptr /\ NeverWritten(f, r, n) /\ Precedes(h, n)
          /\ \A q \in cell_ptr : Precedes(q, n) => ~ NeverWritten(f, r, q)
    <3> SUFFICES ASSUME n # NoRoom
                 PROVE  /\ n \in cell_ptr /\ NeverWritten(f, r, n) /\ Precedes(h, n)
                        /\ \A q \in cell_ptr : Precedes(q, n) => ~ NeverWritten(f, r, q)
      OBVIOUS
    <3>1. /\ n = Ptr(h.block_num, h.offset + 1) /\ h.offset + 1 <= CellsIn(kind) - 1
          /\ h.offset \in Nat /\ CellsIn(kind) \in Nat
          /\ h.block_num \in -1 .. MAX_BLOCKS - 1
      BY <2>3, LayoutAssumption DEF cell_ptr, CellsIn
    <3> HIDE DEF n
    <3>2. n.block_num = h.block_num /\ n.offset = h.offset + 1 /\ n \in cell_ptr
      BY <3>1 DEF Ptr, cell_ptr
    <3>3. IsCell(f, kind, n)  BY <3>1, <3>2 DEF IsCell
    <3>4. Precedes(h, n) /\ n # h  BY <3>1, <3>2 DEF Precedes
    <3>5. NeverWritten(f, o, n)  BY <1>9, <3>2, <3>3, <3>4 DEF PoolApart
    <3>6. ASSUME NEW q \in cell_ptr, Precedes(q, n)  PROVE q = h \/ Precedes(q, h)
      <4>1. q.block_num = h.block_num /\ q.offset <= h.offset /\ q.offset \in Nat
        BY <3>1, <3>2, <3>6 DEF Precedes, cell_ptr
      <4>2. CASE q.offset < h.offset  BY <4>1, <4>2 DEF Precedes
      <4>3. CASE q.offset = h.offset  BY <4>1, <4>3 DEF cell_ptr
      <4> QED  BY <3>1, <4>1, <4>2, <4>3
    <3> QED  BY <1>4, <2>1, <3>2, <3>4, <3>5, <3>6
  <2>5. Ready(f, r, n)  BY <2>4 DEF Ready
  <2>6. ASSUME NEW p \in cell_ptr, Listed(f, r, p), PrevOf(f, p) # NoRoom
        PROVE  PrevOf(f, p) # n
    <3> SUFFICES ASSUME PrevOf(f, p) = n  PROVE FALSE
      OBVIOUS
    <3>1. Ready(f, o, n) /\ n # NoRoom  BY <1>7, <2>6
    <3>2. NeverWritten(f, o, n) /\ Precedes(h, n)  BY <1>4, <2>4, <3>1
    <3> QED  BY <1>9, <3>1, <3>2 DEF Ready, Listed, NeverWritten
  <2>7. \A p \in cell_ptr : Listed(f, r, p) => PoolGoesOn(f, n, r, p)
    BY <1>4, <1>7, <2>6 DEF PoolGoesOn
  <2> HIDE DEF n
  <2>8. PoolApart(f, kind, n, r)  BY <1>6, <2>2, <2>5, <2>7 DEF PoolApart
  <2> QED  BY <1>3, <2>8 DEF n
<1> QED  BY <1>2, <1>8, <1>9

(* free_cell puts a cell that is nobody's in front of the pool.            *)
LEMMA GiveCell ==
  ASSUME NEW f \in File, NEW kind \in CellKind, NEW h \in cell_ptr, NEW o \in Owners, NEW r,
         NEW c \in cell_ptr, PoolApart(f, kind, h, o), o[c] = Nobody, IsCell(f, kind, c),
         PrevOf(f, c) = h, h # Null, Moves(o, r, c, NoRoom)
  PROVE  PoolApart(f, kind, c, r)
<1>1. \A q \in cell_ptr : /\ NeverWritten(f, r, q) <=> NeverWritten(f, o, q)
                          /\ Listed(f, r, q) <=> Listed(f, o, q) \/ q = c
  BY OwnersTypes DEF NeverWritten, Listed, Moves
<1>2. \A q \in cell_ptr : Ready(f, o, q) => Ready(f, r, q)  BY <1>1 DEF Ready
<1>3. ~ Ready(f, o, c)
  BY CellPlace, OwnersTypes DEF Ready, Listed, NeverWritten
<1>4. Listed(f, r, c) /\ Ready(f, r, c) /\ Ready(f, o, h) /\ h # c
  BY <1>1, <1>3 DEF PoolApart, Ready
<1>5. ASSUME NEW p \in cell_ptr, Listed(f, o, p)
      PROVE  /\ PrevOf(f, p) \in cell_ptr /\ Ready(f, o, PrevOf(f, p)) /\ PrevOf(f, p) # c
             /\ PrevOf(f, p) # NoRoom => PrevOf(f, p) # h
             /\ PoolGoesOn(f, h, o, p)
  <2>1. PoolGoesOn(f, h, o, p)  BY <1>5 DEF PoolApart
  <2>2. IsCell(f, kind, p)  BY <1>5 DEF PoolApart, Listed
  <2> QED  BY <1>3, <2>1, <2>2, PrevType DEF PoolGoesOn
<1>6. ASSUME NEW p \in cell_ptr, Listed(f, r, p), p # c  PROVE PoolGoesOn(f, c, r, p)
  <2>1. Listed(f, o, p)  BY <1>1, <1>6
  <2>2. ASSUME PrevOf(f, p) # NoRoom, NEW q \in cell_ptr, Listed(f, r, q), q # p
        PROVE  PrevOf(f, q) # PrevOf(f, p)
    <3>1. CASE q = c  BY <1>5, <2>1, <2>2, <3>1
    <3>2. CASE q # c
      <4>1. Listed(f, o, q)  BY <1>1, <2>2, <3>2
      <4> QED  BY <1>5, <2>1, <2>2, <4>1 DEF PoolGoesOn
    <3> QED  BY <3>1, <3>2
  <2> QED  BY <1>2, <1>5, <2>1, <2>2 DEF PoolGoesOn
<1>7. PoolGoesOn(f, c, r, c)
  <2>1. Ready(f, r, h)  BY <1>2, <1>4
  <2>2. ASSUME h # NoRoom, NEW q \in cell_ptr, Listed(f, r, q), q # c
        PROVE  PrevOf(f, q) # h
    BY <1>1, <1>5, <2>2
  <2> QED  BY <1>4, <2>1, <2>2 DEF PoolGoesOn
<1>8. \A p \in cell_ptr : r[p] = NoRoom => IsCell(f, kind, p)
  BY DEF PoolApart, Moves
<1>9. \A p, q \in cell_ptr :
        NeverWritten(f, r, p) /\ IsCell(f, kind, q) /\ Precedes(p, q) => NeverWritten(f, r, q)
  BY <1>1 DEF PoolApart
<1> QED  BY <1>4, <1>6, <1>7, <1>8, <1>9 DEF PoolApart

-----------------------------------------------------------------------------
(* Writes that leave the cells alone, and chains that grow and shrink.     *)
SameCells(f, g, kind) ==
  \A q \in cell_ptr :
    /\ IsCell(g, kind, q) <=> IsCell(f, kind, q)
    /\ IsCell(f, kind, q) =>
         PrevOf(g, q) = PrevOf(f, q) /\ (Spelled(f, kind, q) => Spelled(g, kind, q))

LEMMA SameCellsKept ==
  ASSUME NEW f, NEW g, NEW kind, NEW o, SameCells(f, g, kind)
  PROVE  CellsKept(f, g, kind, o)
BY DEF SameCells, CellsKept

(* update_node_labels and the like: the new cell becomes the node's first. *)
LEMMA LinkCell ==
  ASSUME NEW f \in File, NEW g, NEW kind \in CellKind, NEW o \in Owners, NEW r,
         NEW n \in cell_ptr, NEW c \in cell_ptr, ChainsApart(f, kind, o), SameCells(f, g, kind),
         \A m \in cell_ptr : m # n => ChainKept(f, g, kind, m), InUse(f, n), InUse(g, n),
         o[c] = Nobody, IsCell(f, kind, c), Spelled(f, kind, c),
         PrevOf(f, c) = LastOf(f, kind, n), LastOf(g, kind, n) = c, Moves(o, r, c, n)
  PROVE  ChainsApart(g, kind, r)
<1>1. n # Nobody /\ n # NoRoom  BY NodePlace DEF InUse
<1>2. \A q \in cell_ptr : OfNode(o, q) => q # c /\ r[q] = o[q]  BY DEF OfNode, Moves
<1>3. r[c] = n /\ \A q \in cell_ptr : q # c => r[q] = o[q]  BY DEF Moves
<1>4. ASSUME NEW m \in cell_ptr, InUse(g, m)  PROVE ChainBegins(g, kind, r, m)
  <2>1. CASE m = n  BY <1>3, <2>1 DEF ChainBegins
  <2>2. CASE m # n
    <3>1. m # Nobody /\ m # NoRoom  BY <1>4, NodePlace DEF InUse
    <3>2. ChainKept(f, g, kind, m)  BY <2>2
    <3>3. CASE LastOf(g, kind, m) = Null  BY <3>3 DEF ChainBegins
    <3>4. CASE LastOf(g, kind, m) # Null
      <4>1. InUse(f, m) /\ LastOf(g, kind, m) = LastOf(f, kind, m)
        BY <1>4, <3>2, <3>4 DEF ChainKept
      <4>2. LastOf(f, kind, m) \in cell_ptr  BY <4>1, LastType DEF InUse
      <4>3. o[LastOf(f, kind, m)] = m  BY <3>4, <4>1 DEF ChainsApart, ChainBegins
      <4> QED  BY <1>3, <3>1, <4>1, <4>2, <4>3 DEF ChainBegins
    <3> QED  BY <3>3, <3>4
  <2> QED  BY <2>1, <2>2
<1>5. /\ IsCell(g, kind, c) /\ InUse(g, r[c]) /\ Spelled(g, kind, c) /\ PrevOf(g, c) = PrevOf(f, c)
  BY <1>3 DEF SameCells
<1>6. ASSUME NEW q \in cell_ptr, OfNode(o, q)
      PROVE  /\ IsCell(f, kind, q) /\ IsCell(g, kind, q) /\ InUse(f, o[q]) /\ Spelled(g, kind, q)
             /\ PrevOf(g, q) = PrevOf(f, q) /\ PrevOf(f, q) \in cell_ptr
             /\ PrevOf(f, q) # Null => ChainGoesOn(f, kind, o, q)
  <2>1. /\ IsCell(f, kind, q) /\ InUse(f, o[q]) /\ Spelled(f, kind, q)
        /\ PrevOf(f, q) # Null => ChainGoesOn(f, kind, o, q)
    BY <1>6 DEF ChainsApart
  <2> QED  BY <2>1, PrevType DEF SameCells
<1>7. ASSUME PrevOf(g, c) # Null  PROVE ChainGoesOn(g, kind, r, c)
  <2> DEFINE l == LastOf(f, kind, n)
  <2>1. l \in cell_ptr /\ PrevOf(g, c) = l /\ l # Null  BY <1>5, <1>7, LastType DEF InUse
  <2>2. o[l] = n  BY <2>1 DEF ChainsApart, ChainBegins
  <2>3. l # c /\ r[l] = n  BY <1>1, <1>3, <2>1, <2>2
  <2>4. ASSUME NEW q \in cell_ptr, r[q] = n, q # c  PROVE PrevOf(g, q) # l
    <3>1. o[q] = n /\ OfNode(o, q)  BY <1>1, <1>3, <2>4 DEF OfNode
    <3>2. PrevOf(g, q) = PrevOf(f, q) /\ (PrevOf(f, q) # Null => ChainGoesOn(f, kind, o, q))
      BY <1>6, <3>1
    <3> QED  BY <2>1, <3>1, <3>2 DEF ChainGoesOn
  <2> HIDE DEF l
  <2> QED  BY <1>3, <2>1, <2>3, <2>4 DEF ChainGoesOn
<1>8. ASSUME NEW p \in cell_ptr, OfNode(r, p), p # c
      PROVE  /\ IsCell(g, kind, p) /\ InUse(g, r[p]) /\ Spelled(g, kind, p)
             /\ PrevOf(g, p) # Null => ChainGoesOn(g, kind, r, p)
  <2>1. r[p] = o[p] /\ OfNode(o, p)  BY <1>3, <1>8 DEF OfNode
  <2>2. /\ IsCell(f, kind, p) /\ IsCell(g, kind, p) /\ InUse(f, o[p]) /\ Spelled(g, kind, p)
        /\ PrevOf(g, p) = PrevOf(f, p) /\ PrevOf(f, p) \in cell_ptr
        /\ PrevOf(f, p) # Null => ChainGoesOn(f, kind, o, p)
    BY <1>6, <2>1
  <2>3. o[p] \in cell_ptr  BY DEF Owners
  <2>4. InUse(g, o[p])  BY <2>2, <2>3 DEF ChainKept
  <2>5. ASSUME PrevOf(f, p) # Null  PROVE ChainGoesOn(g, kind, r, p)
    <3>1. ChainGoesOn(f, kind, o, p)  BY <2>2, <2>5
    <3>2. OfNode(o, PrevOf(f, p))  BY <2>1, <3>1 DEF ChainGoesOn, OfNode
    <3>3. r[PrevOf(f, p)] = r[p] /\ PrevOf(f, p) # c
      BY <1>2, <2>1, <2>2, <3>1, <3>2 DEF ChainGoesOn
    <3>4. PrevOf(f, p) # LastOf(g, kind, o[p])
      BY <2>2, <2>3, <3>1, <3>3 DEF ChainGoesOn, ChainKept
    <3>5. ASSUME NEW q \in cell_ptr, r[q] = r[p], q # p  PROVE PrevOf(g, q) # PrevOf(f, p)
      <4>1. CASE q = c  BY <1>3, <1>5, <2>1, <3>1, <3>5, <4>1 DEF ChainGoesOn
      <4>2. CASE q # c
        <5>1. o[q] = o[p] /\ OfNode(o, q)  BY <1>3, <2>1, <3>5, <4>2 DEF OfNode
        <5>2. PrevOf(g, q) = PrevOf(f, q)  BY <1>6, <5>1
        <5> QED  BY <3>1, <3>5, <5>1, <5>2 DEF ChainGoesOn
      <4> QED  BY <4>1, <4>2
    <3> QED  BY <2>1, <2>2, <3>3, <3>4, <3>5 DEF ChainGoesOn
  <2> QED  BY <2>1, <2>2, <2>4, <2>5
<1>9. ~ IsCell(g, kind, Null)  BY ZeroTypes DEF ChainsApart, SameCells
<1> QED  BY <1>4, <1>5, <1>7, <1>8, <1>9 DEF ChainsApart

(* remove_labels and the like: whatever led to the cell leads past it.     *)
Past(f, c, p) == IF p = c THEN PrevOf(f, c) ELSE p

LEMMA UnlinkCell ==
  ASSUME NEW f \in File, NEW g, NEW kind \in CellKind, NEW o \in Owners, NEW r,
         NEW c \in cell_ptr, c # Null, ChainsApart(f, kind, o), OfNode(o, c), Moves(o, r, c, Nobody),
         IsCell(g, kind, Null) => IsCell(f, kind, Null),
         \A m \in cell_ptr : InUse(f, m) <=> InUse(g, m),
         \A m \in cell_ptr : InUse(f, m) => LastOf(g, kind, m) = Past(f, c, LastOf(f, kind, m)),
         \A q \in cell_ptr : OfNode(o, q) /\ q # c =>
           /\ IsCell(g, kind, q) /\ Spelled(g, kind, q)
           /\ PrevOf(g, q) = Past(f, c, PrevOf(f, q))
  PROVE  ChainsApart(g, kind, r)
<1> DEFINE n == o[c]
           pc == PrevOf(f, c)
<1>1. n # Nobody /\ n # NoRoom /\ n \in cell_ptr  BY DEF OfNode, Owners
<1>2. r[c] = Nobody /\ \A q \in cell_ptr : q # c => r[q] = o[q]  BY DEF Moves
<1>3. ASSUME NEW q \in cell_ptr, OfNode(o, q)
      PROVE  /\ InUse(f, o[q]) /\ PrevOf(f, q) \in cell_ptr
             /\ PrevOf(f, q) # Null => ChainGoesOn(f, kind, o, q)
  BY <1>3, PrevType DEF ChainsApart
<1>4. pc \in cell_ptr /\ (pc # Null => ChainGoesOn(f, kind, o, c))  BY <1>3
<1> HIDE DEF n, pc
<1>5. ASSUME NEW m \in cell_ptr, InUse(g, m)  PROVE ChainBegins(g, kind, r, m)
  <2> DEFINE l == LastOf(f, kind, m)
  <2>1. InUse(f, m)  BY <1>5
  <2>2. l \in cell_ptr  BY <2>1, LastType DEF InUse
  <2>3. l = Null \/ o[l] = m  BY <2>1 DEF ChainsApart, ChainBegins
  <2>4. LastOf(g, kind, m) = Past(f, c, l)  BY <2>1
  <2>5. m # Nobody /\ m # NoRoom  BY <2>1, NodePlace DEF InUse
  <2>6. CASE l = c
    <3>1. m = n /\ LastOf(g, kind, m) = pc  BY <2>3, <2>4, <2>6 DEF Past, n, pc
    <3>2. pc # Null => pc # c /\ o[pc] = n  BY <1>4, <2>6, <3>1 DEF ChainGoesOn, n, pc
    <3> QED  BY <1>2, <1>4, <3>1, <3>2 DEF ChainBegins
  <2>7. CASE l # c
    <3>1. LastOf(g, kind, m) = l  BY <2>4, <2>7 DEF Past
    <3> HIDE DEF l
    <3> QED  BY <1>2, <2>2, <2>3, <2>7, <3>1 DEF ChainBegins
  <2> QED  BY <2>6, <2>7
<1>6. ASSUME NEW p \in cell_ptr, OfNode(r, p)
      PROVE  /\ IsCell(g, kind, p) /\ InUse(g, r[p]) /\ Spelled(g, kind, p)
             /\ PrevOf(g, p) # Null => ChainGoesOn(g, kind, r, p)
  <2>1. p # c /\ r[p] = o[p] /\ OfNode(o, p)  BY <1>2, <1>6 DEF OfNode
  <2>2. o[p] \in cell_ptr  BY DEF Owners
  <2>3. /\ InUse(f, o[p]) /\ PrevOf(f, p) \in cell_ptr
        /\ PrevOf(f, p) # Null => ChainGoesOn(f, kind, o, p)
    BY <1>3, <2>1
  <2>4. /\ IsCell(g, kind, p) /\ Spelled(g, kind, p) /\ InUse(g, o[p])
        /\ PrevOf(g, p) = Past(f, c, PrevOf(f, p))
        /\ LastOf(g, kind, o[p]) = Past(f, c, LastOf(f, kind, o[p]))
    BY <2>1, <2>2, <2>3
  <2>5. ASSUME NEW q \in cell_ptr, r[q] = r[p]
        PROVE  q # c /\ o[q] = o[p] /\ OfNode(o, q) /\ PrevOf(g, q) = Past(f, c, PrevOf(f, q))
    <3>1. q # c /\ o[q] = o[p] /\ OfNode(o, q)  BY <1>2, <2>1, <2>5 DEF OfNode
    <3> QED  BY <3>1
  <2>6. CASE PrevOf(f, p) = c
    <3>1. ChainGoesOn(f, kind, o, p) /\ o[p] = n  BY <2>3, <2>6 DEF ChainGoesOn, n
    <3>2. PrevOf(g, p) = pc  BY <2>4, <2>6 DEF Past, pc
    <3>3. LastOf(g, kind, n) = LastOf(f, kind, n)
      BY <2>4, <2>6, <3>1 DEF ChainGoesOn, Past
    <3>4. ASSUME pc # Null  PROVE ChainGoesOn(g, kind, r, p)
      <4>1. /\ o[pc] = n /\ pc # LastOf(f, kind, n)
            /\ \A q \in cell_ptr : o[q] = n /\ q # c => PrevOf(f, q) # pc
        BY <1>4, <3>4 DEF ChainGoesOn, n, pc
      <4>2. pc # c  BY <2>1, <2>6, <3>1, <4>1
      <4>3. r[pc] = n  BY <1>2, <1>4, <4>1, <4>2
      <4>4. ASSUME NEW q \in cell_ptr, r[q] = r[p], q # p  PROVE PrevOf(g, q) # pc
        <5>1. q # c /\ o[q] = n /\ PrevOf(g, q) = Past(f, c, PrevOf(f, q))
          BY <2>5, <3>1, <4>4
        <5>2. PrevOf(f, q) # c  BY <2>6, <3>1, <4>4, <5>1 DEF ChainGoesOn
        <5> QED  BY <4>1, <5>1, <5>2 DEF Past
      <4> QED  BY <2>1, <3>1, <3>2, <3>3, <4>1, <4>3, <4>4 DEF ChainGoesOn
    <3> QED  BY <2>1, <2>4, <3>2, <3>4
  <2>7. CASE PrevOf(f, p) # c
    <3>1. PrevOf(g, p) = PrevOf(f, p)  BY <2>4, <2>7 DEF Past
    <3>2. ASSUME PrevOf(f, p) # Null  PROVE ChainGoesOn(g, kind, r, p)
      <4>1. ChainGoesOn(f, kind, o, p)  BY <2>3, <3>2
      <4>2. r[PrevOf(f, p)] = r[p]  BY <1>2, <2>1, <2>3, <2>7, <4>1 DEF ChainGoesOn
      <4>3. o[p] = n => PrevOf(f, p) # pc
        BY <2>1, <4>1 DEF ChainGoesOn, n, pc
      <4>4. PrevOf(f, p) # LastOf(g, kind, o[p])
        <5>1. CASE LastOf(f, kind, o[p]) = c
          <6>1. o[p] = n  BY <2>2, <2>3, <5>1 DEF ChainsApart, ChainBegins, n
          <6> QED  BY <2>4, <4>3, <5>1, <6>1 DEF Past, pc
        <5>2. CASE LastOf(f, kind, o[p]) # c  BY <2>4, <4>1, <5>2 DEF Past, ChainGoesOn
        <5> QED  BY <5>1, <5>2
      <4>5. ASSUME NEW q \in cell_ptr, r[q] = r[p], q # p  PROVE PrevOf(g, q) # PrevOf(f, p)
        <5>1. q # c /\ o[q] = o[p] /\ OfNode(o, q) /\ PrevOf(g, q) = Past(f, c, PrevOf(f, q))
          BY <2>5, <4>5
        <5>2. CASE PrevOf(f, q) = c
          <6>1. o[p] = n  BY <1>3, <5>1, <5>2 DEF ChainGoesOn, n
          <6> QED  BY <4>3, <5>1, <5>2, <6>1 DEF Past, pc
        <5>3. CASE PrevOf(f, q) # c  BY <4>1, <4>5, <5>1, <5>3 DEF Past, ChainGoesOn
        <5> QED  BY <5>2, <5>3
      <4> QED  BY <2>1, <3>1, <4>1, <4>2, <4>4, <4>5 DEF ChainGoesOn
    <3> QED  BY <2>1, <2>4, <3>1, <3>2
  <2> QED  BY <2>6, <2>7
<1> QED  BY <1>5, <1>6 DEF ChainsApart

(* free_node: what the node still had is nobody's from then on.            *)
Disown(o, r, n) ==
  /\ r \in Owners
  /\ \A q \in cell_ptr : r[q] = IF o[q] = n THEN Nobody ELSE o[q]

LEMMA DropNode ==
  ASSUME NEW f \in File, NEW g, NEW kind \in CellKind, NEW o \in Owners, NEW r,
         NEW n \in cell_ptr, ChainsApart(f, kind, o), SameCells(f, g, kind), InUse(f, n),
         ~ InUse(g, n), \A m \in cell_ptr : m # n => ChainKept(f, g, kind, m), Disown(o, r, n)
  PROVE  ChainsApart(g, kind, r)
<1>1. n # Nobody /\ n # NoRoom  BY NodePlace DEF InUse
<1>2. \A q \in cell_ptr : r[q] = IF o[q] = n THEN Nobody ELSE o[q]  BY DEF Disown
<1>3. ASSUME NEW m \in cell_ptr, InUse(g, m)  PROVE ChainBegins(g, kind, r, m)
  <2>1. ChainKept(f, g, kind, m) /\ m # n  BY <1>3
  <2>2. CASE LastOf(g, kind, m) = Null  BY <2>2 DEF ChainBegins
  <2>3. CASE LastOf(g, kind, m) # Null
    <3>1. InUse(f, m) /\ LastOf(g, kind, m) = LastOf(f, kind, m)
      BY <1>3, <2>1, <2>3 DEF ChainKept
    <3>2. LastOf(f, kind, m) \in cell_ptr  BY <3>1, LastType DEF InUse
    <3>3. o[LastOf(f, kind, m)] = m  BY <2>3, <3>1 DEF ChainsApart, ChainBegins
    <3> QED  BY <1>2, <2>1, <3>1, <3>2, <3>3 DEF ChainBegins
  <2> QED  BY <2>2, <2>3
<1>4. ASSUME NEW p \in cell_ptr, OfNode(r, p)
      PROVE  /\ IsCell(g, kind, p) /\ InUse(g, r[p]) /\ Spelled(g, kind, p)
             /\ PrevOf(g, p) # Null => ChainGoesOn(g, kind, r, p)
  <2>1. r[p] = o[p] /\ OfNode(o, p) /\ o[p] # n  BY <1>2, <1>4 DEF OfNode
  <2>2. /\ IsCell(f, kind, p) /\ InUse(f, o[p]) /\ Spelled(f, kind, p)
        /\ PrevOf(f, p) # Null => ChainGoesOn(f, kind, o, p)
    BY <2>1 DEF ChainsApart
  <2>3. PrevOf(f, p) \in cell_ptr  BY <2>2, PrevType
  <2>4. IsCell(g, kind, p) /\ Spelled(g, kind, p) /\ PrevOf(g, p) = PrevOf(f, p)
    BY <2>2 DEF SameCells
  <2>5. o[p] \in cell_ptr  BY DEF Owners
  <2>6. InUse(g, o[p]) /\ LastOf(g, kind, o[p]) = LastOf(f, kind, o[p])
    BY <2>1, <2>2, <2>5 DEF ChainKept
  <2>7. ASSUME PrevOf(f, p) # Null  PROVE ChainGoesOn(g, kind, r, p)
    <3>1. ChainGoesOn(f, kind, o, p)  BY <2>2, <2>7
    <3>2. r[PrevOf(f, p)] = r[p]  BY <1>2, <2>1, <2>3, <3>1 DEF ChainGoesOn
    <3>3. ASSUME NEW q \in cell_ptr, r[q] = r[p]
          PROVE  o[q] = o[p] /\ PrevOf(g, q) = PrevOf(f, q)
      <4>1. o[q] = o[p]  BY <1>2, <2>1, <3>3 DEF OfNode
      <4>2. IsCell(f, kind, q)  BY <2>1, <4>1 DEF ChainsApart, OfNode
      <4> QED  BY <4>1, <4>2 DEF SameCells
    <3> QED  BY <2>1, <2>4, <2>6, <3>1, <3>2, <3>3 DEF ChainGoesOn
  <2> QED  BY <2>1, <2>4, <2>6, <2>7
<1>5. ~ IsCell(g, kind, Null)  BY ZeroTypes DEF ChainsApart, SameCells
<1> QED  BY <1>3, <1>4, <1>5 DEF ChainsApart

(* allocate_new_block: the pool gets the cells of the new block.           *)
LEMMA NewCells ==
  ASSUME NEW f \in File, NEW g, NEW kind \in CellKind, NEW b \in Block, b # 0, f[b].type = "ABSENT",
         g[b] = ZeroBlock(kind), \A a \in Block : a # b => g[a] = f[a],
         NEW o \in Owners, ChainsApart(f, kind, o), PoolApart(f, kind, NoRoom, o)
  PROVE  \E r \in Owners : ChainsApart(g, kind, r) /\ PoolApart(g, kind, Ptr(b, 0), r)
<1> DEFINE Mine(q) == q.block_num = b /\ IsCell(g, kind, q)
           r == [q \in cell_ptr |-> IF Mine(q) THEN NoRoom ELSE o[q]]
           h == Ptr(b, 0)
<1>1. kind \notin {"ABSENT", "CONTROL", "NODE", "STRING"}  BY DEF CellKind
<1>2. g[b] = [type |-> kind, cells |-> [i \in 0 .. CellsIn(kind) - 1 |-> ZeroCell]]
  BY <1>1 DEF ZeroBlock
<1>3. CellsIn(kind) \in Nat \ {0}  BY LayoutAssumption DEF CellsIn
<1>4. h \in cell_ptr /\ h.block_num = b /\ h.offset = 0  BY DEF Ptr, cell_ptr, Block
<1>5. Mine(h)  BY <1>2, <1>3, <1>4 DEF IsCell
<1>6. ASSUME NEW q \in cell_ptr, Mine(q)  PROVE PrevOf(g, q) = Null
  <2>1. q.offset \in 0 .. CellsIn(kind) - 1 /\ q.block_num = b  BY <1>6 DEF IsCell
  <2>2. g[b].cells[q.offset] = ZeroCell  BY <1>2, <2>1
  <2> QED  BY <2>1, <2>2 DEF PrevOf, CellAt, ZeroCell
<1>7. r \in Owners  BY ZeroTypes DEF Owners
<1>8. \A q \in cell_ptr : r[q] = IF Mine(q) THEN NoRoom ELSE o[q]  OBVIOUS
<1>9. \A q : IsCell(f, kind, q) => q.block_num # b  BY <1>1 DEF IsCell
<1>10. \A q : IsCell(g, kind, q) <=> Mine(q) \/ IsCell(f, kind, q)
  BY <1>9 DEF IsCell
<1>11. \A q : IsCell(f, kind, q) => PrevOf(g, q) = PrevOf(f, q) /\ CellAt(g, q) = CellAt(f, q)
  BY <1>9 DEF IsCell, PrevOf, CellAt
<1>12. \A q : IsString(f, q) => IsString(g, q)  BY DEF IsString
<1>13. \A q : IsCell(f, kind, q) => (Spelled(f, kind, q) => Spelled(g, kind, q))
  BY <1>11, <1>12 DEF Spelled
<1>14. \A n : /\ InUse(g, n) <=> InUse(f, n)
              /\ InUse(f, n) => LastOf(g, kind, n) = LastOf(f, kind, n)
  BY <1>1, <1>2 DEF InUse, IsNode, NodeAt, LastOf
<1>15. \A q \in cell_ptr : OfNode(o, q) \/ o[q] = NoRoom => IsCell(f, kind, q)
  BY DEF ChainsApart, PoolApart
<1> HIDE DEF r, h
<1>16. \A q \in cell_ptr : OfNode(o, q) \/ OfNode(r, q) => r[q] = o[q] /\ OfNode(o, q) /\ OfNode(r, q)
  BY <1>8, <1>9, <1>15 DEF OfNode
<1>17. \A q \in cell_ptr : /\ NeverWritten(g, r, q) <=> Mine(q) \/ NeverWritten(f, o, q)
                           /\ Listed(g, r, q) <=> Listed(f, o, q)
  <2> TAKE q \in cell_ptr
  <2>1. CASE Mine(q)
    <3>1. r[q] = NoRoom /\ PrevOf(g, q) = Null  BY <1>6, <1>8, <2>1
    <3>2. ~ IsCell(f, kind, q)  BY <1>9, <2>1
    <3>3. o[q] # NoRoom  BY <1>15, <3>2
    <3> QED  BY <2>1, <3>1, <3>3 DEF NeverWritten, Listed
  <2>2. CASE ~ Mine(q)
    <3>1. r[q] = o[q]  BY <1>8, <2>2
    <3>2. o[q] = NoRoom => PrevOf(g, q) = PrevOf(f, q)  BY <1>11, <1>15
    <3> QED  BY <2>2, <3>1, <3>2 DEF NeverWritten, Listed
  <2> QED  BY <2>1, <2>2
<1>18. \A p, q \in cell_ptr : Mine(p) /\ NeverWritten(f, o, q) => ~ Precedes(p, q) /\ ~ Precedes(q, p)
  BY <1>9, <1>15 DEF Precedes, NeverWritten
<1> HIDE DEF Mine
<1>19. \A q \in cell_ptr : Ready(f, o, q) => Ready(g, r, q) /\ q # h
  <2> SUFFICES ASSUME NEW q \in cell_ptr, Ready(f, o, q)  PROVE Ready(g, r, q) /\ q # h
    OBVIOUS
  <2>1. q = NoRoom \/ ~ Mine(q)
    BY <1>9, <1>15 DEF Ready, Listed, NeverWritten, Mine
  <2>2. h # NoRoom  BY <1>5, CellPlace DEF Mine
  <2>3. q # h  BY <1>5, <2>1, <2>2
  <2> QED  BY <1>17, <1>18, <2>3 DEF Ready
<1>20. Ready(g, r, h)
  <2>1. NeverWritten(g, r, h)  BY <1>4, <1>5, <1>17
  <2>2. \A q \in cell_ptr : ~ Precedes(q, h)  BY <1>4 DEF Precedes, cell_ptr
  <2> QED  BY <2>1, <2>2 DEF Ready
<1>21. ASSUME NEW p \in cell_ptr, Listed(g, r, p)  PROVE PoolGoesOn(g, h, r, p)
  <2>1. Listed(f, o, p)  BY <1>17, <1>21
  <2>2. PoolGoesOn(f, NoRoom, o, p)  BY <2>1 DEF PoolApart
  <2>3. IsCell(f, kind, p)  BY <1>15, <2>1 DEF Listed
  <2>4. PrevOf(g, p) = PrevOf(f, p) /\ PrevOf(f, p) \in cell_ptr  BY <1>11, <2>3, PrevType
  <2>5. Ready(g, r, PrevOf(g, p)) /\ PrevOf(g, p) # h  BY <1>19, <2>2, <2>4 DEF PoolGoesOn
  <2>6. \A q \in cell_ptr : Listed(g, r, q) => Listed(f, o, q) /\ PrevOf(g, q) = PrevOf(f, q)
    BY <1>11, <1>15, <1>17 DEF Listed
  <2> QED  BY <2>2, <2>4, <2>5, <2>6 DEF PoolGoesOn
<1>22. \A p \in cell_ptr : r[p] = NoRoom => IsCell(g, kind, p)
  BY <1>8, <1>10, <1>15
<1>23. ASSUME NEW p \in cell_ptr, NEW q \in cell_ptr,
              NeverWritten(g, r, p), IsCell(g, kind, q), Precedes(p, q)
       PROVE  NeverWritten(g, r, q)
  <2>1. CASE Mine(p)
    <3>1. Mine(q)  BY <1>23, <2>1 DEF Mine, Precedes
    <3> QED  BY <1>17, <3>1
  <2>2. CASE NeverWritten(f, o, p)
    <3>1. ~ Mine(q)  BY <1>9, <1>15, <1>23, <2>2 DEF Mine, Precedes, NeverWritten
    <3>2. IsCell(f, kind, q)  BY <1>10, <1>23, <3>1
    <3> QED  BY <1>17, <1>23, <2>2, <3>2 DEF PoolApart
  <2> QED  BY <1>17, <1>23, <2>1, <2>2
<1>24. PoolApart(g, kind, h, r)  BY <1>20, <1>21, <1>22, <1>23 DEF PoolApart
<1>25. ASSUME NEW n \in cell_ptr, InUse(g, n)  PROVE ChainBegins(g, kind, r, n)
  <2>1. InUse(f, n) /\ LastOf(g, kind, n) = LastOf(f, kind, n)  BY <1>14, <1>25
  <2>2. ChainBegins(f, kind, o, n)  BY <2>1 DEF ChainsApart
  <2>3. LastOf(f, kind, n) \in cell_ptr  BY <2>1, LastType DEF InUse
  <2>4. n # NoRoom /\ n # Nobody  BY <2>1, NodePlace DEF InUse
  <2> QED  BY <1>16, <2>1, <2>2, <2>3, <2>4 DEF ChainBegins, OfNode
<1>26. ASSUME NEW p \in cell_ptr, OfNode(r, p)
       PROVE  /\ IsCell(g, kind, p) /\ InUse(g, r[p]) /\ Spelled(g, kind, p)
              /\ PrevOf(g, p) # Null => ChainGoesOn(g, kind, r, p)
  <2>1. r[p] = o[p] /\ OfNode(o, p)  BY <1>16, <1>26
  <2>2. /\ IsCell(f, kind, p) /\ InUse(f, o[p]) /\ Spelled(f, kind, p)
        /\ PrevOf(f, p) # Null => ChainGoesOn(f, kind, o, p)
    BY <2>1 DEF ChainsApart
  <2>3. /\ IsCell(g, kind, p) /\ Spelled(g, kind, p) /\ InUse(g, o[p])
        /\ PrevOf(g, p) = PrevOf(f, p) /\ PrevOf(f, p) \in cell_ptr
        /\ LastOf(g, kind, o[p]) = LastOf(f, kind, o[p])
    BY <1>10, <1>11, <1>13, <1>14, <2>2, PrevType
  <2>4. ASSUME PrevOf(f, p) # Null  PROVE ChainGoesOn(g, kind, r, p)
    <3>1. ChainGoesOn(f, kind, o, p)  BY <2>2, <2>4
    <3>2. OfNode(o, PrevOf(f, p))  BY <2>1, <3>1 DEF ChainGoesOn, OfNode
    <3>3. r[PrevOf(f, p)] = r[p]  BY <1>16, <2>1, <2>3, <3>1, <3>2 DEF ChainGoesOn
    <3>4. ASSUME NEW q \in cell_ptr, r[q] = r[p]
          PROVE  o[q] = o[p] /\ PrevOf(g, q) = PrevOf(f, q)
      <4>1. OfNode(r, q)  BY <1>26, <3>4 DEF OfNode
      <4>2. o[q] = r[q] /\ OfNode(o, q)  BY <1>16, <4>1
      <4> QED  BY <1>11, <1>15, <2>1, <3>4, <4>2
    <3> QED  BY <2>1, <2>3, <3>1, <3>3, <3>4 DEF ChainGoesOn
  <2> QED  BY <2>1, <2>2, <2>3, <2>4
<1>27. ChainsApart(g, kind, r)
  <2>1. ~ IsCell(g, kind, Null)  BY DEF ChainsApart, IsCell, Null, Ptr
  <2> QED  BY <1>25, <1>26, <2>1 DEF ChainsApart
<1> QED  BY <1>7, <1>24, <1>27 DEF h

-----------------------------------------------------------------------------
(* What the writes of the program leave alone.                             *)
StringsKept(f, g) == \A p : IsString(f, p) => IsString(g, p)
ButFor(f, g, b) == \A a \in Block : a # b => g[a] = f[a]
Untouched(f, g) ==
  StringsKept(f, g) /\ \A kind \in CellKind : SameCells(f, g, kind) /\ ChainsKept(f, g, kind)

LEMMA CellsAlike ==
  ASSUME NEW f, NEW g, NEW kind, StringsKept(f, g),
         \A q \in cell_ptr : IsCell(g, kind, q) <=> IsCell(f, kind, q),
         \A q \in cell_ptr : IsCell(f, kind, q) => CellAt(g, q) = CellAt(f, q)
  PROVE  SameCells(f, g, kind)
BY DEF SameCells, PrevOf, Spelled, StringsKept

LEMMA OtherCells ==
  ASSUME NEW f, NEW g, NEW b, ButFor(f, g, b), NEW kind, f[b].type # kind, g[b].type # kind,
         StringsKept(f, g)
  PROVE  SameCells(f, g, kind)
<1>1. \A q : IsCell(g, kind, q) <=> IsCell(f, kind, q)  BY DEF IsCell, ButFor
<1>2. \A q : IsCell(f, kind, q) => CellAt(g, q) = CellAt(f, q)
  BY DEF IsCell, CellAt, ButFor
<1> QED  BY <1>1, <1>2, CellsAlike

LEMMA OtherStrings ==
  ASSUME NEW f, NEW g, NEW b, ButFor(f, g, b), f[b].type # "STRING"
  PROVE  StringsKept(f, g)
BY DEF StringsKept, IsString, ButFor

LEMMA OtherNodes ==
  ASSUME NEW f, NEW g, NEW b, ButFor(f, g, b), NEW kind, f[b].type \notin {"CONTROL", "NODE"},
         g[b].type \notin {"CONTROL", "NODE"}
  PROVE  ChainsKept(f, g, kind)
<1>1. \A n : IsNode(g, n) <=> IsNode(f, n)  BY DEF IsNode, ButFor
<1>2. \A n : IsNode(f, n) => NodeAt(g, n) = NodeAt(f, n)  BY DEF IsNode, NodeAt, ButFor
<1> QED  BY <1>1, <1>2 DEF ChainsKept, ChainKept, InUse, LastOf

LEMMA AlikeNodes ==
  ASSUME NEW f, NEW g, NEW b, ButFor(f, g, b), NEW kind, g[b].type = f[b].type,
         g[b].nodes = f[b].nodes
  PROVE  ChainsKept(f, g, kind)
<1>1. \A n : IsNode(g, n) <=> IsNode(f, n)  BY DEF IsNode, ButFor
<1>2. \A n : IsNode(f, n) => NodeAt(g, n) = NodeAt(f, n)  BY DEF IsNode, NodeAt, ButFor
<1> QED  BY <1>1, <1>2 DEF ChainsKept, ChainKept, InUse, LastOf

(* The control block; the block that links a new node block to the others. *)
LEMMA BlockRewritten ==
  ASSUME NEW f, NEW g, NEW b, ButFor(f, g, b), f[b].type \in {"CONTROL", "NODE"},
         g[b].type = f[b].type, g[b].nodes = f[b].nodes
  PROVE  Untouched(f, g)
<1>1. f[b].type # "STRING" /\ \A kind \in CellKind : f[b].type # kind
  BY DEF CellKind
<1>2. StringsKept(f, g)  BY <1>1, OtherStrings
<1>3. ASSUME NEW kind \in CellKind  PROVE SameCells(f, g, kind) /\ ChainsKept(f, g, kind)
  <2>1. SameCells(f, g, kind)  BY <1>1, <1>2, OtherCells, Zenon
  <2> QED  BY <2>1, AlikeNodes
<1> QED  BY <1>2, <1>3 DEF Untouched

LEMMA ControlRewritten ==
  ASSUME NEW f \in File, f[0].type = "CONTROL", NEW c \in control_block, c.nodes = f[0].nodes
  PROVE  Untouched(f, [f EXCEPT ![0] = c])
<1> DEFINE g == [f EXCEPT ![0] = c]
<1>1. 0 \in Block  BY LayoutAssumption DEF Block
<1>2. g[0] = c /\ ButFor(f, g, 0)  BY <1>1 DEF File, ButFor
<1>3. c.type = "CONTROL"  BY DEF control_block
<1> HIDE DEF g
<1>4. Untouched(f, g)  BY <1>2, <1>3, BlockRewritten
<1> QED  BY <1>4 DEF g

(* A new block, for the cells it is not for.                               *)
LEMMA BlockAdded ==
  ASSUME NEW f, NEW g, NEW b \in Block, b # 0, f[b].type = "ABSENT", ButFor(f, g, b),
         NEW type \in Pool, g[b] = ZeroBlock(type)
  PROVE  /\ StringsKept(f, g)
         /\ \A kind \in CellKind : ChainsKept(f, g, kind) /\ (kind # type => SameCells(f, g, kind))
<1>1. g[b].type = type  BY DEF ZeroBlock, Pool, CellKind
<1>2. StringsKept(f, g)  BY OtherStrings
<1>3. ASSUME NEW kind \in CellKind, kind # type  PROVE SameCells(f, g, kind)
  <2>1. f[b].type # kind  BY DEF CellKind
  <2> QED  BY <1>1, <1>2, <1>3, <2>1, OtherCells
<1>4. ASSUME NEW kind \in CellKind  PROVE ChainsKept(f, g, kind)
  <2>1. CASE type # "NODE"
    <3>1. type # "CONTROL"  BY DEF Pool, CellKind
    <3> QED  BY <1>1, <2>1, <3>1, OtherNodes
  <2>2. CASE type = "NODE"
    <3>1. ASSUME NEW n \in cell_ptr, n.block_num # b  PROVE ChainKept(f, g, kind, n)
      <4>1. IsNode(g, n) <=> IsNode(f, n)  BY <3>1 DEF IsNode, ButFor
      <4>2. IsNode(f, n) => NodeAt(g, n) = NodeAt(f, n)
        BY <3>1 DEF IsNode, NodeAt, ButFor
      <4> QED  BY <4>1, <4>2 DEF ChainKept, InUse, LastOf
    <3>2. ASSUME NEW n \in cell_ptr, n.block_num = b  PROVE ChainKept(f, g, kind, n)
      <4>1. ~ IsNode(f, n)  BY <3>2 DEF IsNode
      <4>2. IsNode(g, n) => NodeAt(g, n).is_empty = 0
        <5> SUFFICES ASSUME IsNode(g, n)  PROVE NodeAt(g, n).is_empty = 0
          OBVIOUS
        <5> DEFINE zeroes == [i \in 0 .. NODES_IN_BLOCK - 1 |-> ZeroNode]
        <5>1. n.offset \in 0 .. NODES_IN_BLOCK - 1  BY <3>2 DEF IsNode, NodesIn
        <5>2. g[b] = [type |-> "NODE", prev_block |-> 0, nodes |-> zeroes]
          BY <2>2 DEF ZeroBlock
        <5>3. zeroes[n.offset] = ZeroNode  BY <5>1
        <5> HIDE DEF zeroes
        <5>4. g[b].nodes = zeroes  BY <5>2
        <5>5. NodeAt(g, n) = ZeroNode  BY <3>2, <5>3, <5>4 DEF NodeAt
        <5> QED  BY <5>5 DEF ZeroNode
      <4> QED  BY <4>1, <4>2 DEF ChainKept, InUse
    <3> QED  BY <3>1, <3>2 DEF ChainsKept
  <2> QED  BY <2>1, <2>2
<1> QED  BY <1>2, <1>3, <1>4

(* create_string_cell.                                                     *)
LEMMA StringWritten ==
  ASSUME NEW f \in File, NEW p, p.block_num \in Block, f[p.block_num].type = "STRING",
         NEW s \in String, p.offset \in 0 .. STRING_DATA - 1
  PROVE  /\ Untouched(f, WriteString(f, p, s))
         /\ IsString(WriteString(f, p, s), p)
<1> DEFINE g == WriteString(f, p, s)
           b == p.block_num
           old == f[b]
           new == [old EXCEPT !.data[p.offset] = s]
<1>1. b \in Block /\ old \in block  BY DEF File
<1>2. g = [f EXCEPT ![b] = new]  BY <1>1 DEF WriteString, File
<1>3. old \in str_block  BY <1>1, BlockForm
<1>4. /\ new.type = "STRING" /\ new.data = [old.data EXCEPT ![p.offset] = s]
      /\ DOMAIN old.data = 0 .. STRING_DATA - 1
  BY <1>3 DEF str_block
<1> HIDE DEF new
<1>5. g[b] = new /\ f[b] = old /\ ButFor(f, g, b)
  BY <1>1, <1>2 DEF File, ButFor
<1> HIDE DEF g, old
<1>6. /\ new.data[p.offset] = s
      /\ \A i \in 0 .. STRING_DATA - 1 : i # p.offset => new.data[i] = old.data[i]
  BY <1>4
<1>7. s # Unwritten  BY LayoutAssumption
<1>8. IsString(g, p)  BY <1>1, <1>4, <1>5, <1>6, <1>7 DEF IsString
<1>9. ASSUME NEW q, IsString(f, q)  PROVE IsString(g, q)
  <2>1. CASE q.block_num = b
    <3>1. q.offset \in 0 .. STRING_DATA - 1 /\ old.data[q.offset] # Unwritten
      BY <1>5, <1>9, <2>1 DEF IsString
    <3>2. new.data[q.offset] # Unwritten  BY <1>6, <1>7, <3>1
    <3> QED  BY <1>1, <1>4, <1>5, <2>1, <3>1, <3>2 DEF IsString
  <2>2. CASE q.block_num # b  BY <1>5, <1>9, <2>2 DEF IsString, ButFor
  <2> QED  BY <2>1, <2>2
<1>10. StringsKept(f, g)  BY <1>9 DEF StringsKept
<1>11. ASSUME NEW kind \in CellKind  PROVE SameCells(f, g, kind) /\ ChainsKept(f, g, kind)
  <2>1. f[b].type = "STRING" /\ g[b].type = "STRING" /\ kind # "STRING"
    BY <1>4, <1>5 DEF CellKind
  <2>2. SameCells(f, g, kind)  BY <1>5, <1>10, <2>1, OtherCells
  <2>3. ChainsKept(f, g, kind)  BY <1>5, <2>1, OtherNodes
  <2> QED  BY <2>2, <2>3
<1>12. Untouched(f, g)  BY <1>10, <1>11 DEF Untouched
<1> QED  BY <1>8, <1>12 DEF g

(* A cell is written: the other cells stay, the nodes and strings too.     *)
LEMMA CellWritten ==
  ASSUME NEW f \in File, NEW kind \in CellKind, NEW p \in cell_ptr, IsCell(f, kind, p), NEW c \in cell
  PROVE  /\ StringsKept(f, WriteCell(f, p, c))
         /\ \A k \in CellKind : ChainsKept(f, WriteCell(f, p, c), k)
         /\ \A k \in CellKind \ {kind} : SameCells(f, WriteCell(f, p, c), k)
         /\ \A q : IsCell(WriteCell(f, p, c), kind, q) <=> IsCell(f, kind, q)
         /\ CellAt(WriteCell(f, p, c), p) = c
         /\ \A q \in cell_ptr : q # p /\ IsCell(f, kind, q) =>
              /\ CellAt(WriteCell(f, p, c), q) = CellAt(f, q)
              /\ Spelled(f, kind, q) => Spelled(WriteCell(f, p, c), kind, q)
<1> DEFINE g == WriteCell(f, p, c)
           b == p.block_num
           old == f[b]
           new == [old EXCEPT !.cells[p.offset] = c]
<1>1. /\ b \in Block /\ old \in block /\ old.type = kind
      /\ kind \notin {"CONTROL", "NODE", "STRING"}
  BY DEF File, IsCell, CellKind
<1>2. g = [f EXCEPT ![b] = new]  BY <1>1 DEF WriteCell, File
<1>3. old \in cell_block(kind)  BY <1>1, BlockForm
<1>4. /\ new.type = kind /\ new.cells = [old.cells EXCEPT ![p.offset] = c]
      /\ DOMAIN old.cells = 0 .. CellsIn(kind) - 1
  BY <1>1, <1>3 DEF cell_block
<1> HIDE DEF new
<1>5. g[b] = new /\ f[b] = old /\ ButFor(f, g, b)
  BY <1>1, <1>2 DEF File, ButFor
<1> HIDE DEF g, old
<1>6. p.offset \in 0 .. CellsIn(kind) - 1  BY DEF IsCell
<1>7. /\ new.cells[p.offset] = c
      /\ \A i \in 0 .. CellsIn(kind) - 1 : i # p.offset => new.cells[i] = old.cells[i]
  BY <1>4, <1>6
<1>8. StringsKept(f, g)  BY <1>1, <1>5, OtherStrings
<1>9. ASSUME NEW k \in CellKind  PROVE ChainsKept(f, g, k)
  BY <1>1, <1>4, <1>5, OtherNodes
<1>10. ASSUME NEW k \in CellKind, k # kind  PROVE SameCells(f, g, k)
  BY <1>1, <1>4, <1>5, <1>8, <1>10, OtherCells
<1>11. \A q : IsCell(g, kind, q) <=> IsCell(f, kind, q)
  BY <1>1, <1>4, <1>5 DEF IsCell, ButFor
<1>12. CellAt(g, p) = c  BY <1>5, <1>7 DEF CellAt
<1>13. ASSUME NEW q \in cell_ptr, q # p, IsCell(f, kind, q)
       PROVE  /\ CellAt(g, q) = CellAt(f, q)
              /\ Spelled(f, kind, q) => Spelled(g, kind, q)
  <2>1. CellAt(g, q) = CellAt(f, q)
    <3>1. CASE q.block_num = b
      <4>1. q.offset # p.offset  BY <1>13, <3>1 DEF cell_ptr
      <4>2. q.offset \in 0 .. CellsIn(kind) - 1  BY <1>13 DEF IsCell
      <4> QED  BY <1>5, <1>7, <3>1, <4>1, <4>2 DEF CellAt
    <3>2. CASE q.block_num # b
      <4>1. q.block_num \in Block  BY <1>13 DEF IsCell
      <4> QED  BY <1>5, <3>2, <4>1 DEF CellAt, ButFor
    <3> QED  BY <3>1, <3>2
  <2> QED  BY <1>8, <2>1 DEF Spelled, StringsKept
<1> QED  BY <1>8, <1>9, <1>10, <1>11, <1>12, <1>13 DEF g

(* A node is written.                                                      *)
LEMMA NodeRewritten ==
  ASSUME NEW f \in File, NEW p \in cell_ptr, IsNode(f, p), NEW n \in node_cell
  PROVE  /\ StringsKept(f, WriteNode(f, p, n))
         /\ \A kind \in CellKind : SameCells(f, WriteNode(f, p, n), kind)
         /\ \A kind \in CellKind : \A m \in cell_ptr :
              m # p => ChainKept(f, WriteNode(f, p, n), kind, m)
         /\ \A m \in cell_ptr : m # p => (InUse(WriteNode(f, p, n), m) <=> InUse(f, m))
         /\ IsNode(WriteNode(f, p, n), p) /\ NodeAt(WriteNode(f, p, n), p) = n
<1> DEFINE g == WriteNode(f, p, n)
           b == p.block_num
<1>1. WritesBlock(f, g, b)  BY WriteNodeType
<1>2. f[b].type \in {"CONTROL", "NODE"} /\ b \in Block  BY DEF IsNode
<1>3. /\ \A q : IsNode(g, q) <=> IsNode(f, q)
      /\ NodeAt(g, p) = n
      /\ \A q \in cell_ptr : q # p /\ IsNode(f, q) => NodeAt(g, q) = NodeAt(f, q)
  BY NodeWritten
<1> HIDE DEF g, b
<1>4. ButFor(f, g, b) /\ g[b].type = f[b].type  BY <1>1, <1>2 DEF WritesBlock, ButFor
<1>5. StringsKept(f, g)  BY <1>2, <1>4, OtherStrings
<1>6. ASSUME NEW kind \in CellKind  PROVE SameCells(f, g, kind)
  <2>1. f[b].type # kind  BY <1>2 DEF CellKind
  <2> QED  BY <1>4, <1>5, <2>1, OtherCells
<1>7. ASSUME NEW kind \in CellKind, NEW m \in cell_ptr, m # p  PROVE ChainKept(f, g, kind, m)
  BY <1>3, <1>7 DEF ChainKept, InUse, LastOf
<1>8. \A m \in cell_ptr : m # p => (InUse(g, m) <=> InUse(f, m))
  BY <1>3 DEF InUse
<1> QED  BY <1>3, <1>5, <1>6, <1>7, <1>8 DEF g

-----------------------------------------------------------------------------
(* The inductive invariant.  Each kind of cell is shared out: in memory at *)
(* every moment, on disk while a command removes cells, or nothing runs    *)
(* after one.  The cell that a command has in its hands is of the node it  *)
(* works on, or nobody's, on its way in or out of the chain.               *)
Shared(f, kind, h, o) == ChainsApart(f, kind, o) /\ PoolApart(f, kind, h, o)
SoundCells(f) ==
  f[0].type = "CONTROL" =>
    \A kind \in CellKind : \E o \in Owners : Shared(f, kind, f[0].head[kind], o)

HandPCs == StringPCs \cup {"update_node", "find_node_attribute", "write_value", "remove", "free_cell"}
(* The walk of remove_cell: from the node, or from a cell of its chain.    *)
LedFrom(kind, o) ==
  \/ exec.prev = exec.node /\ LastOf(file, kind, exec.node) = exec.current
  \/ /\ o[exec.prev] = exec.node /\ PrevOf(file, exec.prev) = exec.current
     /\ exec.prev # exec.current
OfItsNode(o, c) == c = Null \/ o[c] = exec.node
InHands(kind, o) ==
  /\ Place = "update_node" =>
       /\ o[exec.current] = Nobody
       /\ IsCell(file, kind, exec.current) /\ Spelled(file, kind, exec.current)
       /\ PrevOf(file, exec.current) = LastOf(file, kind, exec.node)
  /\ Place \in StringPCs \cup {"find_node_attribute", "write_value", "remove"} =>
       OfItsNode(o, exec.current)
  /\ Place = "write_value" => exec.current # Null
  /\ Place = "remove" =>
       IF exec.has_changed THEN IsCell(file, kind, exec.prev) ELSE LedFrom(kind, o)
  /\ Place = "free_cell" =>
       /\ o[exec.current] = Nobody /\ IsCell(file, kind, exec.current)
       /\ OfItsNode(o, exec.following)

Held(kind, o) ==
  /\ Shared(file, kind, ctrl_block.head[kind], o)
  /\ exec.jobs # << >> /\ job.kind = kind => InHands(kind, o)
AllHeld == \A kind \in CellKind : \E o \in Owners : Held(kind, o)
MemCells == ~ Down => AllHeld
DiskCells ==
  exec.jobs # << >> /\ job.op = "remove" => SoundCells(disk) /\ SoundCells(file)
RestartCells == exec.pc = "down" => SoundCells(file)
ReadableIn(f) == \A kind \in CellKind : \E o \in Owners : ChainsApart(f, kind, o)
ReadableChains == ReadableIn(file) /\ ReadableIn(disk)
StringsHeld == ~ Down => \A i \in 1 .. Len(exec.strings) : IsString(file, exec.strings[i])
RemovesFirst(jobs) ==
  \A i, j \in 1 .. Len(jobs) : i < j /\ jobs[j].op = "remove" => jobs[i].op = "remove"
KInv ==
  /\ MemCells /\ DiskCells /\ RestartCells /\ ReadableChains
  /\ StringsHeld /\ RemovesFirst(exec.jobs)

LEMMA SoundSince ==
  ASSUME AllHeld, \A kind \in CellKind : file[0].head[kind] = ctrl_block.head[kind]
  PROVE  SoundCells(file)
BY DEF SoundCells, AllHeld, Held

LEMMA SoundThen ==
  ASSUME AllHeld', \A kind \in CellKind : file'[0].head[kind] = ctrl_block'.head[kind]
  PROVE  SoundCells(file')
BY DEF SoundCells, AllHeld, Held

LEMMA SoundMeanwhile ==
  ASSUME CInv, KInv, ~ Down, ~ Updating
  PROVE  SoundCells(file)
BY SoundSince DEF CInv, ControlCoherent, KInv, MemCells

LEMMA Together ==
  ASSUME KInv, exec'.pc # "down", AllHeld', disk' \in {disk, file, file'}, DiskCells', StringsHeld',
         RemovesFirst(exec'.jobs)
  PROVE  KInv'
<1>1. ReadableIn(file')  BY DEF AllHeld, Held, Shared, ReadableIn
<1>2. ReadableIn(file) /\ ReadableIn(disk)  BY DEF KInv, ReadableChains
<1>3. ReadableChains'
  <2>1. ReadableIn(disk')  BY <1>1, <1>2
  <2> QED  BY <1>1, <2>1 DEF ReadableChains, ReadableIn
<1>4. RestartCells' /\ MemCells'  BY DEF RestartCells, MemCells
<1> QED  BY <1>3, <1>4 DEF KInv, RemovesFirst

LEMMA StillStrings ==
  ASSUME StringsHeld, ~ Down, StringsKept(file, file'), exec'.strings \in {exec.strings, << >>}
  PROVE  StringsHeld'
BY DEF StringsHeld, StringsKept

LEMMA WildCells ==
  ASSUME CInv, KInv, Wild
  PROVE  KInv'
<1>1. exec \in exec_type  BY Unfold DEF CInv
<1>2. exec'.pc = "wild" /\ exec'.jobs = exec.jobs /\ UNCHANGED <<file, disk>>
  BY <1>1 DEF Wild, exec_type
<1>3. Down' /\ (exec'.pc # "down") /\ job' = job  BY <1>2 DEF Down, job
<1>4. MemCells' /\ StringsHeld' /\ RestartCells'
  BY <1>3 DEF MemCells, StringsHeld, RestartCells
<1>5. DiskCells'  BY <1>2, <1>3 DEF KInv, DiskCells, SoundCells
<1>6. ReadableChains'  BY <1>2 DEF KInv, ReadableChains, ReadableIn
<1>7. RemovesFirst(exec.jobs)'  BY <1>2 DEF KInv, RemovesFirst
<1> QED  BY <1>4, <1>5, <1>6, <1>7 DEF KInv

(* A step that ends the process leaves only the file and the disk.         *)
LEMMA StopCells ==
  ASSUME KInv, exec'.pc = "down", exec'.jobs = << >>, SoundCells(file'),
         file' \in {file, disk}, disk' \in {file, disk}
  PROVE  KInv'
<1>1. Down'  BY DEF Down
<1>2. MemCells' /\ StringsHeld'  BY <1>1 DEF MemCells, StringsHeld
<1>3. RestartCells'  BY DEF RestartCells, SoundCells
<1>4. ReadableChains'  BY DEF KInv, ReadableChains, ReadableIn
<1>5. DiskCells'  BY DEF DiskCells
<1>6. RemovesFirst(exec.jobs)'  BY DEF RemovesFirst
<1> QED  BY <1>2, <1>3, <1>4, <1>5, <1>6 DEF KInv

(* A write that touches no cell and no chain leaves them shared out.       *)
LEMMA StillShared ==
  ASSUME NEW f \in File, NEW g, NEW kind \in CellKind, NEW h \in cell_ptr, NEW o \in Owners,
         SameCells(f, g, kind), ChainsKept(f, g, kind), Shared(f, kind, h, o)
  PROVE  Shared(g, kind, h, o)
<1>1. CellsKept(f, g, kind, o)  BY SameCellsKept
<1>2. ChainsApart(g, kind, o)  BY <1>1, ApartKept DEF Shared
<1>3. PoolApart(g, kind, h, o)  BY <1>1, PoolApartKept DEF Shared
<1> QED  BY <1>2, <1>3 DEF Shared

(* What a command has in its hands, while nothing touches it.              *)
SameHands ==
  /\ exec'.jobs = exec.jobs /\ exec'.node = exec.node /\ exec'.current = exec.current
  /\ exec'.prev = exec.prev /\ exec'.following = exec.following
  /\ exec'.has_changed = exec.has_changed

LEMMA EmptyHands ==
  ASSUME Place' \notin HandPCs, NEW kind, NEW o
  PROVE  InHands(kind, o)'
BY DEF InHands, HandPCs

LEMMA StillInHands ==
  ASSUME CInv, NInv, ~ Down, Untouched(file, file'), SameHands, Place' = Place,
         NEW kind \in CellKind, NEW o \in Owners, exec.jobs # << >>, job.kind = kind,
         Shared(file, kind, ctrl_block.head[kind], o), InHands(kind, o)
  PROVE  InHands(kind, o)'
<1>1. file \in File /\ exec.node \in cell_ptr /\ exec.current \in cell_ptr /\ exec.prev \in cell_ptr
  BY Unfold DEF CInv, exec_type
<1>2. StringsKept(file, file') /\ SameCells(file, file', kind) /\ ChainsKept(file, file', kind)
  BY DEF Untouched
<1>3. CASE Place = "update_node"
  <2>1. InUse(file, exec.node)  BY <1>3 DEF NInv, NodesHeld, AtNode, NodePCs
  <2>2. LastOf(file', kind, exec.node) = LastOf(file, kind, exec.node)
    BY <1>1, <1>2, <2>1 DEF ChainsKept, ChainKept
  <2>3. /\ o[exec.current] = Nobody
        /\ IsCell(file, kind, exec.current) /\ Spelled(file, kind, exec.current)
        /\ PrevOf(file, exec.current) = LastOf(file, kind, exec.node)
    BY <1>3 DEF InHands
  <2>4. /\ IsCell(file', kind, exec.current) /\ Spelled(file', kind, exec.current)
        /\ PrevOf(file', exec.current) = PrevOf(file, exec.current)
    BY <1>1, <1>2, <2>3 DEF SameCells
  <2> QED  BY <1>3, <2>2, <2>3, <2>4 DEF InHands, SameHands, StringPCs
<1>4. CASE Place = "remove"
  <2>1. InUse(file, exec.node)  BY <1>4 DEF NInv, NodesHeld, AtNode, NodePCs
  <2>2. LastOf(file', kind, exec.node) = LastOf(file, kind, exec.node)
    BY <1>1, <1>2, <2>1 DEF ChainsKept, ChainKept
  <2>3. OfItsNode(o, exec.current)
        /\ IF exec.has_changed THEN IsCell(file, kind, exec.prev) ELSE LedFrom(kind, o)
    BY <1>4 DEF InHands
  <2>4. OfItsNode(o, exec.current)'  BY <2>3 DEF OfItsNode, SameHands
  <2>5. CASE exec.has_changed
    <3>1. IsCell(file', kind, exec.prev)  BY <1>1, <1>2, <2>3, <2>5 DEF SameCells
    <3> QED  BY <1>4, <2>4, <2>5, <3>1 DEF InHands, SameHands, StringPCs
  <2>6. CASE ~ exec.has_changed
    <3>1. LedFrom(kind, o)'
      <4>1. CASE o[exec.prev] = exec.node
        <5>1. exec.node # NoRoom /\ exec.node # Nobody  BY <2>1, NodePlace DEF InUse
        <5>2. IsCell(file, kind, exec.prev)
          BY <1>1, <4>1, <5>1 DEF Shared, ChainsApart, OfNode
        <5>3. PrevOf(file', exec.prev) = PrevOf(file, exec.prev)
          BY <1>1, <1>2, <5>2 DEF SameCells
        <5> QED  BY <2>2, <2>3, <2>6, <5>3 DEF LedFrom, SameHands
      <4>2. CASE o[exec.prev] # exec.node
        BY <2>2, <2>3, <2>6, <4>2 DEF LedFrom, SameHands
      <4> QED  BY <4>1, <4>2
    <3> QED  BY <1>4, <2>4, <2>6, <3>1 DEF InHands, SameHands, StringPCs
  <2> QED  BY <2>5, <2>6
<1>5. CASE Place = "free_cell"
  <2>1. o[exec.current] = Nobody /\ IsCell(file, kind, exec.current) /\ OfItsNode(o, exec.following)
    BY <1>5 DEF InHands
  <2>2. IsCell(file', kind, exec.current)  BY <1>1, <1>2, <2>1 DEF SameCells
  <2> QED  BY <1>5, <2>1, <2>2 DEF InHands, SameHands, OfItsNode, StringPCs
<1>6. CASE Place \notin {"update_node", "remove", "free_cell"}
  BY <1>6 DEF InHands, SameHands, OfItsNode, StringPCs
<1> QED  BY <1>3, <1>4, <1>5, <1>6

(* Most steps of the allocator: they touch nothing, and hands stay.        *)
LEMMA UntouchedHeld ==
  ASSUME CInv, NInv, KInv, ~ Down, Untouched(file, file'), exec'.jobs = exec.jobs,
         \A kind \in CellKind : ctrl_block'.head[kind] = ctrl_block.head[kind],
         (SameHands /\ Place' = Place) \/ Place' \notin HandPCs
  PROVE  AllHeld'
<1>1. file \in File /\ \A kind \in CellKind : ctrl_block.head[kind] \in cell_ptr
  BY Unfold DEF CInv, Pool
<1>2. ASSUME NEW kind \in CellKind  PROVE \E o \in Owners : Held(kind, o)'
  <2>1. PICK o \in Owners : Held(kind, o)  BY DEF KInv, MemCells, AllHeld
  <2>2. Shared(file, kind, ctrl_block.head[kind], o)  BY <2>1 DEF Held
  <2>3. Shared(file', kind, ctrl_block'.head[kind], o)
    BY <1>1, <2>2, StillShared DEF Untouched
  <2>4. ASSUME exec.jobs # << >>, job.kind = kind  PROVE InHands(kind, o)'
    <3>1. CASE Place' \notin HandPCs  BY <3>1, EmptyHands
    <3>2. CASE SameHands /\ Place' = Place
      <4>1. InHands(kind, o)  BY <2>1, <2>4 DEF Held
      <4> QED  BY <2>2, <2>4, <3>2, <4>1, StillInHands
    <3> QED  BY <3>1, <3>2
  <2>5. Held(kind, o)'  BY <2>3, <2>4 DEF Held, job
  <2> QED  BY <2>5
<1> QED  BY <1>2 DEF AllHeld

LEMMA UntouchedStep ==
  ASSUME CInv, NInv, KInv, ~ Down, exec'.pc # "down", Untouched(file, file'),
         \A kind \in CellKind : ctrl_block'.head[kind] = ctrl_block.head[kind],
         disk' \in {disk, file, file'}, exec'.strings = exec.strings, exec'.jobs = exec.jobs,
         (SameHands /\ Place' = Place) \/ Place' \notin HandPCs, DiskCells'
  PROVE  KInv'
<1>1. AllHeld'  BY UntouchedHeld
<1>2. StringsHeld'  BY StillStrings DEF KInv, Untouched
<1>3. RemovesFirst(exec'.jobs)  BY DEF KInv
<1> QED  BY <1>1, <1>2, <1>3, Together

-----------------------------------------------------------------------------
(* The steps of the allocator.                                             *)
LEMMA NoRemoval ==
  ASSUME exec'.jobs # << >> => job'.op # "remove"
  PROVE  DiskCells'
BY DEF DiskCells

LEMMA ControlCells ==
  ASSUME CInv, NInv, KInv, update_control_block
  PROVE  KInv'
<1>1. /\ file \in File /\ ctrl_block \in control_block /\ exec \in exec_type
      /\ ~ Down /\ Updating /\ exec.pc = "update_control_block"
      /\ file' = [file EXCEPT ![0] = ctrl_block] /\ ctrl_block' = ctrl_block /\ disk' = file
      /\ exec' = [exec EXCEPT !.pc = exec.ret]
  BY Unfold DEF CInv, update_control_block, Down, Updating, LastWriteUnflushed
<1>2. ctrl_block.nodes = file[0].nodes /\ file[0].type = "CONTROL"
  BY <1>1 DEF CInv, IInv, ControlBlock, ControlCoherent
<1>3. Untouched(file, file')  BY <1>1, <1>2, ControlRewritten
<1>4. exec'.pc = exec.ret /\ exec.ret \notin UpdatingPCs /\ Place = exec.ret
  BY <1>1 DEF CInv, RetOK, Place, exec_type
<1>5. SameHands /\ exec'.strings = exec.strings  BY <1>1 DEF SameHands, exec_type
<1>6. Place' = Place  BY <1>4 DEF Place, Updating, UpdatingPCs
<1>7. exec'.pc # "down"  BY <1>1, <1>4 DEF NInv, RestartSound
<1>8. AllHeld'  BY <1>1, <1>3, <1>5, <1>6, UntouchedHeld DEF SameHands
<1>9. file'[0] = ctrl_block'
  BY <1>1, LayoutAssumption DEF File, Block
<1>10. SoundCells(file')  BY <1>8, <1>9, SoundThen
<1>11. DiskCells'
  <2>1. job' = job /\ exec'.jobs = exec.jobs  BY <1>5 DEF SameHands, job
  <2>2. exec.jobs # << >> /\ job.op = "remove" => SoundCells(file)  BY DEF KInv, DiskCells
  <2> QED  BY <1>1, <1>10, <2>1, <2>2 DEF DiskCells, SoundCells
<1> QED  BY <1>1, <1>3, <1>5, <1>6, <1>7, <1>11, UntouchedStep DEF SameHands

LEMMA AddsNodes ==
  ASSUME BInv, Place = "create_node_cell", exec'.jobs = exec.jobs
  PROVE  DiskCells'
<1>1. exec.jobs # << >> => job.op = "add"  BY DEF BInv, OnlyAdds
<1>2. job' = job  BY DEF job
<1> QED  BY <1>1, <1>2, NoRemoval

LEMMA ChainControlCells ==
  ASSUME CInv, BInv, NInv, KInv, chain_update_control
  PROVE  KInv'
<1>1. /\ file \in File /\ ctrl_block \in control_block /\ exec \in exec_type
      /\ ~ Down /\ Updating /\ exec.pc = "chain_update_control"
      /\ file' = [file EXCEPT ![0] = ctrl_block] /\ disk' = file
      /\ ctrl_block' = [ctrl_block EXCEPT !.empty_block = @ + 1]
      /\ exec' = [exec EXCEPT !.pc = "update_control_block", !.ret = exec.ret]
  BY Unfold DEF CInv, chain_update_control, UpdateControlThen, Down, Updating, LastWriteUnflushed
<1>2. ctrl_block.nodes = file[0].nodes /\ file[0].type = "CONTROL"
  BY <1>1 DEF CInv, IInv, ControlBlock, ControlCoherent
<1>3. Untouched(file, file')  BY <1>1, <1>2, ControlRewritten
<1>4. Place = "create_node_cell" /\ exec'.pc = "update_control_block"
  BY <1>1 DEF CInv, RetOK, Place, exec_type
<1>5. SameHands /\ exec'.strings = exec.strings /\ exec'.ret = exec.ret
  BY <1>1 DEF SameHands, exec_type
<1>6. Place' = Place  BY <1>1, <1>4, <1>5 DEF Place, Updating
<1>7. \A kind \in CellKind : ctrl_block'.head[kind] = ctrl_block.head[kind]
  BY <1>1 DEF control_block
<1>8. DiskCells'  BY <1>4, <1>5, AddsNodes DEF SameHands
<1> QED  BY <1>1, <1>3, <1>4, <1>5, <1>6, <1>7, <1>8, UntouchedStep DEF SameHands

LEMMA ChainCells ==
  ASSUME CInv, BInv, NInv, KInv, chain_node_block
  PROVE  KInv'
<1> DEFINE b == ctrl_block.empty_block
<1>1. /\ file \in File /\ ctrl_block \in control_block /\ exec \in exec_type
      /\ ~ Down /\ Updating /\ exec.pc = "chain_node_block" /\ disk' = file
      /\ file' = [file EXCEPT ![b] = [ZeroBlock("NODE") EXCEPT
                                        !.prev_block = ctrl_block.prev_node_block]]
      /\ ctrl_block' = [ctrl_block EXCEPT !.prev_node_block = b]
      /\ exec' = [exec EXCEPT !.pc = "chain_update_control"]
  BY Unfold DEF CInv, chain_node_block, Down, Updating, LastWriteUnflushed
<1>2. b \in Block /\ file[b] = ZeroBlock("NODE")
  BY <1>1 DEF BInv, MemLinked, NInv, NewBlockBlank
<1>3. file'[b] = [ZeroBlock("NODE") EXCEPT !.prev_block = ctrl_block.prev_node_block]
      /\ ButFor(file, file', b)
  BY <1>1, <1>2 DEF File, ButFor
<1>4. file[b].type = "NODE" /\ file'[b].type = "NODE" /\ file'[b].nodes = file[b].nodes
  BY <1>2, <1>3 DEF ZeroBlock
<1>5. Untouched(file, file')  BY <1>3, <1>4, BlockRewritten
<1>6. Place = "create_node_cell" /\ exec'.pc = "chain_update_control"
  BY <1>1 DEF CInv, RetOK, Place, exec_type
<1>7. SameHands /\ exec'.strings = exec.strings /\ exec'.ret = exec.ret
  BY <1>1 DEF SameHands, exec_type
<1>8. Place' = Place  BY <1>1, <1>6, <1>7 DEF Place, Updating
<1>9. \A kind \in CellKind : ctrl_block'.head[kind] = ctrl_block.head[kind]
  BY <1>1 DEF control_block
<1>10. DiskCells'  BY <1>6, <1>7, AddsNodes DEF SameHands
<1> QED  BY <1>1, <1>5, <1>6, <1>7, <1>8, <1>9, <1>10, UntouchedStep DEF SameHands

(* The head of a pool whose last block is full, and the cells there.       *)
LEMMA HeadOfPool ==
  ASSUME NEW f, NEW kind, NEW h \in cell_ptr, NEW o, PoolApart(f, kind, h, o)
  PROVE  /\ h.block_num = -1 => h = NoRoom
         /\ h.block_num # -1 => IsCell(f, kind, h)
<1>1. h = NoRoom \/ IsCell(f, kind, h)
  BY DEF PoolApart, Ready, Listed, NeverWritten
<1> QED  BY <1>1, CellPlace, LayoutAssumption DEF Block, NoRoom, Ptr

LEMMA AllocateCells ==
  ASSUME CInv, BInv, NInv, KInv, ~ Down, ~ Updating, NEW type \in Pool, NEW ret,
         ret \notin UpdatingPCs, allocate_new_block(type, ret), DiskCells',
         type \in CellKind => ctrl_block.head[type].block_num = -1,
         \/ ret \in {"create_node_cell", "create_cell"}
         \/ ret \in StringPCs /\ exec.pc \in StringPCs /\ type = "STRING"
  PROVE  KInv'
<1> DEFINE b == ctrl_block.empty_block
           h == Ptr(b, ctrl_block.head[type].offset)
<1>1. /\ file \in File /\ ctrl_block \in control_block /\ exec \in exec_type /\ b \in Block /\ b # 0
      /\ \A pool \in Pool : ctrl_block.head[pool] \in cell_ptr
  BY Unfold, LayoutAssumption DEF CInv, allocate_new_block, Block
<1>2. /\ file' = [file EXCEPT ![b] = ZeroBlock(type)] /\ disk' = file
      /\ \/ /\ ctrl_block' = [ctrl_block EXCEPT !.head[type] = h]
            /\ exec' = [exec EXCEPT !.pc = "chain_node_block", !.ret = ret]
         \/ /\ ctrl_block' = [ctrl_block EXCEPT
                 !.head[type] = h, !.empty_block = b + 1,
                 !.prev_node_block = IF type = "NODE" THEN b ELSE @]
            /\ exec' = [exec EXCEPT !.pc = "update_control_block", !.ret = ret]
  BY DEF allocate_new_block, UpdateControlThen, LastWriteUnflushed
<1>3. /\ ctrl_block'.head = [ctrl_block.head EXCEPT ![type] = h]
      /\ ctrl_block.head \in [Pool -> cell_ptr]
  BY <1>1, <1>2 DEF control_block
<1>4. /\ SameHands /\ exec'.strings = exec.strings /\ exec'.ret = ret
      /\ exec'.pc \in {"chain_node_block", "update_control_block"}
  BY <1>1, <1>2 DEF SameHands, exec_type
<1>5. Place' = ret /\ Place = exec.pc  BY <1>4 DEF Place, Updating
<1>6. file[b].type = "ABSENT"
  <2>1. exec.pc \notin ChainPCs  BY DEF ChainPCs, Updating
  <2> QED  BY <1>1, <2>1 DEF BInv, MemLinked, AbsentFrom, Block
<1>13. b # 0  BY <1>1
<1>7. file'[b] = ZeroBlock(type) /\ ButFor(file, file', b)
  BY <1>1, <1>2 DEF File, ButFor
<1>8. /\ StringsKept(file, file')
      /\ \A kind \in CellKind : ChainsKept(file, file', kind) /\ (kind # type => SameCells(file, file', kind))
  BY <1>1, <1>6, <1>7, BlockAdded
<1> HIDE DEF b, h
<1>9. ASSUME NEW kind \in CellKind  PROVE \E o \in Owners : Held(kind, o)'
  <2>1. PICK o \in Owners : Held(kind, o)  BY DEF KInv, MemCells, AllHeld
  <2>2. Shared(file, kind, ctrl_block.head[kind], o)  BY <2>1 DEF Held
  <2>3. CASE kind = type
    <3>1. ret \notin HandPCs /\ ctrl_block.head[type].block_num = -1
      BY <2>3 DEF CellKind, HandPCs, StringPCs
    <3>2. ctrl_block.head[kind] \in cell_ptr  BY <1>1, <2>3
    <3>3. ctrl_block.head[kind] = NoRoom
      BY <2>2, <2>3, <3>1, <3>2, HeadOfPool DEF Shared
    <3>4. h = Ptr(b, 0) /\ ctrl_block'.head[kind] = h
      BY <1>3, <2>3, <3>3 DEF NoRoom, Ptr, h
    <3>5. PICK r \in Owners : ChainsApart(file', kind, r) /\ PoolApart(file', kind, Ptr(b, 0), r)
      <4>1. ChainsApart(file, kind, o) /\ PoolApart(file, kind, NoRoom, o)
        BY <2>2, <3>3 DEF Shared
      <4> QED  BY <1>1, <1>6, <1>7, <1>13, <2>3, <4>1, NewCells DEF ButFor
    <3>6. Shared(file', kind, ctrl_block'.head[kind], r)  BY <3>4, <3>5 DEF Shared
    <3>7. InHands(kind, r)'  BY <1>5, <3>1, EmptyHands
    <3> QED  BY <3>6, <3>7 DEF Held
  <2>4. CASE kind # type
    <3>1. Shared(file', kind, ctrl_block.head[kind], o)
      BY <1>1, <1>8, <2>2, <2>4, StillShared DEF Pool
    <3>2. ctrl_block'.head[kind] = ctrl_block.head[kind]  BY <1>3, <2>4 DEF Pool
    <3>3. ASSUME exec.jobs # << >>, job.kind = kind  PROVE InHands(kind, o)'
      <4>1. CASE ret \in {"create_node_cell", "create_cell"}
        <5>1. ret \notin HandPCs  BY <4>1 DEF HandPCs, StringPCs
        <5> QED  BY <1>5, <5>1, EmptyHands
      <4>2. CASE ret \in StringPCs /\ exec.pc \in StringPCs
        <5>1. OfItsNode(o, exec.current)  BY <1>5, <2>1, <3>3, <4>2 DEF Held, InHands
        <5> QED  BY <1>4, <1>5, <4>2, <5>1 DEF InHands, OfItsNode, SameHands, StringPCs
      <4> QED  BY <4>1, <4>2
    <3>4. Held(kind, o)'  BY <1>4, <3>1, <3>2, <3>3 DEF Held, job, SameHands
    <3> QED  BY <3>4
  <2> QED  BY <2>3, <2>4
<1>10. AllHeld'  BY <1>9 DEF AllHeld
<1>11. StringsHeld'  BY <1>4, <1>8, StillStrings DEF KInv
<1>12. RemovesFirst(exec'.jobs)  BY <1>4 DEF KInv, SameHands
<1> QED  BY <1>2, <1>4, <1>10, <1>11, <1>12, Together

-----------------------------------------------------------------------------
(* Nodes created and deleted.                                              *)
LEMMA CreateNodeCells ==
  ASSUME CInv, BInv, NInv, KInv, create_node_cell
  PROVE  KInv'
<1> DEFINE h == ctrl_block.head["NODE"]
           new == [ZeroNode EXCEPT !.is_empty = 1]
           after == HeadAfter(h, NodeAt(file, h).last["LABEL"], NodesIn(h.block_num))
<1>1. /\ exec.pc = "create_node_cell" /\ ~ Down /\ ~ Updating
      /\ ctrl_block \in control_block /\ exec \in exec_type /\ file \in File /\ h \in cell_ptr
  BY Unfold DEF create_node_cell, Down, Updating, CInv, Pool
<1>2. Place = "create_node_cell"  BY <1>1 DEF Place
<1>3. CASE h.block_num = -1
  <2> DEFINE type == "NODE"
             ret == "create_node_cell"
  <2>1. allocate_new_block(type, ret)  BY <1>3 DEF create_node_cell
  <2>2. type \in Pool /\ type \notin CellKind /\ ret \notin UpdatingPCs
    BY DEF Pool, CellKind, UpdatingPCs
  <2>3. exec'.jobs = exec.jobs  BY <1>1, <2>1 DEF allocate_new_block, UpdateControlThen, exec_type
  <2>4. DiskCells'  BY <1>2, <2>3, AddsNodes
  <2> QED  BY <1>1, <2>1, <2>2, <2>4, AllocateCells
<1>4. CASE Wild  BY <1>4, WildCells
<1>5. CASE h.block_num # -1 /\ IsNode(file, h) /\ ~ Wild
  <2> HIDE DEF after
  <2>1. /\ file' = WriteNode(file, h, new) /\ disk' \in {file, file'}
        /\ IF h.block_num = 0 THEN ctrl_block' = [file'[0] EXCEPT !.head["NODE"] = after]
           ELSE ctrl_block' = [ctrl_block EXCEPT !.head["NODE"] = after]
        /\ exec' = [exec EXCEPT !.pc = "update_control_block", !.ret = "next",
                                !.matched = {h}, !.left = {h}]
    BY <1>5 DEF create_node_cell, after, AllFlushed, LastWriteUnflushed
  <2>2. new \in node_cell /\ new.is_empty = 1 /\ \A kind \in CellKind : new.last[kind] = Null
    BY ZeroTypes DEF node_cell, ZeroNode
  <2> HIDE DEF new
  <2>3. /\ StringsKept(file, file')
        /\ \A kind \in CellKind : SameCells(file, file', kind)
        /\ \A kind \in CellKind : \A m \in cell_ptr : m # h => ChainKept(file, file', kind, m)
        /\ NodeAt(file', h) = new
    BY <1>1, <1>5, <2>1, <2>2, NodeRewritten
  <2>4. ~ InUse(file, h)
    <3>1. PoolSound(file, h)  BY <1>1 DEF NInv, MemSound
    <3> QED  BY <1>5, <3>1, NodePlace, Apart DEF PoolSound, CanHandOut, FirstUnused
  <2>5. ASSUME NEW kind \in CellKind  PROVE ChainsKept(file, file', kind)
    <3>1. ChainKept(file, file', kind, h)  BY <2>2, <2>3, <2>4 DEF ChainKept, LastOf
    <3> QED  BY <2>3, <3>1 DEF ChainsKept
  <2>6. Untouched(file, file')  BY <2>3, <2>5 DEF Untouched
  <2>7. file'[0] \in control_block  BY <1>1, <1>5, <2>1, <2>2, NodeWrite
  <2>8. file'[0].head = ctrl_block.head
    BY <1>1, <1>5, <2>1, <2>2, NodeWritten DEF CInv, ControlCoherent
  <2>9. ASSUME NEW kind \in CellKind  PROVE ctrl_block'.head[kind] = ctrl_block.head[kind]
    <3> DEFINE heads == ctrl_block.head
    <3>1. kind # "NODE" /\ heads \in [Pool -> cell_ptr] /\ kind \in Pool
      BY <1>1 DEF CellKind, Pool, control_block
    <3>2. CASE h.block_num = 0
      <4>1. ctrl_block'.head = [heads EXCEPT !["NODE"] = after]
        BY <2>1, <2>7, <2>8, <3>2 DEF control_block
      <4> HIDE DEF heads
      <4>2. ctrl_block'.head[kind] = heads[kind]  BY <3>1, <4>1
      <4> QED  BY <4>2 DEF heads
    <3>3. CASE h.block_num # 0
      <4>1. ctrl_block'.head = [heads EXCEPT !["NODE"] = after]
        BY <1>1, <2>1, <3>3 DEF control_block
      <4> HIDE DEF heads
      <4>2. ctrl_block'.head[kind] = heads[kind]  BY <3>1, <4>1
      <4> QED  BY <4>2 DEF heads
    <3> QED  BY <3>2, <3>3
  <2>10. /\ exec'.pc = "update_control_block" /\ exec'.ret = "next" /\ exec'.jobs = exec.jobs
         /\ exec'.strings = exec.strings
    BY <1>1, <2>1 DEF exec_type
  <2>11. Place' = "next"  BY <2>10 DEF Place, Updating
  <2>12. Place' \notin HandPCs  BY <2>11 DEF HandPCs, StringPCs
  <2>13. DiskCells'  BY <1>2, <2>10, AddsNodes
  <2> QED  BY <1>1, <2>1, <2>6, <2>9, <2>10, <2>12, <2>13, UntouchedStep
<1> QED  BY <1>3, <1>4, <1>5 DEF create_node_cell

LEMMA CanDisown ==
  ASSUME NEW o \in Owners, NEW n
  PROVE  \E r \in Owners : Disown(o, r, n)
<1> DEFINE r == [q \in cell_ptr |-> IF o[q] = n THEN Nobody ELSE o[q]]
<1>1. r \in Owners /\ \A q \in cell_ptr : r[q] = IF o[q] = n THEN Nobody ELSE o[q]
  BY OwnersTypes DEF Owners
<1> HIDE DEF r
<1>2. Disown(o, r, n)  BY <1>1 DEF Disown
<1> QED  BY <1>1, <1>2

LEMMA FreeNodeCells ==
  ASSUME CInv, NInv, KInv, free_node
  PROVE  KInv'
<1> DEFINE p == exec.node
           h == ctrl_block.head["NODE"]
           freed == [NodeAt(file, p) EXCEPT !.is_empty = 0, !.last["LABEL"] = h]
<1>1. /\ exec.pc = "free_node" /\ ~ Down /\ ~ Updating /\ exec.jobs # << >>
      /\ exec \in exec_type /\ file \in File /\ p \in cell_ptr /\ h \in cell_ptr
      /\ \A kind \in CellKind : ctrl_block.head[kind] \in cell_ptr
  BY Unfold DEF free_node, Down, Updating, CInv, IInv, ExecOK, InOp, JobPCs, Pool, exec_type
<1>2. CASE Wild  BY <1>2, WildCells
<1>3. CASE IsNode(file, p) /\ ~ Wild
  <2>1. /\ file' = WriteNode(file, p, freed) /\ disk' = file'
        /\ ctrl_block' = [file'[0] EXCEPT !.head["NODE"] = p]
        /\ exec' = [exec EXCEPT !.pc = "update_control_block", !.ret = "next"]
    BY <1>3 DEF free_node, AllFlushed
  <2>2. InUse(file, p)
    BY <1>1 DEF NInv, NodesHeld, AtNode, Place, NodePCs, Updating
  <2>3. freed \in node_cell /\ freed.is_empty = 0
    BY <1>1, <1>3, NodeAtType DEF node_cell, CellKind
  <2> HIDE DEF freed
  <2>4. /\ StringsKept(file, file')
        /\ \A kind \in CellKind : SameCells(file, file', kind)
        /\ \A kind \in CellKind : \A m \in cell_ptr : m # p => ChainKept(file, file', kind, m)
        /\ NodeAt(file', p) = freed
    BY <1>1, <1>3, <2>1, <2>3, NodeRewritten
  <2>5. ~ InUse(file', p)  BY <2>3, <2>4 DEF InUse
  <2>6. file'[0] \in control_block  BY <1>1, <1>3, <2>1, <2>3, NodeWrite
  <2>7. file'[0].head = ctrl_block.head
    BY <1>1, <1>3, <2>1, <2>3, NodeWritten DEF CInv, ControlCoherent
  <2>8. \A kind \in CellKind : /\ ctrl_block'.head[kind] = ctrl_block.head[kind]
                               /\ file'[0].head[kind] = ctrl_block'.head[kind]
    BY <2>1, <2>6, <2>7 DEF control_block, CellKind
  <2>9. /\ exec'.pc = "update_control_block" /\ exec'.ret = "next" /\ exec'.jobs = exec.jobs
        /\ exec'.strings = exec.strings
    BY <1>1, <2>1 DEF exec_type
  <2>10. Place' = "next"  BY <2>9 DEF Place, Updating
  <2>11. Place' \notin HandPCs  BY <2>10 DEF HandPCs, StringPCs
  <2>12. ASSUME NEW kind \in CellKind  PROVE \E r \in Owners : Held(kind, r)'
    <3>1. PICK o \in Owners : Held(kind, o)  BY <1>1 DEF KInv, MemCells, AllHeld
    <3>2. ChainsApart(file, kind, o) /\ PoolApart(file, kind, ctrl_block.head[kind], o)
      BY <3>1 DEF Held, Shared
    <3>3. PICK r \in Owners : Disown(o, r, p)  BY CanDisown
    <3>4. ChainsApart(file', kind, r)
      BY <1>1, <2>2, <2>4, <2>5, <3>2, <3>3, DropNode
    <3>5. PoolApart(file', kind, ctrl_block.head[kind], o)
      <4>1. CellsKept(file, file', kind, o)  BY <2>4, SameCellsKept
      <4> QED  BY <1>1, <3>2, <4>1, PoolApartKept
    <3>6. \A q \in cell_ptr : r[q] = NoRoom <=> o[q] = NoRoom
      <4>1. p # NoRoom  BY <1>3, NodePlace
      <4> QED  BY <3>3, <4>1, OwnersTypes DEF Disown
    <3>7. file' \in File  BY <1>3, <1>1, <2>1, <2>3, WriteNodeType DEF WritesBlock
    <3>8. PoolApart(file', kind, ctrl_block'.head[kind], r)
      BY <1>1, <2>8, <3>5, <3>6, <3>7, SamePool
    <3>9. InHands(kind, r)'  BY <2>11, EmptyHands
    <3>10. Held(kind, r)'  BY <3>4, <3>8, <3>9 DEF Held, Shared
    <3> QED  BY <3>10
  <2>13. AllHeld'  BY <2>12 DEF AllHeld
  <2>14. SoundCells(file')  BY <2>8, <2>13, SoundThen
  <2>15. DiskCells'  BY <2>1, <2>14 DEF DiskCells, SoundCells
  <2>16. StringsHeld'  BY <1>1, <2>4, <2>9, StillStrings DEF KInv
  <2>17. RemovesFirst(exec'.jobs)  BY <2>9 DEF KInv
  <2> QED  BY <2>1, <2>9, <2>13, <2>15, <2>16, <2>17, Together
<1> QED  BY <1>2, <1>3 DEF free_node

-----------------------------------------------------------------------------
(* The loops, which only read.                                             *)
LEMMA ReadingCells ==
  ASSUME CInv, KInv, ~ Down, UNCHANGED <<file, ctrl_block>>, exec'.pc # "down",
         disk' \in {disk, file}, DiskCells', exec'.strings \in {exec.strings, << >>},
         RemovesFirst(exec'.jobs),
         \A kind \in CellKind : \A o \in Owners :
           Held(kind, o) /\ exec'.jobs # << >> /\ job'.kind = kind => InHands(kind, o)'
  PROVE  KInv'
<1>1. ASSUME NEW kind \in CellKind  PROVE \E o \in Owners : Held(kind, o)'
  <2>1. PICK o \in Owners : Held(kind, o)  BY DEF KInv, MemCells, AllHeld
  <2>2. Shared(file, kind, ctrl_block.head[kind], o)  BY <2>1 DEF Held
  <2>3. Held(kind, o)'  BY <2>1, <2>2 DEF Held
  <2> QED  BY <2>3
<1>2. AllHeld'  BY <1>1 DEF AllHeld
<1>3. StringsKept(file, file')  BY DEF StringsKept
<1>4. StringsHeld'  BY <1>3, StillStrings DEF KInv
<1> QED  BY <1>2, <1>4, Together

LEMMA ReadDisk ==
  ASSUME CInv, KInv, ~ Down, ~ Updating, UNCHANGED <<file, ctrl_block>>, disk' = file
  PROVE  DiskCells'
BY SoundMeanwhile DEF DiskCells, SoundCells

LEMMA NextNodeCells ==
  ASSUME CInv, NInv, KInv, next_node
  PROVE  KInv'
<1>1. /\ exec \in exec_type /\ ~ Down /\ ~ Updating /\ exec.jobs # << >>
      /\ disk' = file /\ UNCHANGED <<file, ctrl_block>>
  BY Unfold DEF CInv, next_node, Down, Updating, ReadOnly
<1> DEFINE texts == IF job.op = "add" THEN Texts(job) ELSE << >>
           strings == IF job.op = "relate" THEN exec.strings ELSE << >>
           current(p) == IF job.op \in {"put", "remove"}
                         THEN LastOf(file, job.kind, p) ELSE Null
<1>2. PICK p \in exec.left :
        \/ exec' = [exec EXCEPT
             !.pc = Entry(job.op), !.left = @ \ {p}, !.node = p, !.prev = p,
             !.texts = texts, !.strings = strings,
             !.following = Null, !.has_changed = FALSE,
             !.others = exec.seconds, !.lost_place = FALSE, !.current = current(p)]
        \/ exec' = [exec EXCEPT !.pc = "wild"]
  BY DEF next_node, LastOf
<1>3. DiskCells'  BY <1>1, ReadDisk
<1>4. CASE exec' = [exec EXCEPT !.pc = "wild"]
  <2>1. Wild \/ exec'.pc = "wild"  BY <1>1, <1>4 DEF exec_type
  <2>2. exec'.pc = "wild" /\ exec'.jobs = exec.jobs /\ exec'.strings = exec.strings
    BY <1>1, <1>4 DEF exec_type
  <2>3. Place' \notin HandPCs  BY <2>2 DEF Place, Updating, HandPCs, StringPCs
  <2>4. RemovesFirst(exec'.jobs)  BY <2>2 DEF KInv
  <2>5. \A kind \in CellKind : \A o \in Owners : InHands(kind, o)'  BY <2>3, EmptyHands
  <2> QED  BY <1>1, <1>3, <2>2, <2>4, <2>5, ReadingCells
<1>5. CASE exec' # [exec EXCEPT !.pc = "wild"]
  <2> HIDE DEF texts, strings, current
  <2>1. /\ exec'.pc = Entry(job.op) /\ exec'.node = p /\ exec'.prev = p
        /\ exec'.jobs = exec.jobs /\ exec'.strings = strings /\ exec'.has_changed = FALSE
        /\ exec'.current = current(p)
    BY <1>1, <1>2, <1>5, ZenonT(40) DEF exec_type
  <2>2. job.op \in {"add", "put", "relate", "remove", "free"} /\ job' = job
    BY <1>1, <2>1, JobType DEF exec_type, job
  <2>3. /\ Entry(job.op) \in {"create_string_cell", "find_node_attribute", "remove",
                              "next_second", "free_node"}
        /\ Entry(job.op) = "create_string_cell" => job.op = "add"
        /\ Entry(job.op) \in {"find_node_attribute", "remove"} => job.op \in {"put", "remove"}
    BY <2>2 DEF Entry
  <2>4. Place' = Entry(job.op) /\ exec'.pc # "down"  BY <2>1, <2>3 DEF Place, Updating
  <2>5. InUse(file, p) /\ p \in cell_ptr  BY <1>1 DEF NInv, NodesHeld, exec_type
  <2>6. ASSUME NEW kind \in CellKind, NEW o \in Owners, Held(kind, o), job'.kind = kind
        PROVE  InHands(kind, o)'
    <3>1. LastOf(file, kind, p) = Null \/ o[LastOf(file, kind, p)] = p
      BY <2>5, <2>6 DEF Held, Shared, ChainsApart, ChainBegins
    <3>2. CASE Entry(job.op) = "create_string_cell"
      <4>1. exec'.current = Null  BY <2>1, <2>3, <3>2 DEF current
      <4> QED  BY <2>4, <3>2, <4>1 DEF InHands, OfItsNode
    <3>3. CASE Entry(job.op) \in {"find_node_attribute", "remove"}
      <4>1. exec'.current = LastOf(file, kind, p)  BY <2>1, <2>2, <2>3, <2>6, <3>3 DEF current
      <4>2. OfItsNode(o, exec.current)'  BY <2>1, <3>1, <4>1 DEF OfItsNode
      <4>3. LedFrom(kind, o)'  BY <1>1, <2>1, <4>1 DEF LedFrom
      <4> QED  BY <2>1, <2>4, <3>3, <4>2, <4>3 DEF InHands
    <3>4. CASE Entry(job.op) \in {"next_second", "free_node"}
      <4>1. Place' \notin HandPCs  BY <2>4, <3>4 DEF HandPCs, StringPCs
      <4> QED  BY <4>1, EmptyHands
    <3> QED  BY <2>3, <3>2, <3>3, <3>4
  <2>7. exec'.strings \in {exec.strings, << >>}  BY <2>1 DEF strings
  <2>8. RemovesFirst(exec'.jobs)  BY <2>1 DEF KInv
  <2> QED  BY <1>1, <1>3, <2>4, <2>6, <2>7, <2>8, ReadingCells
<1> QED  BY <1>4, <1>5

LEMMA NextJobCells ==
  ASSUME CInv, KInv, next_job
  PROVE  KInv'
<1> DEFINE jobs == exec.jobs
           rest == Tail(jobs)
<1>1. /\ exec \in exec_type /\ ~ Down /\ jobs # << >> /\ jobs \in Seq(Job)
      /\ UNCHANGED <<file, disk, ctrl_block>>
      /\ exec'.pc = "next" /\ exec'.jobs = rest /\ exec'.strings = exec.strings
  BY Unfold DEF CInv, next_job, Down, exec_type
<1>2. Place' \notin HandPCs  BY <1>1 DEF Place, Updating, HandPCs, StringPCs
<1>3. RemovesFirst(jobs)  BY DEF KInv
<1> HIDE DEF jobs
<1>4. /\ Len(rest) = Len(jobs) - 1 /\ Len(jobs) \in Nat
      /\ \A i \in 1 .. Len(rest) : rest[i] = jobs[i + 1]
  BY <1>1
<1>5. RemovesFirst(exec'.jobs)
  <2>1. \A i \in 1 .. Len(rest) : i + 1 \in 1 .. Len(jobs)  BY <1>4
  <2>2. ASSUME NEW i \in 1 .. Len(rest), NEW j \in 1 .. Len(rest), i < j, rest[j].op = "remove"
        PROVE  rest[i].op = "remove"
    <3>1. i + 1 < j + 1 /\ i + 1 \in 1 .. Len(jobs) /\ j + 1 \in 1 .. Len(jobs)
      BY <1>4, <2>1, <2>2
    <3>2. jobs[j + 1].op = "remove"  BY <1>4, <2>2
    <3>3. jobs[i + 1].op = "remove"  BY <1>3, <3>1, <3>2 DEF RemovesFirst
    <3> QED  BY <1>4, <3>3
  <2> HIDE DEF rest
  <2> QED  BY <1>1, <2>2 DEF RemovesFirst
<1>6. DiskCells'
  <2> SUFFICES ASSUME rest # << >>, Head(rest).op = "remove"
               PROVE  SoundCells(disk') /\ SoundCells(file')
    BY <1>1 DEF DiskCells, SoundCells, job
  <2>1. rest \in Seq(Job) /\ Head(rest) = jobs[2] /\ Len(jobs) >= 2  BY <1>1, <1>4
  <2>2. jobs[1].op = "remove"  BY <1>3, <1>4, <2>1 DEF RemovesFirst
  <2>3. job.op = "remove"  BY <1>1, <2>2 DEF job, jobs
  <2> QED  BY <1>1, <2>3 DEF KInv, DiskCells, SoundCells, jobs
<1>7. \A kind \in CellKind : \A o \in Owners : InHands(kind, o)'  BY <1>2, EmptyHands
<1> QED  BY <1>1, <1>5, <1>6, <1>7, ReadingCells

LEMMA LoopCells ==
  ASSUME CInv, RelateInv, KInv, respond \/ next_second
  PROVE  KInv'
<1>1. /\ exec \in exec_type /\ ~ Down /\ UNCHANGED <<file, disk, ctrl_block>>
  BY Unfold DEF CInv, respond, next_second, Down
<1>2. CASE respond
  <2>1. exec'.pc = "idle" /\ exec'.jobs = << >> /\ exec'.strings = << >>
    BY <1>2 DEF respond, Idle
  <2>2. DiskCells' /\ RemovesFirst(exec'.jobs)  BY <2>1 DEF DiskCells, RemovesFirst
  <2> QED  BY <1>1, <2>1, <2>2, ReadingCells
<1>3. CASE next_second
  <2>1. /\ exec.pc = "next_second" /\ exec'.jobs = exec.jobs /\ exec'.strings = exec.strings
        /\ exec'.pc \in {"next", "create_cell"}
    BY <1>1, <1>3 DEF next_second, exec_type
  <2>2. Place' \notin HandPCs  BY <2>1 DEF Place, Updating, HandPCs, StringPCs
  <2>3. job'.op = "relate"  BY <2>1 DEF RelateInv, Place, Updating, job
  <2>4. DiskCells'  BY <2>3, NoRemoval
  <2>5. \A kind \in CellKind : \A o \in Owners : InHands(kind, o)'  BY <2>2, EmptyHands
  <2>6. RemovesFirst(exec'.jobs)  BY <2>1 DEF KInv
  <2> QED  BY <1>1, <2>1, <2>4, <2>5, <2>6, ReadingCells
<1> QED  BY <1>2, <1>3

(* What a cell of the node's chain leads to is of the node too.            *)
LEMMA PrevOfNodes ==
  ASSUME NEW f, NEW kind, NEW o, NEW n, InUse(f, n), NEW c \in cell_ptr,
         ChainsApart(f, kind, o), o[c] = n
  PROVE  /\ OfNode(o, c) /\ IsCell(f, kind, c) /\ Spelled(f, kind, c)
         /\ PrevOf(f, c) = Null \/ o[PrevOf(f, c)] = n
<1>1. n # NoRoom /\ n # Nobody  BY NodePlace DEF InUse
<1>2. OfNode(o, c)  BY <1>1 DEF OfNode
<1> QED  BY <1>2 DEF ChainsApart, ChainGoesOn

LEMMA FindAttributeCells ==
  ASSUME CInv, NInv, KInv, find_node_attribute
  PROVE  KInv'
<1>1. /\ exec \in exec_type /\ ~ Down /\ ~ Updating /\ exec.pc = "find_node_attribute"
      /\ disk' = file /\ UNCHANGED <<file, ctrl_block>> /\ Place = "find_node_attribute"
      /\ exec.current \in cell_ptr
  BY Unfold DEF CInv, find_node_attribute, Down, Updating, ReadOnly, Place, exec_type
<1>2. InUse(file, exec.node)  BY <1>1 DEF CInv, IInv, ExecOK, InOp, JobPCs, NInv, NodesHeld, AtNode, NodePCs
<1>3. /\ exec'.jobs = exec.jobs /\ exec'.strings = exec.strings /\ exec'.node = exec.node
      /\ exec'.has_changed = exec.has_changed /\ exec'.prev = exec.prev
      /\ \/ exec'.pc = "create_string_cell" /\ exec'.current \in {Null, exec.current}
         \/ exec'.pc = "wild"
         \/ exec'.pc = "find_node_attribute" /\ exec'.current = PrevOf(file, exec.current)
            /\ exec.current.block_num # 0
  BY <1>1, ZenonT(40) DEF find_node_attribute, exec_type, PrevOf
<1>4. exec.current.block_num # 0 => exec.current # Null  BY DEF Null, Ptr
<1>5. ASSUME NEW kind \in CellKind, NEW o \in Owners, Held(kind, o), exec.jobs # << >>, job.kind = kind
      PROVE  InHands(kind, o)'
  <2>1. OfItsNode(o, exec.current) /\ ChainsApart(file, kind, o)
    BY <1>1, <1>5 DEF Held, InHands, Shared
  <2>2. CASE exec'.pc = "create_string_cell"
    <3>1. OfItsNode(o, exec.current)'  BY <1>3, <2>1, <2>2 DEF OfItsNode
    <3> QED  BY <2>2, <3>1 DEF InHands, Place, Updating
  <2>3. CASE exec'.pc = "wild"
    <3>1. Place' \notin HandPCs  BY <2>3 DEF Place, Updating, HandPCs, StringPCs
    <3> QED  BY <3>1, EmptyHands
  <2>4. CASE exec'.pc = "find_node_attribute"
    <3>1. exec.current # Null /\ exec'.current = PrevOf(file, exec.current)
      BY <1>3, <1>4, <2>4
    <3>2. o[exec.current] = exec.node  BY <2>1, <3>1 DEF OfItsNode
    <3>3. OfItsNode(o, PrevOf(file, exec.current))
      BY <1>1, <1>2, <2>1, <3>2, PrevOfNodes DEF OfItsNode
    <3>4. OfItsNode(o, exec.current)'  BY <1>3, <3>1, <3>3 DEF OfItsNode
    <3> QED  BY <2>4, <3>4 DEF InHands, Place, Updating, StringPCs
  <2> QED  BY <1>3, <2>2, <2>3, <2>4
<1>6. DiskCells'  BY <1>1, ReadDisk
<1>7. RemovesFirst(exec'.jobs)  BY <1>3 DEF KInv
<1>8. job' = job  BY <1>3 DEF job
<1> QED  BY <1>1, <1>3, <1>5, <1>6, <1>7, <1>8, ReadingCells

-----------------------------------------------------------------------------
(* Strings stored.                                                         *)
LEMMA AddsCells ==
  ASSUME RelateInv, Place \in OfCells, exec'.jobs = exec.jobs
  PROVE  DiskCells'
<1>1. job.op # "remove"  BY DEF RelateInv, OfCells
<1>2. job' = job  BY DEF job
<1> QED  BY <1>1, <1>2, NoRemoval

LEMMA StoreCells ==
  ASSUME CInv, RelateInv, KInv, exec.pc \in StringPCs, NEW p \in cell_ptr, p.block_num \in Block,
         file[p.block_num].type = "STRING", p.offset \in 0 .. STRING_DATA - 1,
         file' = WriteString(file, p, Head(exec.texts)),
         \A kind \in CellKind : ctrl_block'.head[kind] = ctrl_block.head[kind],
         StringDone(p), LastWriteUnflushed
  PROVE  KInv'
<1>1. ~ Down /\ ~ Updating /\ exec \in exec_type /\ file \in File
      /\ \A kind \in CellKind : ctrl_block.head[kind] \in cell_ptr
  BY Unfold DEF Down, StringPCs, Updating, CInv, Pool
<1>2. Head(exec.texts) \in String
  <2>1. exec.texts # << >> /\ exec.texts \in Seq(String)
    BY Unfold DEF CInv, IInv, ExecOK, InOp, exec_type
  <2> QED  BY <2>1
<1>3. Untouched(file, file') /\ IsString(file', p)  BY <1>1, <1>2, StringWritten
<1>4. PICK ret \in {"create_string_cell", "next", "write_value", "create_cell"} :
        /\ exec' = [exec EXCEPT !.pc = "update_control_block", !.strings = Append(@, p),
                                !.texts = Tail(@), !.ret = ret]
        /\ ret = "write_value" => exec.current # Null
  BY DEF StringDone
<1>5. /\ exec'.jobs = exec.jobs /\ exec'.node = exec.node /\ exec'.current = exec.current
      /\ exec'.pc = "update_control_block" /\ exec'.ret = ret
      /\ exec'.strings = Append(exec.strings, p) /\ exec.strings \in Seq(cell_ptr)
  BY <1>1, <1>4 DEF exec_type
<1>6. Place' = ret /\ Place = exec.pc /\ job' = job
  BY <1>1, <1>5 DEF Place, Updating, job
<1>7. ASSUME NEW kind \in CellKind  PROVE \E o \in Owners : Held(kind, o)'
  <2>1. PICK o \in Owners : Held(kind, o)  BY <1>1 DEF KInv, MemCells, AllHeld
  <2>2. Shared(file', kind, ctrl_block'.head[kind], o)
    BY <1>1, <1>3, <2>1, StillShared DEF Held, Untouched
  <2>3. ASSUME exec.jobs # << >>, job.kind = kind  PROVE InHands(kind, o)'
    <3>1. OfItsNode(o, exec.current)  BY <1>6, <2>1, <2>3 DEF Held, InHands
    <3>2. OfItsNode(o, exec.current)'  BY <1>5, <3>1 DEF OfItsNode
    <3>3. ret = "write_value" => exec'.current # Null  BY <1>4, <1>5
    <3> QED  BY <1>6, <3>2, <3>3 DEF InHands
  <2>4. Held(kind, o)'  BY <1>5, <1>6, <2>2, <2>3 DEF Held
  <2> QED  BY <2>4
<1>8. AllHeld'  BY <1>7 DEF AllHeld
<1>9. StringsHeld'
  <2> DEFINE s == exec.strings
  <2>1. /\ Len(Append(s, p)) = Len(s) + 1 /\ Len(s) \in Nat
        /\ \A i \in 1 .. Len(s) + 1 : Append(s, p)[i] = IF i = Len(s) + 1 THEN p ELSE s[i]
    BY <1>5
  <2>2. \A i \in 1 .. Len(s) : IsString(file', s[i])
    BY <1>1, <1>3 DEF KInv, StringsHeld, Untouched, StringsKept
  <2> HIDE DEF s
  <2>3. \A i \in 1 .. Len(Append(s, p)) : IsString(file', Append(s, p)[i])
    <3> SUFFICES ASSUME NEW i \in 1 .. Len(s) + 1  PROVE IsString(file', Append(s, p)[i])
      BY <2>1
    <3>1. CASE i = Len(s) + 1  BY <1>3, <2>1, <3>1
    <3>2. CASE i # Len(s) + 1
      <4>1. i \in 1 .. Len(s)  BY <2>1, <3>2
      <4> QED  BY <2>1, <2>2, <3>2, <4>1
    <3> QED  BY <3>1, <3>2
  <2> QED  BY <1>5, <2>3 DEF StringsHeld, s
<1>10. DiskCells'  BY <1>5, <1>6, AddsCells DEF OfCells
<1>11. RemovesFirst(exec'.jobs)  BY <1>5 DEF KInv
<1> QED  BY <1>5, <1>8, <1>9, <1>10, <1>11, Together DEF LastWriteUnflushed

LEMMA CreateStringCells ==
  ASSUME CInv, RelateInv, BInv, NInv, KInv, create_string_cell \/ string_in_new_block
  PROVE  KInv'
<1> DEFINE h == ctrl_block.head["STRING"]
           first == Ptr(h.block_num, 0)
           str_length == strlen[Head(exec.texts)]
<1>1. exec.pc \in StringPCs /\ ~ Down /\ ~ Updating /\ Place = exec.pc
  BY DEF create_string_cell, string_in_new_block, StringPCs, Down, Updating, Place
<1>2. /\ ctrl_block \in control_block /\ exec \in exec_type
      /\ h \in cell_ptr /\ first \in cell_ptr
  <2>1. ctrl_block \in control_block /\ exec \in exec_type /\ h \in cell_ptr
    BY Unfold DEF CInv, Pool
  <2> QED  BY <2>1 DEF cell_ptr, Ptr
<1>3. \/ \E ret \in StringPCs : allocate_new_block("STRING", ret)
      \/ Wild
      \/ \E p \in {h, first} : \E offset :
           /\ Fits(p, str_length)
           /\ file' = WriteString(file, p, Head(exec.texts))
           /\ ctrl_block' = [ctrl_block EXCEPT !.head["STRING"].offset = offset]
           /\ StringDone(p)
           /\ LastWriteUnflushed
  <2> HIDE DEF str_length
  <2>1. CASE create_string_cell
    BY <2>1 DEF create_string_cell, StringPCs, str_length
  <2>2. CASE string_in_new_block
    BY <2>2 DEF string_in_new_block, StringPCs, str_length
  <2> QED  BY <2>1, <2>2
<1>4. ASSUME NEW ret \in StringPCs, allocate_new_block("STRING", ret)  PROVE KInv'
  <2> DEFINE type == "STRING"
  <2>1. /\ type \in Pool /\ type \notin CellKind /\ allocate_new_block(type, ret)
        /\ ret \notin UpdatingPCs /\ type = "STRING"
    BY <1>4 DEF Pool, CellKind, StringPCs, UpdatingPCs
  <2> HIDE DEF type
  <2>2. exec'.jobs = exec.jobs  BY <1>2, <2>1 DEF allocate_new_block, UpdateControlThen, exec_type
  <2>3. DiskCells'  BY <1>1, <2>2, AddsCells DEF OfCells
  <2> QED  BY <1>1, <2>1, <2>3, AllocateCells
<1>5. CASE Wild  BY <1>5, WildCells
<1>6. ASSUME NEW p \in {h, first}, NEW offset, Fits(p, str_length),
             file' = WriteString(file, p, Head(exec.texts)),
             ctrl_block' = [ctrl_block EXCEPT !.head["STRING"].offset = offset],
             StringDone(p), LastWriteUnflushed
      PROVE  KInv'
  <2>1. \A kind \in CellKind : ctrl_block'.head[kind] = ctrl_block.head[kind]
    BY <1>2, <1>6 DEF control_block, Pool, CellKind
  <2>2. p \in cell_ptr  BY <1>2
  <2>3. str_length \in Nat
    <3>1. exec.texts # << >> /\ exec.texts \in Seq(String)
      BY <1>1, <1>2 DEF CInv, IInv, ExecOK, InOp, exec_type
    <3> QED  BY <3>1, LayoutAssumption
  <2> HIDE DEF str_length, h, first
  <2>4. p.offset \in 0 .. STRING_DATA - 1
    BY <1>6, <2>2, <2>3, LayoutAssumption DEF Fits, cell_ptr
  <2> QED  BY <1>1, <1>6, <2>1, <2>2, <2>4, StoreCells DEF Fits
<1> QED  BY <1>3, <1>4, <1>5, <1>6

-----------------------------------------------------------------------------
(* Cells put into chains.                                                  *)
LEMMA CreateCellCells ==
  ASSUME CInv, RelateInv, BInv, NInv, KInv, NEW kind \in CellKind, create_cell(kind)
  PROVE  KInv'
<1> DEFINE h == ctrl_block.head[kind]
           new == [prev  |-> NodeAt(file, exec.node).last[kind],
                   name  |-> exec.strings[1],
                   value |-> CASE kind = "ATTRIBUTE" -> exec.strings[2]
                               [] kind = "RELATION"  -> exec.second
                               [] OTHER              -> Null]
           after == HeadAfter(h, PrevOf(file, h), CellsIn(kind))
<1>1. /\ exec.pc = "create_cell" /\ ~ Down /\ ~ Updating /\ Place = "create_cell"
      /\ exec.jobs # << >> /\ job.kind = kind
  BY DEF create_cell, Down, Updating, Place, CInv, IInv, ExecOK, InOp, JobPCs
<1>2. /\ ctrl_block \in control_block /\ exec \in exec_type /\ file \in File
      /\ exec.node \in cell_ptr /\ h \in cell_ptr
      /\ \A k \in CellKind : ctrl_block.head[k] \in cell_ptr
  BY Unfold DEF CInv, Pool, exec_type
<1>3. \/ h.block_num = -1 /\ allocate_new_block(kind, "create_cell")
      \/ Wild
      \/ /\ IsCell(file, kind, h) /\ IsNode(file, exec.node)
         /\ file' = WriteCell(file, h, new)
         /\ ctrl_block' = [ctrl_block EXCEPT !.head[kind] = after]
         /\ exec' = [exec EXCEPT !.pc = "update_control_block", !.ret = "update_node",
                                 !.current = h]
         /\ LastWriteUnflushed
  BY DEF create_cell, PrevOf
<1>4. CASE h.block_num = -1 /\ allocate_new_block(kind, "create_cell")
  <2> DEFINE ret == "create_cell"
  <2>1. kind \in Pool /\ ret \notin UpdatingPCs  BY DEF Pool, UpdatingPCs
  <2>2. exec'.jobs = exec.jobs  BY <1>2, <1>4 DEF allocate_new_block, UpdateControlThen, exec_type
  <2>3. DiskCells'  BY <1>1, <2>2, AddsCells DEF OfCells
  <2> QED  BY <1>1, <1>4, <2>1, <2>3, AllocateCells
<1>5. CASE Wild  BY <1>5, WildCells
<1>6. ASSUME IsCell(file, kind, h), IsNode(file, exec.node), file' = WriteCell(file, h, new),
             ctrl_block' = [ctrl_block EXCEPT !.head[kind] = after],
             exec' = [exec EXCEPT !.pc = "update_control_block", !.ret = "update_node",
                                  !.current = h],
             LastWriteUnflushed
      PROVE  KInv'
  <2>1. /\ Len(exec.strings) >= (IF kind = "ATTRIBUTE" THEN 2 ELSE 1)
        /\ exec.strings \in Seq(cell_ptr) /\ Len(exec.strings) \in Nat
        /\ exec.second \in cell_ptr
    BY <1>1, <1>2 DEF CInv, IInv, ExecOK, InOp, CellTexts, exec_type
  <2>2. /\ 1 \in 1 .. Len(exec.strings)
        /\ kind = "ATTRIBUTE" => 2 \in 1 .. Len(exec.strings)
    BY <2>1
  <2>3. /\ exec.strings[1] \in cell_ptr
        /\ kind = "ATTRIBUTE" => exec.strings[2] \in cell_ptr
    BY <2>1, <2>2
  <2>4. /\ new \in cell /\ new.prev = LastOf(file, kind, exec.node)
        /\ new.name = exec.strings[1] /\ (kind = "ATTRIBUTE" => new.value = exec.strings[2])
    <3>1. LastOf(file, kind, exec.node) \in cell_ptr  BY <1>2, <1>6, LastType
    <3> QED  BY <2>1, <2>3, <3>1, ZeroTypes DEF cell, LastOf, CellKind
  <2> HIDE DEF new, after
  <2>5. /\ StringsKept(file, file')
        /\ \A k \in CellKind : ChainsKept(file, file', k)
        /\ \A k \in CellKind \ {kind} : SameCells(file, file', k)
        /\ \A q : IsCell(file', kind, q) <=> IsCell(file, kind, q)
        /\ CellAt(file', h) = new
        /\ \A q \in cell_ptr : q # h /\ IsCell(file, kind, q) =>
             /\ CellAt(file', q) = CellAt(file, q)
             /\ Spelled(file, kind, q) => Spelled(file', kind, q)
    BY <1>2, <1>6, <2>4, CellWritten
  <2>6. /\ exec'.jobs = exec.jobs /\ exec'.node = exec.node /\ exec'.current = h
        /\ exec'.pc = "update_control_block" /\ exec'.ret = "update_node"
        /\ exec'.strings = exec.strings
    BY <1>2, <1>6 DEF exec_type
  <2>7. Place' = "update_node" /\ job' = job  BY <2>6 DEF Place, Updating, job
  <2>8. /\ ctrl_block'.head[kind] = after
        /\ \A k \in CellKind \ {kind} : ctrl_block'.head[k] = ctrl_block.head[k]
    BY <1>2, <1>6 DEF control_block, Pool
  <2> HIDE DEF h
  <2>9. InUse(file, exec.node)
    BY <1>1 DEF NInv, NodesHeld, AtNode, NodePCs
  <2>10. Spelled(file', kind, h)
    <3>1. \A i \in 1 .. Len(exec.strings) : IsString(file', exec.strings[i])
      BY <1>1, <2>5 DEF KInv, StringsHeld, StringsKept
    <3> QED  BY <2>2, <2>4, <2>5, <3>1 DEF Spelled
  <2>11. \E r \in Owners : Held(kind, r)'
    <3>1. PICK o \in Owners : Held(kind, o)  BY <1>1 DEF KInv, MemCells, AllHeld
    <3>2. ChainsApart(file, kind, o) /\ PoolApart(file, kind, h, o)
      BY <3>1 DEF Held, Shared, h
    <3>3. PICK r \in Owners : Moves(o, r, h, Nobody)  BY <1>2, OwnersTypes, CanMove
    <3>4. PoolApart(file, kind, after, r) /\ o[h] = NoRoom
      BY <1>2, <1>6, <3>2, <3>3, TakeCell DEF after
    <3>5. ChainsApart(file, kind, r)
      <4>1. \A q \in cell_ptr : OfNode(o, q) \/ OfNode(r, q) => r[q] = o[q]
        BY <3>3, <3>4 DEF Moves, OfNode
      <4> QED  BY <1>2, <3>2, <4>1, SameChains
    <3>6. CellsKept(file, file', kind, r)
      BY <2>5, <3>3 DEF CellsKept, Moves, PrevOf
    <3>7. after \in cell_ptr
      <4>1. CellsIn(kind) \in Nat /\ PrevOf(file, h) \in cell_ptr
        BY <1>2, <1>6, PrevType, LayoutAssumption DEF CellsIn
      <4> QED  BY <1>2, <4>1, HeadAfterType DEF after
    <3>8. ChainsApart(file', kind, r)  BY <2>5, <3>5, <3>6, ApartKept
    <3>9. PoolApart(file', kind, after, r)  BY <1>2, <3>4, <3>6, <3>7, PoolApartKept
    <3>10. InHands(kind, r)'
      <4>1. r[h] = Nobody  BY <3>3 DEF Moves
      <4>2. IsCell(file', kind, h)  BY <1>6, <2>5
      <4>3. PrevOf(file', h) = LastOf(file', kind, exec.node)
        BY <1>2, <2>4, <2>5, <2>9 DEF PrevOf, ChainsKept, ChainKept
      <4> QED  BY <2>6, <2>7, <2>10, <4>1, <4>2, <4>3 DEF InHands, StringPCs
    <3> QED  BY <2>8, <3>8, <3>9, <3>10 DEF Held, Shared
  <2>12. ASSUME NEW k \in CellKind, k # kind  PROVE \E o \in Owners : Held(k, o)'
    <3>1. PICK o \in Owners : Held(k, o)  BY <1>1 DEF KInv, MemCells, AllHeld
    <3>2. Shared(file', k, ctrl_block.head[k], o)
      BY <1>2, <2>5, <2>12, <3>1, StillShared DEF Held
    <3> QED  BY <1>1, <2>6, <2>7, <2>8, <2>12, <3>2 DEF Held
  <2>13. AllHeld'  BY <2>11, <2>12 DEF AllHeld
  <2>14. StringsHeld'  BY <1>1, <2>5, <2>6, StillStrings DEF KInv
  <2>15. DiskCells'  BY <1>1, <2>6, AddsCells DEF OfCells
  <2>16. RemovesFirst(exec'.jobs)  BY <2>6 DEF KInv
  <2> QED  BY <1>6, <2>6, <2>13, <2>14, <2>15, <2>16, Together DEF LastWriteUnflushed
<1> QED  BY <1>3, <1>4, <1>5, <1>6

LEMMA UpdateNodeCells ==
  ASSUME CInv, RelateInv, NInv, KInv, NEW kind \in CellKind, update_node(kind)
  PROVE  KInv'
<1> DEFINE n == exec.node
           c == exec.current
           new == [NodeAt(file, n) EXCEPT !.last[kind] = c]
<1>1. /\ exec.pc = "update_node" /\ ~ Down /\ ~ Updating /\ Place = "update_node"
      /\ exec.jobs # << >> /\ job.kind = kind
  BY DEF update_node, Down, Updating, Place, CInv, IInv, ExecOK, InOp, JobPCs
<1>2. /\ ctrl_block \in control_block /\ exec \in exec_type /\ file \in File
      /\ n \in cell_ptr /\ c \in cell_ptr
      /\ \A k \in CellKind : ctrl_block.head[k] \in cell_ptr
  BY Unfold DEF CInv, Pool, exec_type
<1>3. CASE Wild  BY <1>3, WildCells
<1>4. CASE IsNode(file, n) /\ ~ Wild
  <2>1. /\ file' = WriteNode(file, n, new) /\ ctrl_block' = file'[0] /\ disk' = file'
        /\ \E pc \in {"next", "next_second"} : exec' = [exec EXCEPT !.pc = pc]
    BY <1>4 DEF update_node, AllFlushed
  <2>2. InUse(file, n)  BY <1>1 DEF NInv, NodesHeld, AtNode, NodePCs
  <2>3. /\ new \in node_cell /\ new.is_empty = 1 /\ new.last[kind] = c
        /\ \A k \in CellKind \ {kind} : new.last[k] = NodeAt(file, n).last[k]
    <3>1. NodeAt(file, n) \in node_cell /\ NodeAt(file, n).is_empty = 1
      BY <1>2, <1>4, <2>2, NodeAtType DEF InUse
    <3> QED  BY <1>2, <3>1 DEF node_cell
  <2> HIDE DEF new
  <2>4. /\ StringsKept(file, file')
        /\ \A k \in CellKind : SameCells(file, file', k)
        /\ \A k \in CellKind : \A m \in cell_ptr : m # n => ChainKept(file, file', k, m)
        /\ IsNode(file', n) /\ NodeAt(file', n) = new
    BY <1>2, <1>4, <2>1, <2>3, NodeRewritten
  <2>5. InUse(file', n) /\ LastOf(file', kind, n) = c  BY <2>3, <2>4 DEF InUse, LastOf
  <2>6. ctrl_block'.head = ctrl_block.head
    <3>1. file'[0].head = file[0].head  BY <1>2, <1>4, <2>1, <2>3, NodeWritten
    <3> QED  BY <1>1, <2>1, <3>1 DEF CInv, ControlCoherent
  <2>7. /\ exec'.jobs = exec.jobs /\ exec'.strings = exec.strings
        /\ exec'.pc \in {"next", "next_second"}
    BY <1>2, <2>1 DEF exec_type
  <2>8. Place' \notin HandPCs  BY <2>7 DEF Place, Updating, HandPCs, StringPCs
  <2> HIDE DEF n, c
  <2>9. \E r \in Owners : Held(kind, r)'
    <3>1. PICK o \in Owners : Held(kind, o)  BY <1>1 DEF KInv, MemCells, AllHeld
    <3>2. ChainsApart(file, kind, o) /\ PoolApart(file, kind, ctrl_block.head[kind], o)
      BY <3>1 DEF Held, Shared
    <3>3. /\ o[c] = Nobody /\ IsCell(file, kind, c) /\ Spelled(file, kind, c)
          /\ PrevOf(file, c) = LastOf(file, kind, n)
      BY <1>1, <3>1 DEF Held, InHands, n, c
    <3>4. PICK r \in Owners : Moves(o, r, c, n)  BY <1>2, CanMove
    <3>5. ChainsApart(file', kind, r)
      BY <1>2, <2>2, <2>4, <2>5, <3>2, <3>3, <3>4, LinkCell
    <3>6. PoolApart(file, kind, ctrl_block.head[kind], r)
      <4>1. \A q \in cell_ptr : r[q] = NoRoom <=> o[q] = NoRoom
        BY <1>4, <3>3, <3>4, NodePlace, OwnersTypes DEF Moves, n
      <4> QED  BY <1>2, <3>2, <4>1, SamePool
    <3>7. PoolApart(file', kind, ctrl_block.head[kind], r)
      <4>1. CellsKept(file, file', kind, r)  BY <2>4, SameCellsKept
      <4> QED  BY <1>2, <3>6, <4>1, PoolApartKept
    <3>8. InHands(kind, r)'  BY <2>8, EmptyHands
    <3> QED  BY <2>6, <3>5, <3>7, <3>8 DEF Held, Shared
  <2>10. ASSUME NEW k \in CellKind, k # kind  PROVE \E o \in Owners : Held(k, o)'
    <3>1. PICK o \in Owners : Held(k, o)  BY <1>1 DEF KInv, MemCells, AllHeld
    <3>2. ChainsKept(file, file', k)
      <4>1. ChainKept(file, file', k, n)
        BY <2>2, <2>3, <2>4, <2>5, <2>10 DEF ChainKept, LastOf, n
      <4> QED  BY <2>4, <4>1 DEF ChainsKept
    <3>3. Shared(file', k, ctrl_block.head[k], o)
      BY <1>2, <2>4, <3>1, <3>2, StillShared DEF Held
    <3>4. InHands(k, o)'  BY <2>8, EmptyHands
    <3> QED  BY <2>6, <3>3, <3>4 DEF Held
  <2>11. AllHeld'  BY <2>9, <2>10 DEF AllHeld
  <2>12. StringsHeld'  BY <1>1, <2>4, <2>7, StillStrings DEF KInv
  <2>13. DiskCells'  BY <1>1, <2>7, AddsCells DEF OfCells
  <2>14. RemovesFirst(exec'.jobs)  BY <2>7 DEF KInv
  <2> QED  BY <2>1, <2>7, <2>11, <2>12, <2>13, <2>14, Together
<1> QED  BY <1>3, <1>4 DEF update_node

LEMMA WriteValueCells ==
  ASSUME CInv, NInv, KInv, write_value
  PROVE  KInv'
<1> DEFINE kind == "ATTRIBUTE"
           p == exec.current
           new == [CellAt(file, p) EXCEPT !.value = exec.strings[1]]
<1>1. /\ exec.pc = "write_value" /\ ~ Down /\ ~ Updating /\ exec \in exec_type /\ file \in File
      /\ kind \in CellKind /\ p \in cell_ptr
  BY Unfold DEF write_value, Down, Updating, CInv, CellKind, exec_type
<1>2. CASE Wild  BY <1>2, WildCells
<1>3. CASE ~ Wild
  <2>1. /\ IsCell(file, kind, p) /\ file' = WriteCell(file, p, new)
        /\ exec' = [exec EXCEPT !.pc = "next"] /\ ctrl_block' = ctrl_block /\ disk' = file
    BY <1>3 DEF write_value, LastWriteUnflushed
  <2>2. 1 \in 1 .. Len(exec.strings) /\ exec.strings \in Seq(cell_ptr)
    <3>1. Len(exec.strings) >= 1 /\ exec.strings \in Seq(cell_ptr)
      BY <1>1 DEF CInv, IInv, ExecOK, InOp, exec_type
    <3> QED  BY <3>1
  <2>3. /\ new \in cell /\ new.prev = PrevOf(file, p) /\ new.name = CellAt(file, p).name
        /\ new.value = exec.strings[1]
    <3>1. CellAt(file, p) \in cell /\ exec.strings[1] \in cell_ptr
      BY <1>1, <2>1, <2>2, CellAtType
    <3> QED  BY <3>1 DEF cell, PrevOf
  <2> HIDE DEF kind, new
  <2>4. /\ StringsKept(file, file')
        /\ \A k \in CellKind : ChainsKept(file, file', k)
        /\ \A k \in CellKind \ {kind} : SameCells(file, file', k)
        /\ \A q : IsCell(file', kind, q) <=> IsCell(file, kind, q)
        /\ CellAt(file', p) = new
        /\ \A q \in cell_ptr : q # p /\ IsCell(file, kind, q) =>
             /\ CellAt(file', q) = CellAt(file, q)
             /\ Spelled(file, kind, q) => Spelled(file', kind, q)
    BY <1>1, <2>1, <2>3, CellWritten
  <2>5. Spelled(file, kind, p) => Spelled(file', kind, p)
    <3>1. IsString(file', exec.strings[1])
      BY <1>1, <2>2, <2>4 DEF KInv, StringsHeld, StringsKept
    <3> QED  BY <2>3, <2>4, <3>1 DEF Spelled, StringsKept
  <2>6. SameCells(file, file', kind)
    <3>1. ASSUME NEW q \in cell_ptr, IsCell(file, kind, q)
          PROVE  PrevOf(file', q) = PrevOf(file, q) /\ (Spelled(file, kind, q) => Spelled(file', kind, q))
      BY <2>3, <2>4, <2>5, <3>1 DEF PrevOf
    <3> QED  BY <2>4, <3>1 DEF SameCells
  <2>7. Untouched(file, file')  BY <2>4, <2>6 DEF Untouched
  <2>8. /\ exec'.jobs = exec.jobs /\ exec'.strings = exec.strings /\ exec'.pc = "next"
    BY <1>1, <2>1 DEF exec_type
  <2>9. Place' \notin HandPCs  BY <2>8 DEF Place, Updating, HandPCs, StringPCs
  <2>10. AllHeld'  BY <1>1, <2>1, <2>7, <2>8, <2>9, UntouchedHeld
  <2>11. SoundCells(file')
    <3>1. file'[0] = ctrl_block'
      BY <1>1, <2>1, CellWrite, <2>3 DEF CInv, ControlCoherent
    <3> QED  BY <2>10, <3>1, SoundThen
  <2>12. DiskCells'  BY <1>1, <2>1, <2>11, SoundMeanwhile DEF DiskCells, SoundCells
  <2> QED  BY <1>1, <2>1, <2>7, <2>8, <2>9, <2>12, UntouchedStep
<1> QED  BY <1>2, <1>3

-----------------------------------------------------------------------------
(* Cells taken out of chains.  Nothing leads to the cell but what the walk *)
(* came from.                                                              *)
LedBy(f, kind, o, n, q, c) ==
  \/ q = n /\ LastOf(f, kind, n) = c
  \/ o[q] = n /\ PrevOf(f, q) = c /\ q # c

LEMMA LedHere ==
  ASSUME NEW f, NEW kind, NEW o, ChainsApart(f, kind, o), NEW n, InUse(f, n), NEW q \in cell_ptr,
         NEW c \in cell_ptr, c # Null, o[c] = n, LedBy(f, kind, o, n, q, c)
  PROVE  /\ PrevOf(f, c) # c
         /\ \A m \in cell_ptr : InUse(f, m) /\ LastOf(f, kind, m) = c =>
              m = n /\ q = n /\ LastOf(f, kind, n) = c
         /\ \A x \in cell_ptr : OfNode(o, x) /\ PrevOf(f, x) = c => x = q /\ o[q] = n
<1>1. n # NoRoom /\ n # Nobody  BY NodePlace DEF InUse
<1>2. \A x \in cell_ptr : OfNode(o, x) /\ PrevOf(f, x) = c => o[x] = n /\ ChainGoesOn(f, kind, o, x)
  BY DEF ChainsApart, ChainGoesOn
<1>3. OfNode(o, c)  BY <1>1 DEF OfNode
<1>4. CASE LastOf(f, kind, n) = c
  <2>1. \A x \in cell_ptr : OfNode(o, x) => PrevOf(f, x) # c
    BY <1>2, <1>4 DEF ChainGoesOn
  <2>2. \A m \in cell_ptr : InUse(f, m) /\ LastOf(f, kind, m) = c => m = n
    BY DEF ChainsApart, ChainBegins
  <2>3. q = n
    <3>1. o[q] = n => PrevOf(f, q) # c  BY <1>1, <2>1 DEF OfNode
    <3> QED  BY <3>1 DEF LedBy
  <2> QED  BY <1>3, <1>4, <2>1, <2>2, <2>3
<1>5. CASE LastOf(f, kind, n) # c
  <2>1. o[q] = n /\ PrevOf(f, q) = c /\ q # c  BY <1>5 DEF LedBy
  <2>2. \A m \in cell_ptr : InUse(f, m) => LastOf(f, kind, m) # c
    BY <1>5 DEF ChainsApart, ChainBegins
  <2>3. OfNode(o, q)  BY <1>1, <2>1 DEF OfNode
  <2>4. \A x \in cell_ptr : OfNode(o, x) /\ PrevOf(f, x) = c => x = q
    BY <1>2, <2>1, <2>3 DEF ChainGoesOn
  <2> QED  BY <1>3, <2>1, <2>2, <2>4
<1> QED  BY <1>4, <1>5

(* The node that the walk came from now leads past the cell.               *)
LEMMA UnlinkFirst ==
  ASSUME NEW f \in File, NEW g, NEW kind \in CellKind, NEW o \in Owners, NEW n \in cell_ptr,
         NEW c \in cell_ptr, c # Null, ChainsApart(f, kind, o), InUse(f, n), o[c] = n,
         LastOf(f, kind, n) = c, InUse(g, n), LastOf(g, kind, n) = PrevOf(f, c),
         SameCells(f, g, kind), NEW r, Moves(o, r, c, Nobody),
         \A m \in cell_ptr : m # n => ChainKept(f, g, kind, m) /\ (InUse(g, m) <=> InUse(f, m))
  PROVE  ChainsApart(g, kind, r)
<1>1. /\ \A m \in cell_ptr : InUse(f, m) /\ LastOf(f, kind, m) = c => m = n
      /\ \A x \in cell_ptr : OfNode(o, x) => PrevOf(f, x) # c
  <2>1. LedBy(f, kind, o, n, n, c)  BY DEF LedBy
  <2>2. \A x \in cell_ptr : OfNode(o, x) /\ PrevOf(f, x) = c => ChainGoesOn(f, kind, o, x)
    BY DEF ChainsApart
  <2> QED  BY <2>1, <2>2, LedHere DEF ChainGoesOn
<1>2. OfNode(o, c)  BY NodePlace DEF OfNode, InUse
<1>3. \A m \in cell_ptr : InUse(f, m) <=> InUse(g, m)  OBVIOUS
<1>4. \A m \in cell_ptr : InUse(f, m) => LastOf(g, kind, m) = Past(f, c, LastOf(f, kind, m))
  BY <1>1 DEF Past, ChainKept
<1>5. \A q \in cell_ptr : OfNode(o, q) /\ q # c =>
        /\ IsCell(g, kind, q) /\ Spelled(g, kind, q)
        /\ PrevOf(g, q) = Past(f, c, PrevOf(f, q))
  BY <1>1 DEF Past, SameCells, ChainsApart
<1>6. IsCell(g, kind, Null) => IsCell(f, kind, Null)  BY ZeroTypes DEF SameCells
<1> QED  BY <1>2, <1>3, <1>4, <1>5, <1>6, UnlinkCell

(* The cell that the walk came from does.                                  *)
LEMMA UnlinkNext ==
  ASSUME NEW f \in File, NEW g, NEW kind \in CellKind, NEW o \in Owners, NEW n \in cell_ptr,
         NEW c \in cell_ptr, c # Null, ChainsApart(f, kind, o), InUse(f, n), o[c] = n,
         NEW p \in cell_ptr, o[p] = n, PrevOf(f, p) = c, p # c,
         NEW r, Moves(o, r, c, Nobody), ChainsKept(f, g, kind),
         IsCell(g, kind, Null) => IsCell(f, kind, Null),
         \A m \in cell_ptr : InUse(f, m) <=> InUse(g, m),
         \A q \in cell_ptr : IsCell(f, kind, q) =>
           /\ IsCell(g, kind, q) /\ (Spelled(f, kind, q) => Spelled(g, kind, q))
           /\ PrevOf(g, q) = IF q = p THEN PrevOf(f, c) ELSE PrevOf(f, q)
  PROVE  ChainsApart(g, kind, r)
<1>1. /\ \A m \in cell_ptr : InUse(f, m) => LastOf(f, kind, m) # c
      /\ \A x \in cell_ptr : OfNode(o, x) /\ PrevOf(f, x) = c => x = p
  <2>1. LedBy(f, kind, o, n, p, c)  BY DEF LedBy
  <2>2. n # NoRoom /\ n # Nobody  BY NodePlace DEF InUse
  <2>3. LastOf(f, kind, n) # c
    BY <2>2 DEF ChainsApart, ChainGoesOn, OfNode
  <2> QED  BY <2>1, <2>3, LedHere
<1>2. OfNode(o, c)  BY NodePlace DEF OfNode, InUse
<1>3. \A m \in cell_ptr : InUse(f, m) => LastOf(g, kind, m) = Past(f, c, LastOf(f, kind, m))
  BY <1>1 DEF Past, ChainsKept, ChainKept
<1>4. ASSUME NEW q \in cell_ptr, OfNode(o, q), q # c
      PROVE  /\ IsCell(g, kind, q) /\ Spelled(g, kind, q)
             /\ PrevOf(g, q) = Past(f, c, PrevOf(f, q))
  <2>1. IsCell(f, kind, q) /\ Spelled(f, kind, q)  BY <1>4 DEF ChainsApart
  <2> QED  BY <1>1, <1>4, <2>1 DEF Past
<1> QED  BY <1>2, <1>3, <1>4, UnlinkCell

(* Neither touches the pool.                                               *)
LEMMA UnlinkPool ==
  ASSUME NEW f \in File, NEW g \in File, NEW kind \in CellKind, NEW h \in cell_ptr, NEW o \in Owners,
         PoolApart(f, kind, h, o), NEW p \in cell_ptr, o[p] # NoRoom,
         \A q \in cell_ptr : IsCell(g, kind, q) <=> IsCell(f, kind, q),
         \A q \in cell_ptr : IsCell(f, kind, q) /\ q # p =>
           PrevOf(g, q) = PrevOf(f, q) /\ (Spelled(f, kind, q) => Spelled(g, kind, q)),
         NEW r \in Owners, \A q \in cell_ptr : r[q] = NoRoom <=> o[q] = NoRoom
  PROVE  PoolApart(g, kind, h, r)
<1>1. PICK s \in Owners : Moves(o, s, p, Nobody)  BY OwnersTypes, CanMove
<1>2. \A q \in cell_ptr : /\ s[q] = NoRoom <=> o[q] = NoRoom
                          /\ r[q] = NoRoom <=> s[q] = NoRoom
  BY <1>1, OwnersTypes DEF Moves
<1>3. PoolApart(f, kind, h, s)  BY <1>2, SamePool
<1>4. CellsKept(f, g, kind, s)
  BY <1>1 DEF CellsKept, Moves
<1>5. PoolApart(g, kind, h, s)  BY <1>3, <1>4, PoolApartKept
<1> QED  BY <1>2, <1>5, SamePool

(* Each node loses at most one cell to a walk: the walk goes on from the   *)
(* cell that was freed, and would take a second cell out of the pool's     *)
(* list instead of the node's chain.                                       *)
OneCellEach == exec.pc = "free_cell" => ~ exec.has_changed

LEMMA RemoveCellCells ==
  ASSUME CInv, NInv, KInv, NEW kind \in CellKind, remove_cell(kind), OneCellEach'
  PROVE  KInv'
<1> DEFINE n == exec.node
           q == exec.prev
           p == exec.current
           old == CellAt(file, p)
           node == [NodeAt(file, n) EXCEPT !.last[kind] = old.prev]
           prev_cell == [CellAt(file, q) EXCEPT !.prev = old.prev]
           lost == exec.lost_place \/ (kind = "RELATION" /\ Named(old))
<1>1. /\ exec.pc = "remove" /\ ~ Down /\ ~ Updating /\ Place = "remove"
      /\ exec.jobs # << >> /\ job.kind = kind
  BY DEF remove_cell, Down, Updating, Place, CInv, IInv, ExecOK, InOp, JobPCs
<1>2. /\ ctrl_block \in control_block /\ exec \in exec_type /\ file \in File
      /\ n \in cell_ptr /\ p \in cell_ptr /\ q \in cell_ptr
      /\ \A k \in CellKind : ctrl_block.head[k] \in cell_ptr
  BY Unfold DEF CInv, Pool, exec_type
<1>3. InUse(file, n) /\ n # NoRoom /\ n # Nobody
  <2>1. InUse(file, n)  BY <1>1 DEF NInv, NodesHeld, AtNode, NodePCs
  <2> QED  BY <2>1, NodePlace DEF InUse
<1>4. SoundCells(file)  BY <1>1, SoundMeanwhile
<1>5. ctrl_block = file[0]  BY <1>1 DEF CInv, ControlCoherent
<1>6. CASE exec' = [exec EXCEPT !.pc = "next"] /\ ReadOnly
  <2>1. /\ exec'.jobs = exec.jobs /\ exec'.strings = exec.strings /\ exec'.pc = "next"
    BY <1>2, <1>6 DEF exec_type
  <2>2. Place' \notin HandPCs  BY <2>1 DEF Place, Updating, HandPCs, StringPCs
  <2>3. DiskCells'  BY <1>1, <1>6, ReadDisk DEF ReadOnly
  <2>4. \A k \in CellKind : \A o \in Owners : InHands(k, o)'  BY <2>2, EmptyHands
  <2>5. RemovesFirst(exec'.jobs)  BY <2>1 DEF KInv
  <2> QED  BY <1>1, <1>6, <2>1, <2>3, <2>4, <2>5, ReadingCells DEF ReadOnly
<1>7. CASE Wild  BY <1>7, WildCells
<1>8. CASE disk' = file /\ UNCHANGED file /\ Stop
  <2>1. exec'.pc = "down" /\ exec'.jobs = << >>  BY <1>8 DEF Stop, Idle
  <2>2. SoundCells(file')  BY <1>4, <1>8 DEF SoundCells
  <2> QED  BY <1>8, <2>1, <2>2, StopCells
<1>9. ASSUME p.block_num # 0, IsCell(file, kind, p), IsNode(file, n)
      PROVE  /\ p # Null /\ PrevOf(file, p) \in cell_ptr
             /\ \A o \in Owners : Held(kind, o) =>
                  /\ ChainsApart(file, kind, o) /\ o[p] = n /\ OfItsNode(o, PrevOf(file, p))
                  /\ ~ exec.has_changed => LedBy(file, kind, o, n, q, p) /\ PrevOf(file, p) # p
  <2>1. p # Null /\ PrevOf(file, p) \in cell_ptr
    BY <1>2, <1>9, PrevType DEF Null, Ptr
  <2>2. ASSUME NEW o \in Owners, Held(kind, o)
        PROVE  /\ ChainsApart(file, kind, o) /\ o[p] = n /\ OfItsNode(o, PrevOf(file, p))
               /\ ~ exec.has_changed => LedBy(file, kind, o, n, q, p) /\ PrevOf(file, p) # p
    <3>1. /\ ChainsApart(file, kind, o) /\ OfItsNode(o, p)
          /\ ~ exec.has_changed => LedFrom(kind, o)
      BY <1>1, <2>2 DEF Held, Shared, InHands
    <3>2. o[p] = n  BY <2>1, <3>1 DEF OfItsNode
    <3>3. OfItsNode(o, PrevOf(file, p))
      BY <1>2, <1>3, <3>1, <3>2, PrevOfNodes DEF OfItsNode
    <3>4. ~ exec.has_changed => LedBy(file, kind, o, n, q, p)
      BY <3>1 DEF LedFrom, LedBy
    <3>5. ~ exec.has_changed => PrevOf(file, p) # p
      BY <1>2, <1>3, <2>1, <3>1, <3>2, <3>4, LedHere
    <3> QED  BY <3>1, <3>2, <3>3, <3>4, <3>5
  <2> QED  BY <2>1, <2>2
<1>10. ASSUME p.block_num # 0, IsCell(file, kind, p), IsNode(file, n), ReadOnly,
              exec' = [exec EXCEPT !.prev = p, !.current = old.prev, !.lost_place = lost]
       PROVE  KInv'
  <2>1. /\ exec'.jobs = exec.jobs /\ exec'.strings = exec.strings /\ exec'.pc = "remove"
        /\ exec'.prev = p /\ exec'.current = PrevOf(file, p) /\ exec'.node = n
        /\ exec'.has_changed = exec.has_changed
    BY <1>1, <1>2, <1>10 DEF exec_type, PrevOf
  <2>2. Place' = "remove" /\ job' = job  BY <2>1 DEF Place, Updating, job
  <2>3. DiskCells'  BY <1>1, <1>10, ReadDisk DEF ReadOnly
  <2>4. ASSUME NEW k \in CellKind, NEW o \in Owners, Held(k, o), job'.kind = k
        PROVE  InHands(k, o)'
    <3>1. k = kind  BY <1>1, <2>2, <2>4
    <3>2. OfItsNode(o, exec.current)'
      BY <1>9, <1>10, <2>1, <2>4, <3>1 DEF OfItsNode
    <3>3. ~ exec.has_changed => LedFrom(kind, o)'
      BY <1>9, <1>10, <2>1, <2>4, <3>1 DEF LedFrom, ReadOnly
    <3>4. IsCell(file', kind, exec'.prev)  BY <1>10, <2>1 DEF ReadOnly
    <3> QED  BY <2>1, <2>2, <3>1, <3>2, <3>3, <3>4 DEF InHands, StringPCs
  <2>5. RemovesFirst(exec'.jobs)  BY <2>1 DEF KInv
  <2> QED  BY <1>1, <1>10, <2>1, <2>3, <2>4, <2>5, ReadingCells DEF ReadOnly
<1>11. ASSUME p.block_num # 0, IsCell(file, kind, p), IsNode(file, n),
              IsNode(file, q) \/ IsCell(file, kind, q),
              exec' = [exec EXCEPT !.pc = "free_cell", !.following = old.prev,
                                   !.lost_place = lost],
              IF q.block_num = 0
              THEN /\ file' = WriteNode(file, n, node)
                   /\ ctrl_block' = file'[0]
                   /\ AllFlushed
              ELSE /\ file' = IF IsNode(file, q) THEN WriteNode(file, n, node)
                              ELSE WriteCell(file, q, prev_cell)
                   /\ UNCHANGED ctrl_block
                   /\ LastWriteUnflushed
       PROVE  KInv'
  <2>1. /\ exec'.jobs = exec.jobs /\ exec'.strings = exec.strings /\ exec'.pc = "free_cell"
        /\ exec'.current = p /\ exec'.following = PrevOf(file, p) /\ exec'.node = n
        /\ exec'.has_changed = exec.has_changed
    BY <1>2, <1>11 DEF exec_type, PrevOf
  <2>2. Place' = "free_cell" /\ job' = job /\ disk' \in {file, file'}
    BY <1>11, <2>1 DEF Place, Updating, job, AllFlushed, LastWriteUnflushed
  <2>3. ~ exec.has_changed  BY <2>1 DEF OneCellEach
  <2>4. PICK o \in Owners : Held(kind, o)  BY <1>1 DEF KInv, MemCells, AllHeld
  <2>5. /\ p # Null /\ PrevOf(file, p) \in cell_ptr /\ PrevOf(file, p) # p
        /\ ChainsApart(file, kind, o) /\ o[p] = n /\ OfItsNode(o, PrevOf(file, p))
        /\ LedBy(file, kind, o, n, q, p)
    BY <1>9, <1>11, <2>3, <2>4
  <2>6. PICK r \in Owners : Moves(o, r, p, Nobody)  BY <1>2, OwnersTypes, CanMove
  <2>7. \A x \in cell_ptr : r[x] = NoRoom <=> o[x] = NoRoom
    BY <1>3, <2>5, <2>6, OwnersTypes DEF Moves
  <2>8. ASSUME /\ StringsKept(file, file')
               /\ \A k \in CellKind \ {kind} : SameCells(file, file', k) /\ ChainsKept(file, file', k)
               /\ ChainsApart(file', kind, r) /\ IsCell(file', kind, p)
               /\ PoolApart(file', kind, ctrl_block.head[kind], r)
               /\ file'[0].head = ctrl_block.head /\ ctrl_block'.head = ctrl_block.head
        PROVE  KInv'
    <3>1. InHands(kind, r)'
      <4>1. r[p] = Nobody  BY <2>6 DEF Moves
      <4>2. OfItsNode(r, PrevOf(file, p))  BY <2>5, <2>6 DEF OfItsNode, Moves
      <4>3. OfItsNode(r, exec.following)'  BY <2>1, <4>2 DEF OfItsNode
      <4> QED  BY <2>1, <2>2, <2>8, <4>1, <4>3 DEF InHands, StringPCs
    <3>2. Held(kind, r)'  BY <2>8, <3>1 DEF Held, Shared
    <3>3. ASSUME NEW k \in CellKind, k # kind  PROVE \E s \in Owners : Held(k, s)'
      <4>1. PICK s \in Owners : Held(k, s)  BY <1>1 DEF KInv, MemCells, AllHeld
      <4>2. Shared(file', k, ctrl_block.head[k], s)
        BY <1>2, <2>8, <3>3, <4>1, StillShared DEF Held
      <4> QED  BY <1>1, <2>2, <2>8, <3>3, <4>2 DEF Held
    <3>4. AllHeld'  BY <3>2, <3>3 DEF AllHeld
    <3>5. SoundCells(file')  BY <2>8, <3>4, SoundThen
    <3>6. DiskCells'  BY <1>4, <2>2, <3>5 DEF DiskCells, SoundCells
    <3>7. StringsHeld'  BY <1>1, <2>1, <2>8, StillStrings DEF KInv
    <3>8. RemovesFirst(exec'.jobs)  BY <2>1 DEF KInv
    <3> QED  BY <2>1, <2>2, <3>4, <3>6, <3>7, <3>8, Together
  <2>9. PoolApart(file, kind, ctrl_block.head[kind], o)  BY <2>4 DEF Held, Shared
  <2>10. CASE q = n /\ LastOf(file, kind, n) = p
    <3>1. /\ file' = WriteNode(file, n, node)
          /\ ctrl_block' = file'[0] \/ (ctrl_block' = ctrl_block /\ n.block_num # 0)
      BY <1>11, <2>10
    <3>2. /\ node \in node_cell /\ node.is_empty = 1 /\ node.last[kind] = PrevOf(file, p)
          /\ \A k \in CellKind \ {kind} : node.last[k] = NodeAt(file, n).last[k]
      <4>1. NodeAt(file, n) \in node_cell /\ NodeAt(file, n).is_empty = 1
        BY <1>2, <1>3, NodeAtType DEF InUse
      <4> QED  BY <2>5, <4>1 DEF node_cell, PrevOf
    <3> HIDE DEF node
    <3>3. /\ StringsKept(file, file')
          /\ \A k \in CellKind : SameCells(file, file', k)
          /\ \A k \in CellKind : \A m \in cell_ptr : m # n => ChainKept(file, file', k, m)
          /\ \A m \in cell_ptr : m # n => (InUse(file', m) <=> InUse(file, m))
          /\ IsNode(file', n) /\ NodeAt(file', n) = node
      BY <1>2, <1>11, <3>1, <3>2, NodeRewritten
    <3>4. file'[0].head = ctrl_block.head
      BY <1>2, <1>5, <1>11, <3>1, <3>2, NodeWritten
    <3>5. ctrl_block'.head = ctrl_block.head  BY <3>1, <3>4
    <3>6. InUse(file', n) /\ LastOf(file', kind, n) = PrevOf(file, p)
      BY <3>2, <3>3 DEF InUse, LastOf
    <3>7. file' \in File  BY <1>2, <1>11, <3>1, <3>2, WriteNodeType DEF WritesBlock
    <3>8. ASSUME NEW k \in CellKind \ {kind}  PROVE ChainsKept(file, file', k)
      <4>1. ChainKept(file, file', k, n)
        BY <1>3, <3>2, <3>3, <3>6 DEF ChainKept, LastOf
      <4> QED  BY <3>3, <4>1 DEF ChainsKept
    <3> HIDE DEF n, p, q
    <3>9. ChainsApart(file', kind, r)
      BY <1>2, <1>3, <2>5, <2>6, <2>10, <3>3, <3>6, UnlinkFirst
    <3>10. PoolApart(file', kind, ctrl_block.head[kind], r)
      <4>1. o[p] # NoRoom  BY <1>3, <2>5
      <4>2. SameCells(file, file', kind)  BY <3>3
      <4> QED  BY <1>2, <2>7, <2>9, <3>7, <4>1, <4>2, UnlinkPool DEF SameCells
    <3>11. IsCell(file', kind, p)  BY <1>2, <1>11, <3>3 DEF SameCells
    <3> QED  BY <2>8, <3>3, <3>4, <3>5, <3>8, <3>9, <3>10, <3>11
  <2>11. CASE o[q] = n /\ PrevOf(file, q) = p /\ q # p
    <3>1. IsCell(file, kind, q) /\ ~ IsNode(file, q) /\ q.block_num # 0
      <4>1. IsCell(file, kind, q)
        BY <1>2, <1>3, <2>5, <2>11 DEF ChainsApart, OfNode
      <4>2. kind \notin {"CONTROL", "NODE"} /\ file[0].type = "CONTROL"
        BY <1>1 DEF CellKind, CInv, IInv, ControlBlock
      <4> QED  BY <4>1, <4>2 DEF IsCell, IsNode
    <3>2. file' = WriteCell(file, q, prev_cell) /\ ctrl_block' = ctrl_block
      BY <1>11, <3>1
    <3>3. /\ prev_cell \in cell /\ prev_cell.prev = PrevOf(file, p)
          /\ prev_cell.name = CellAt(file, q).name /\ prev_cell.value = CellAt(file, q).value
      <4>1. CellAt(file, q) \in cell  BY <1>2, <3>1, CellAtType
      <4> QED  BY <2>5, <4>1 DEF cell, PrevOf
    <3> HIDE DEF prev_cell
    <3>4. /\ StringsKept(file, file')
          /\ \A k \in CellKind : ChainsKept(file, file', k)
          /\ \A k \in CellKind \ {kind} : SameCells(file, file', k)
          /\ \A x : IsCell(file', kind, x) <=> IsCell(file, kind, x)
          /\ CellAt(file', q) = prev_cell
          /\ \A x \in cell_ptr : x # q /\ IsCell(file, kind, x) =>
               /\ CellAt(file', x) = CellAt(file, x)
               /\ Spelled(file, kind, x) => Spelled(file', kind, x)
      BY <1>2, <3>1, <3>2, <3>3, CellWritten
    <3>5. SameUse(file, file') /\ file'[0] = file[0]
      BY <1>1, <3>1, <3>2, CellWriteSeen
    <3>6. \A m \in cell_ptr : InUse(file, m) <=> InUse(file', m)
      BY <3>5, SameNodeSeen DEF SameUse
    <3>7. \A x \in cell_ptr : IsCell(file, kind, x) =>
            /\ IsCell(file', kind, x) /\ (Spelled(file, kind, x) => Spelled(file', kind, x))
            /\ PrevOf(file', x) = IF x = q THEN PrevOf(file, p) ELSE PrevOf(file, x)
      <4>1. Spelled(file, kind, q) => Spelled(file', kind, q)
        BY <3>3, <3>4 DEF Spelled, StringsKept
      <4> QED  BY <3>3, <3>4, <4>1 DEF PrevOf
    <3>8. file' \in File
      BY <1>2, <3>1, <3>2, <3>3, WriteCellType DEF WritesBlock
    <3>12. IsCell(file', kind, Null) => IsCell(file, kind, Null)  BY <3>4
    <3> HIDE DEF n, p, q
    <3>9. ChainsApart(file', kind, r)
      BY <1>2, <1>3, <2>5, <2>6, <2>11, <3>4, <3>6, <3>7, <3>12, UnlinkNext
    <3>10. PoolApart(file', kind, ctrl_block.head[kind], r)
      <4>1. o[q] # NoRoom  BY <1>3, <2>11
      <4> QED  BY <1>2, <2>7, <2>9, <3>4, <3>7, <3>8, <4>1, UnlinkPool
    <3>11. IsCell(file', kind, p)  BY <1>11, <3>4
    <3> QED  BY <1>5, <2>8, <3>2, <3>4, <3>5, <3>9, <3>10, <3>11
  <2> QED  BY <2>5, <2>10, <2>11 DEF LedBy
<1> QED  BY <1>6, <1>7, <1>8, <1>10, <1>11 DEF remove_cell

(* The cell taken out goes to the pool.                                    *)
LEMMA FreeCellCells ==
  ASSUME CInv, NInv, KInv, free_cell
  PROVE  KInv'
<1>1. /\ exec.pc = "free_cell" /\ ~ Down /\ ~ Updating /\ Place = "free_cell" /\ exec.jobs # << >>
  BY DEF free_cell, Down, Updating, Place, CInv, IInv, ExecOK, InOp, JobPCs
<1>2. /\ ctrl_block \in control_block /\ exec \in exec_type /\ file \in File
      /\ exec.current \in cell_ptr /\ exec.following \in cell_ptr
      /\ \A k \in CellKind : ctrl_block.head[k] \in cell_ptr
  BY Unfold DEF CInv, Pool, exec_type
<1>3. PICK kind \in CellKind : kind = job.kind
  BY <1>1, <1>2, JobType DEF exec_type, job
<1> DEFINE p == exec.current
           h == ctrl_block.head[kind]
           freed == [prev |-> h, name |-> Null,
                     value |-> IF kind = "RELATION" THEN CellAt(file, p).value ELSE Null]
<1>4. SoundCells(file) /\ ctrl_block = file[0]
  BY <1>1, SoundMeanwhile DEF CInv, ControlCoherent
<1>5. CASE Wild  BY <1>5, WildCells
<1>6. CASE ~ Wild
  <2>1. /\ IsCell(file, kind, p)
        /\ file' = WriteCell(file, p, freed)
        /\ ctrl_block' = [ctrl_block EXCEPT !.head[kind] = p]
        /\ disk' = file
    BY <1>3, <1>6 DEF free_cell, LastWriteUnflushed
  <2>2. PICK number :
          exec' = [exec EXCEPT
                 !.pc = "update_control_block", !.ret = "remove",
                 !.prev = p, !.current = exec.following, !.has_changed = TRUE,
                 !.number = number]
    BY <1>3, <1>6 DEF free_cell
  <2>3. /\ exec'.jobs = exec.jobs /\ exec'.strings = exec.strings /\ exec'.node = exec.node
        /\ exec'.pc = "update_control_block" /\ exec'.ret = "remove"
        /\ exec'.prev = p /\ exec'.current = exec.following /\ exec'.has_changed = TRUE
    BY <1>2, <2>2 DEF exec_type
  <2>4. Place' = "remove" /\ job' = job  BY <2>3 DEF Place, Updating, job
  <2>5. freed \in cell /\ freed.prev = h
    <3>1. CellAt(file, p) \in cell  BY <1>2, <1>3, <2>1, CellAtType
    <3>2. CellAt(file, p).value \in cell_ptr  BY <3>1 DEF cell
    <3>3. h \in cell_ptr  BY <1>2, <1>3
    <3> HIDE DEF h
    <3> QED  BY <3>2, <3>3, ZeroTypes DEF cell
  <2> HIDE DEF freed
  <2>6. /\ StringsKept(file, file')
        /\ \A k \in CellKind : ChainsKept(file, file', k)
        /\ \A k \in CellKind \ {kind} : SameCells(file, file', k)
        /\ \A q : IsCell(file', kind, q) <=> IsCell(file, kind, q)
        /\ CellAt(file', p) = freed
        /\ \A q \in cell_ptr : q # p /\ IsCell(file, kind, q) =>
             /\ CellAt(file', q) = CellAt(file, q)
             /\ Spelled(file, kind, q) => Spelled(file', kind, q)
    BY <1>2, <1>3, <2>1, <2>5, CellWritten
  <2>7. file' \in File /\ file'[0] = file[0]
    BY <1>1, <1>2, <1>3, <2>1, <2>5, WriteCellType, CellWrite DEF WritesBlock
  <2>8. /\ ctrl_block'.head[kind] = p
        /\ \A k \in CellKind \ {kind} : ctrl_block'.head[k] = ctrl_block.head[k]
    BY <1>2, <1>3, <2>1 DEF control_block, Pool
  <2>9. PICK o \in Owners : Held(kind, o)  BY <1>1, <1>3 DEF KInv, MemCells, AllHeld
  <2>10. ChainsApart(file, kind, o) /\ PoolApart(file, kind, h, o) /\ h \in cell_ptr
    BY <1>2, <1>3, <2>9 DEF Held, Shared
  <2>11. o[p] = Nobody /\ OfItsNode(o, exec.following)
    BY <1>1, <1>3, <2>9 DEF Held, InHands
  <2>12. h # Null
    <3> SUFFICES ASSUME h = Null  PROVE FALSE
      OBVIOUS
    <3>1. IsCell(file, kind, Null)
      BY <2>10, HeadOfPool DEF Null, Ptr
    <3>2. file[0].type = "CONTROL"  BY <1>1 DEF CInv, IInv, ControlBlock
    <3> QED  BY <1>3, <3>1, <3>2 DEF IsCell, Null, Ptr, CellKind
  <2> HIDE DEF h
  <2>13. CellsKept(file, file', kind, o)
    BY <2>6, <2>11 DEF CellsKept, PrevOf
  <2>14. ChainsApart(file', kind, o) /\ PoolApart(file', kind, h, o)
    BY <1>2, <1>3, <2>6, <2>10, <2>13, ApartKept, PoolApartKept
  <2>15. PICK r \in Owners : Moves(o, r, p, NoRoom)  BY <1>2, ZeroTypes, CanMove
  <2>16. PoolApart(file', kind, p, r)
    <3>1. IsCell(file', kind, p) /\ PrevOf(file', p) = h
      BY <2>1, <2>5, <2>6 DEF PrevOf
    <3> QED  BY <1>2, <1>3, <2>7, <2>10, <2>11, <2>12, <2>14, <2>15, <3>1, GiveCell
  <2>17. ChainsApart(file', kind, r)
    <3>1. \A q \in cell_ptr : OfNode(o, q) \/ OfNode(r, q) => r[q] = o[q]
      BY <2>11, <2>15 DEF Moves, OfNode
    <3> QED  BY <1>3, <2>7, <2>14, <3>1, SameChains
  <2>18. Held(kind, r)'
    <3>1. OfItsNode(r, exec.following)
      <4>1. AtNode /\ InUse(file, exec.node)
        BY <1>1 DEF NInv, NodesHeld, AtNode, NodePCs
      <4>2. exec.node # Nobody  BY <4>1, NodePlace DEF InUse
      <4>3. exec.following = p => p = Null
        BY <2>11, <4>2 DEF OfItsNode
      <4> QED  BY <1>2, <2>11, <2>15, <4>3, OwnersTypes DEF OfItsNode, Moves
    <3>2. OfItsNode(r, exec.current)'  BY <2>3, <3>1 DEF OfItsNode
    <3>3. exec'.has_changed /\ IsCell(file', kind, exec'.prev)  BY <2>1, <2>3, <2>6
    <3>4. Place' # "update_node" /\ Place' # "write_value" /\ Place' # "free_cell"
      BY <2>4
    <3>5. InHands(kind, r)'  BY <3>2, <3>3, <3>4 DEF InHands
    <3>6. Shared(file', kind, ctrl_block'.head[kind], r)
      BY <2>8, <2>16, <2>17 DEF Shared
    <3> QED  BY <3>5, <3>6 DEF Held
  <2>19. ASSUME NEW k \in CellKind, k # kind
         PROVE  \E s \in Owners : Held(k, s)' /\ Shared(file', k, ctrl_block.head[k], s)
    <3>1. PICK s \in Owners : Held(k, s)  BY <1>1 DEF KInv, MemCells, AllHeld
    <3>2. Shared(file', k, ctrl_block.head[k], s)
      BY <1>2, <2>6, <2>19, <3>1, StillShared DEF Held
    <3>3. job.kind # k /\ job' = job  BY <1>3, <2>4, <2>19
    <3>4. Held(k, s)'  BY <2>8, <2>19, <3>2, <3>3 DEF Held
    <3> QED  BY <3>2, <3>4
  <2>20. AllHeld'
    <3>1. ASSUME NEW k \in CellKind  PROVE \E s \in Owners : Held(k, s)'
      BY <2>18, <2>19
    <3> QED  BY <3>1 DEF AllHeld
  <2>21. SoundCells(file')
    <3>1. Shared(file', kind, h, o)  BY <2>14 DEF Shared
    <3> QED  BY <1>4, <2>7, <2>19, <3>1 DEF SoundCells, h
  <2>22. DiskCells'  BY <1>4, <2>1, <2>21 DEF DiskCells, SoundCells
  <2>23. StringsHeld'  BY <1>1, <2>3, <2>6, StillStrings DEF KInv
  <2>24. RemovesFirst(exec'.jobs)  BY <2>3 DEF KInv
  <2> QED  BY <2>1, <2>3, <2>20, <2>22, <2>23, <2>24, Together
<1> QED  BY <1>5, <1>6

-----------------------------------------------------------------------------
(* A command starts with nothing in its hands.                             *)
LEMMA RemovalsFirst ==
  ASSUME NEW info \in Commands
  PROVE  RemovesFirst(Jobs(info))
<1>1. /\ info.labels \in Seq(String) /\ info.props \in Seq(property)
      /\ info.changed_labels \in Seq(String) /\ info.changed_props \in Seq(property)
      /\ info.command_type \in {"match", "create", "set", "remove", "delete"}
      /\ Len(info.changed_labels) + Len(info.changed_props) <= 1
  BY CommandsAssumption DEF query_info
<1>2. ASSUME NEW jobs, Len(jobs) \in Nat, Len(jobs) <= 1  PROVE RemovesFirst(jobs)
  BY <1>2 DEF RemovesFirst
<1>3. CASE info.command_type = "create" /\ ~ info.has_relation
  <2> DEFINE s == LabelJobs("add", info.labels)
             t == PropJobs("add", info.props)
             W == [op : {"add"}, kind : {"LABEL", "ATTRIBUTE"},
                   name : String, value : String \cup {ALL}]
  <2>1. Jobs(info) = s \o t  BY <1>3 DEF Jobs
  <2>2. s \in Seq(W)  BY <1>1 DEF LabelJobs, LabelJob
  <2>3. t \in Seq(W)
    <3>1. \A p \in property : PropJob("add", p) \in W  BY DEF PropJob, property
    <3> QED  BY <1>1, <3>1 DEF PropJobs
  <2>4. \A w \in W : w.op # "remove"  OBVIOUS
  <2> HIDE DEF s, t, W
  <2>5. s \o t \in Seq(W)  BY <2>2, <2>3
  <2>6. \A i \in 1 .. Len(s \o t) : (s \o t)[i] \in W  BY <2>5
  <2> QED  BY <2>1, <2>4, <2>6 DEF RemovesFirst
<1>4. CASE info.command_type \in {"set", "remove"}
  <2>1. PICK a \in {"add", "remove"}, b \in {"put", "remove"} :
          Jobs(info) = LabelJobs(a, info.changed_labels) \o PropJobs(b, info.changed_props)
    BY <1>4 DEF Jobs
  <2>2. Len(Jobs(info)) \in Nat /\ Len(Jobs(info)) <= 1  BY <1>1, <2>1, JobsLength
  <2> QED  BY <1>2, <2>2
<1>5. CASE Jobs(info) = delete_nodes
  <2>1. /\ Len(delete_nodes) = 4
        /\ delete_nodes[1].op = "remove" /\ delete_nodes[2].op = "remove"
        /\ delete_nodes[3].op = "remove" /\ delete_nodes[4].op = "free"
    BY DEF delete_nodes, AllOf
  <2> HIDE DEF delete_nodes
  <2> QED  BY <1>5, <2>1 DEF RemovesFirst
<1>6. CASE \E op : Jobs(info) = << RelationJob(op, info.rel_name) >>
  <2>1. PICK op : Jobs(info) = << RelationJob(op, info.rel_name) >>  BY <1>6
  <2>2. Len(Jobs(info)) \in Nat /\ Len(Jobs(info)) <= 1  BY <2>1
  <2> QED  BY <1>2, <2>2
<1> QED  BY <1>1, <1>3, <1>4, <1>5, <1>6 DEF Jobs

LEMMA ExecutingCells ==
  ASSUME CInv, KInv, Execute
  PROVE  KInv'
<1>1. PICK info \in Commands : \/ execute_match(info) \/ execute_create(info)
                               \/ execute_create_relation(info)
                               \/ execute_set(info) \/ execute_remove(info)
                               \/ execute_delete(info)
  BY DEF Execute
<1>2. /\ exec.pc = "idle" /\ ~ Down /\ ~ Updating
      /\ disk' = file /\ UNCHANGED <<file, ctrl_block>>
  BY <1>1 DEF execute_match, execute_create, execute_create_relation, execute_set,
              execute_remove, execute_delete, OnMatched, Starting, Down, Updating, ReadOnly
<1>3. DiskCells'  BY <1>2, ReadDisk
<1>4. ASSUME exec'.jobs \in {<< >>, Jobs(info)}, exec'.strings = << >>, exec'.current = Null,
             exec'.pc \in {"idle", "wild", "create_node_cell", "next", "create_string_cell"}
      PROVE  KInv'
  <2>1. RemovesFirst(exec'.jobs)
    <3>1. RemovesFirst(<< >>)  BY DEF RemovesFirst
    <3> QED  BY <1>4, <3>1, RemovalsFirst
  <2>2. Place' = exec'.pc  BY <1>4 DEF Place, Updating, UpdatingPCs
  <2>3. \A kind \in CellKind : \A o \in Owners : InHands(kind, o)'
    BY <1>4, <2>2 DEF InHands, OfItsNode
  <2>4. exec'.pc # "down"  BY <1>4
  <2> QED  BY <1>2, <1>3, <1>4, <2>1, <2>3, <2>4, ReadingCells
<1>5. /\ Idle.pc = "idle" /\ Idle.jobs = << >> /\ Idle.strings = << >> /\ Idle.current = Null
      /\ [Idle EXCEPT !.pc = "wild"].pc = "wild"
      /\ [Idle EXCEPT !.pc = "wild"].jobs = << >>
      /\ [Idle EXCEPT !.pc = "wild"].strings = << >>
      /\ [Idle EXCEPT !.pc = "wild"].current = Null
  BY DEF Idle
<1>6. CASE exec' = [Idle EXCEPT !.pc = "wild"]  BY <1>4, <1>5, <1>6
<1>7. CASE execute_create(info)
  <2>1. exec' = [Idle EXCEPT !.pc = "create_node_cell", !.jobs = Jobs(info), !.number = 1]
    BY <1>7 DEF execute_create
  <2>2. /\ exec'.pc = "create_node_cell" /\ exec'.jobs = Jobs(info)
        /\ exec'.strings = << >> /\ exec'.current = Null
    BY <2>1 DEF Idle
  <2> QED  BY <1>4, <2>2
<1>8. ASSUME NEW nodes, NEW number, exec' = Run(info, nodes, number)  PROVE KInv'
  <2>1. /\ exec'.pc = "next" /\ exec'.jobs = Jobs(info)
        /\ exec'.strings = << >> /\ exec'.current = Null
    BY <1>8 DEF Run, Idle
  <2> QED  BY <1>4, <2>1
<1>9. CASE execute_match(info)
  <2>1. exec' # [Idle EXCEPT !.pc = "wild"] =>
          exec' = [Idle EXCEPT !.number = Cardinality(Matched(file, info))]
    BY <1>9 DEF execute_match, OnMatched, Respond
  <2>2. CASE exec' # [Idle EXCEPT !.pc = "wild"]
    <3>1. /\ exec'.pc = "idle" /\ exec'.jobs = << >>
          /\ exec'.strings = << >> /\ exec'.current = Null
      BY <2>1, <2>2 DEF Idle
    <3> QED  BY <1>4, <3>1
  <2> QED  BY <1>6, <2>2
<1>10. CASE execute_create_relation(info) /\ exec' # [Idle EXCEPT !.pc = "wild"]
  <2> DEFINE nodes == Like(file, info.labels, info.props)
  <2>1. PICK number, others :
          exec' = [Idle EXCEPT
                !.pc = "create_string_cell", !.jobs = Jobs(info), !.texts = << info.rel_name >>,
                !.matched = nodes, !.left = nodes, !.seconds = others,
                !.number = number]
    BY <1>10 DEF execute_create_relation
  <2> HIDE DEF nodes
  <2>2. /\ exec'.pc = "create_string_cell" /\ exec'.jobs = Jobs(info)
        /\ exec'.strings = << >> /\ exec'.current = Null
    BY <2>1 DEF Idle
  <2> QED  BY <1>4, <2>2
<1>11. CASE execute_set(info)  BY <1>6, <1>8, <1>11 DEF execute_set, OnMatched
<1>12. CASE execute_remove(info)  BY <1>6, <1>8, <1>12 DEF execute_remove, OnMatched
<1>13. CASE execute_delete(info)  BY <1>6, <1>8, <1>13 DEF execute_delete, OnMatched
<1> QED  BY <1>1, <1>6, <1>7, <1>9, <1>10, <1>11, <1>12, <1>13

-----------------------------------------------------------------------------
(* Where the process may be killed, or stopped: as for the nodes, and      *)
(* killed only while a command removes cells.                              *)
CellSafePoints == NodeSafePoints /\ \A at \in KillPoints : at[2] = "remove"

LEMMA StartOrStopCells ==
  ASSUME CInv, KInv, CellSafePoints, init_data \/ kill \/ quit
  PROVE  KInv'
<1>1. /\ Idle.pc = "idle" /\ Idle.jobs = << >> /\ Idle.strings = << >>
      /\ [Idle EXCEPT !.pc = "wild"].pc = "wild" /\ [Idle EXCEPT !.pc = "wild"].jobs = << >>
      /\ [Idle EXCEPT !.pc = "down"].pc = "down" /\ [Idle EXCEPT !.pc = "down"].jobs = << >>
  BY DEF Idle
<1>2. At[1] = exec.pc /\ At[2] = IF exec.jobs = << >> THEN "none" ELSE job.op  BY DEF At
<1>3. CASE kill
  <2>1. At[2] = "remove"  BY <1>3 DEF kill, CellSafePoints
  <2>2. SoundCells(disk)  BY <1>2, <2>1 DEF KInv, DiskCells
  <2> QED  BY <1>1, <1>3, <2>2, StopCells DEF kill, Stop
<1>4. CASE quit
  <2>1. SoundCells(file)
    <3>1. At \in QuitPoints /\ SafePoint(At)
      BY <1>4 DEF quit, CellSafePoints, NodeSafePoints, SafePoints
    <3>2. exec.pc # "wild" /\ (Updating => exec.pc = "update_control_block")
      BY <1>2, <3>1 DEF SafePoint, Updating, UpdatingPCs
    <3>3. CASE exec.pc = "down"  BY <3>3 DEF KInv, RestartCells
    <3>4. CASE ~ Down /\ ~ Updating  BY <3>4, SoundMeanwhile
    <3>5. CASE exec.pc = "update_control_block"
      <4>1. At[2] = "remove"  BY <1>2, <3>1, <3>5 DEF CellSafePoints, NodeSafePoints
      <4> QED  BY <1>2, <4>1 DEF KInv, DiskCells
    <3> QED  BY <3>2, <3>3, <3>4, <3>5 DEF Down
  <2> QED  BY <1>1, <1>4, <2>1, StopCells DEF quit, Stop, AllFlushed
<1>5. CASE init_data
  <2>1. exec.pc = "down" /\ SoundCells(file) /\ UNCHANGED <<file, disk>>
    BY <1>5 DEF init_data, KInv, RestartCells
  <2>2. exec'.jobs = << >>  BY <1>1, <1>5 DEF init_data
  <2>3. DiskCells' /\ RemovesFirst(exec'.jobs)  BY <2>2 DEF DiskCells, RemovesFirst
  <2>4. CASE file[0].type = "CONTROL"
    <3>1. ctrl_block' = file[0] /\ exec' = Idle  BY <1>5, <2>4 DEF init_data
    <3>2. AllHeld'
      <4>1. ASSUME NEW kind \in CellKind  PROVE \E o \in Owners : Held(kind, o)'
        <5>1. PICK o \in Owners : Shared(file, kind, file[0].head[kind], o)
          BY <2>1, <2>4 DEF SoundCells
        <5>2. Held(kind, o)'  BY <2>1, <2>2, <3>1, <5>1 DEF Held
        <5> QED  BY <5>2
      <4> QED  BY <4>1 DEF AllHeld
    <3>3. StringsHeld'
      <4>1. exec'.strings = << >> /\ Len(exec'.strings) = 0  BY <1>1, <3>1
      <4> QED  BY <4>1 DEF StringsHeld
    <3>4. exec'.pc # "down"  BY <1>1, <3>1
    <3> QED  BY <2>1, <2>3, <3>2, <3>3, <3>4, Together
  <2>5. CASE file[0].type # "CONTROL"
    <3>1. exec'.pc = "wild"  BY <1>1, <1>5, <2>5 DEF init_data
    <3>2. Down'  BY <3>1 DEF Down
    <3>3. MemCells' /\ StringsHeld' /\ RestartCells'
      BY <3>1, <3>2 DEF MemCells, StringsHeld, RestartCells
    <3>4. ReadableChains'  BY <2>1 DEF KInv, ReadableChains, ReadableIn
    <3> QED  BY <2>3, <3>3, <3>4 DEF KInv, RemovesFirst
  <2> QED  BY <2>4, <2>5
<1> QED  BY <1>3, <1>4, <1>5

LEMMA InitiallyShared == Init => KInv
<1> SUFFICES ASSUME Init  PROVE KInv
  OBVIOUS
<1>1. 0 \in Block /\ Null \in cell_ptr  BY LayoutAssumption, ZeroTypes DEF Block
<1>2. /\ exec.pc = "idle" /\ exec.jobs = << >> /\ exec.strings = << >> /\ ctrl_block = NewControl
      /\ file[0] = NewControl /\ disk = EmptyFile
      /\ \A b \in Block : b # 0 => file[b].type = "ABSENT"
      /\ \A b \in Block : disk[b].type = "ABSENT"
  BY <1>1 DEF Init, Idle, EmptyFile, Absent
<1>3. /\ \A kind \in CellKind : NewControl.head[kind] = NoRoom
      /\ \A o \in 0 .. NODES_IN_CONTROL_BLOCK - 1 : NewControl.nodes[o] = ZeroNode
      /\ NewControl.type = "CONTROL"
  BY DEF NewControl, Pool, CellKind
<1>4. ZeroNode.is_empty = 0  BY DEF ZeroNode
<1> HIDE DEF NewControl, ZeroNode
<1>5. \A p : ~ InUse(file, p)
  <2> SUFFICES ASSUME NEW p, InUse(file, p)  PROVE FALSE
    OBVIOUS
  <2>1. p.block_num = 0 /\ p.offset \in 0 .. NODES_IN_CONTROL_BLOCK - 1
    BY <1>1, <1>2 DEF InUse, IsNode, NodesIn
  <2>2. NodeAt(file, p) = ZeroNode  BY <1>2, <1>3, <2>1 DEF NodeAt
  <2> QED  BY <1>4, <2>2 DEF InUse
<1>6. \A p : ~ InUse(disk, p)  BY <1>2 DEF InUse, IsNode
<1> DEFINE o == [p \in cell_ptr |-> Nobody]
<1>7. o \in Owners /\ \A p \in cell_ptr : o[p] = Nobody  BY OwnersTypes DEF Owners
<1> HIDE DEF o
<1>8. ASSUME NEW f, \A p : ~ InUse(f, p), NEW kind \in CellKind, ~ IsCell(f, kind, Null)
      PROVE  ChainsApart(f, kind, o)
  BY <1>7, <1>8 DEF ChainsApart, OfNode
<1> DEFINE NoneAtNull(f) == \A kind \in CellKind : ~ IsCell(f, kind, Null)
<1>14. NoneAtNull(file) /\ NoneAtNull(disk)
  BY <1>1, <1>2, <1>3 DEF IsCell, Null, Ptr, CellKind
<1>9. ASSUME NEW kind \in CellKind  PROVE PoolApart(file, kind, NoRoom, o)
  BY <1>7, OwnersTypes DEF PoolApart, Ready, NeverWritten, Listed
<1>10. MemCells
  <2>1. ASSUME NEW kind \in CellKind  PROVE Held(kind, o)
    BY <1>2, <1>3, <1>5, <1>8, <1>9, <1>14 DEF Held, Shared
  <2> QED  BY <1>7, <2>1 DEF MemCells, AllHeld
<1>11. ReadableChains
  BY <1>5, <1>6, <1>7, <1>8, <1>14 DEF ReadableChains, ReadableIn
<1>12. Len(exec.strings) = 0 /\ Len(exec.jobs) = 0  BY <1>2
<1>13. StringsHeld /\ RemovesFirst(exec.jobs)  BY <1>12 DEF StringsHeld, RemovesFirst
<1> QED  BY <1>2, <1>10, <1>11, <1>13 DEF KInv, DiskCells, RestartCells

LEMMA InductiveCells ==
  ASSUME CellSafePoints
  PROVE  CInv /\ RelateInv /\ BInv /\ NInv /\ KInv /\ OneCellEach' /\ [Next]_vars => KInv'
<1> SUFFICES ASSUME CInv, RelateInv, BInv, NInv, KInv, OneCellEach', [Next]_vars  PROVE KInv'
  OBVIOUS
<1>1. CASE Step
  <2>1. CASE create_label_cell \/ create_attribute_cell \/ create_relation_cell
    BY <2>1, CreateCellCells
    DEF create_label_cell, create_attribute_cell, create_relation_cell, CellKind
  <2>2. CASE update_node_labels \/ update_node_attributes \/ update_node_relations
    BY <2>2, UpdateNodeCells
    DEF update_node_labels, update_node_attributes, update_node_relations, CellKind
  <2>3. CASE remove_labels \/ remove_attributes \/ delete_relations
    BY <2>3, RemoveCellCells DEF remove_labels, remove_attributes, delete_relations, CellKind
  <2> QED
    BY <1>1, <2>1, <2>2, <2>3, ControlCells, ChainControlCells, ChainCells, CreateNodeCells,
       NextNodeCells, NextJobCells, LoopCells, FindAttributeCells, CreateStringCells,
       WriteValueCells, FreeCellCells, FreeNodeCells
    DEF Step
<1>2. CASE Execute  BY <1>2, ExecutingCells
<1>3. CASE init_data \/ kill \/ quit  BY <1>3, StartOrStopCells
<1>4. CASE UNCHANGED vars
  <2>1. UNCHANGED <<file, disk, ctrl_block, exec>>  BY <1>4 DEF vars
  <2>2. UNCHANGED <<Place, job, Down>>
    BY <2>1 DEF Place, Updating, job, Down
  <2>3. ASSUME NEW kind \in CellKind, NEW o \in Owners, Held(kind, o)  PROVE Held(kind, o)'
    BY <2>1, <2>2, <2>3 DEF Held, InHands, LedFrom, OfItsNode
  <2>4. MemCells'  BY <2>2, <2>3 DEF KInv, MemCells, AllHeld
  <2> QED  BY <2>1, <2>2, <2>4 DEF KInv, DiskCells, SoundCells, RestartCells, ReadableChains,
              ReadableIn, StringsHeld, RemovesFirst
<1> QED  BY <1>1, <1>2, <1>3, <1>4 DEF Next

LEMMA CellsInvariant ==
  ASSUME CellSafePoints
  PROVE  Spec /\ []FirstNodeStays /\ []OneCellEach => [](CInv /\ BInv /\ NInv /\ KInv)
<1>1. Init => CInv /\ RelateInv  BY InitiallyCoherent
<1>2. CInv /\ RelateInv /\ [Next]_vars => (CInv /\ RelateInv)'  BY InductiveCoherent
<1>3. CInv /\ RelateInv /\ BInv /\ [Next]_vars => BInv'
  BY InductiveBlocks DEF CellSafePoints, NodeSafePoints
<1>4. CInv /\ RelateInv /\ BInv /\ NInv /\ FirstNodeStays /\ [Next]_vars => NInv'
  BY InductiveNodes DEF CellSafePoints
<1>5. CInv /\ RelateInv /\ BInv /\ NInv /\ KInv /\ OneCellEach' /\ [Next]_vars => KInv'
  BY InductiveCells
<1> QED  BY <1>1, <1>2, <1>3, <1>4, <1>5, InitiallyLinked, InitiallyPooled, InitiallyShared,
            PTL DEF Spec

-----------------------------------------------------------------------------
(* The cells that the code meets.  First, that the recursive definition of *)
(* Chain defines a function: within k cells of q the walk reads s.         *)
IsWalk(f, kind, w) ==
  w = [at \in cell_ptr \X Nat |->
        IF at[2] = 0 \/ ~ IsCell(f, kind, at[1]) THEN << >>
        ELSE << at[1] >> \o w[<< CellAt(f, at[1]).prev, at[2] - 1 >>]]
ReadFrom(f, kind, q, s) ==
  /\ s \in Seq(cell_ptr)
  /\ \A i \in 1 .. Len(s) :
       IsCell(f, kind, s[i]) /\ s[i] = IF i = 1 THEN q ELSE PrevOf(f, s[i - 1])
NextRead(f, q, s) == IF s = << >> THEN q ELSE PrevOf(f, s[Len(s)])
IsChain(f, kind, q, k, s) ==
  /\ ReadFrom(f, kind, q, s) /\ Len(s) <= k
  /\ Len(s) < k => ~ IsCell(f, kind, NextRead(f, q, s))

LEMMA ChainEmpty ==
  ASSUME NEW f, NEW kind, NEW q, NEW k \in Nat, k = 0 \/ ~ IsCell(f, kind, q)
  PROVE  IsChain(f, kind, q, k, << >>)
<1>1. Len(<< >>) = 0 /\ << >> \in Seq(cell_ptr)  OBVIOUS
<1> QED  BY <1>1 DEF IsChain, ReadFrom, NextRead

LEMMA ChainLonger ==
  ASSUME NEW f \in File, NEW kind \in CellKind, NEW q \in cell_ptr, NEW k \in Nat, k # 0,
         IsCell(f, kind, q), NEW s, IsChain(f, kind, PrevOf(f, q), k - 1, s)
  PROVE  IsChain(f, kind, q, k, << q >> \o s)
<1> DEFINE t == << q >> \o s
           p == PrevOf(f, q)
<1>1. s \in Seq(cell_ptr) /\ Len(s) \in Nat /\ Len(s) <= k - 1
  BY DEF IsChain, ReadFrom
<1>2. /\ t \in Seq(cell_ptr) /\ Len(t) = Len(s) + 1 /\ t[1] = q
      /\ \A i \in 1 .. Len(s) : t[i + 1] = s[i]
  BY <1>1
<1> HIDE DEF t, p
<1>3. ASSUME NEW i \in 1 .. Len(t)
      PROVE  IsCell(f, kind, t[i]) /\ t[i] = IF i = 1 THEN q ELSE PrevOf(f, t[i - 1])
  <2>1. CASE i = 1  BY <1>2, <2>1
  <2>2. CASE i # 1
    <3> DEFINE j == i - 1
    <3>1. j \in 1 .. Len(s) /\ j + 1 = i  BY <1>1, <1>2, <2>2
    <3>2. t[i] = s[j]  BY <1>2, <3>1
    <3>3. IsCell(f, kind, s[j]) /\ s[j] = IF j = 1 THEN p ELSE PrevOf(f, s[j - 1])
      BY <3>1 DEF IsChain, ReadFrom, p
    <3>4. t[i - 1] = IF j = 1 THEN q ELSE s[j - 1]
      <4>1. CASE j = 1  BY <1>2, <3>1, <4>1
      <4>2. CASE j # 1
        <5>1. j - 1 \in 1 .. Len(s) /\ (j - 1) + 1 = i - 1  BY <1>1, <3>1, <4>2
        <5> QED  BY <1>2, <4>2, <5>1
      <4> QED  BY <4>1, <4>2
    <3> QED  BY <2>2, <3>2, <3>3, <3>4 DEF p
  <2> QED  BY <2>1, <2>2
<1>4. NextRead(f, q, t) = NextRead(f, p, s)
  <2>1. t # << >>  BY <1>1, <1>2
  <2>2. CASE s = << >>  BY <1>2, <2>1, <2>2 DEF NextRead, p
  <2>3. CASE s # << >>
    <3>1. Len(s) \in 1 .. Len(s)  BY <1>1, <2>3
    <3>2. t[Len(t)] = s[Len(s)]  BY <1>2, <3>1
    <3> QED  BY <2>1, <2>3, <3>2 DEF NextRead
  <2> QED  BY <2>2, <2>3
<1>5. Len(t) <= k /\ (Len(t) < k => Len(s) < k - 1)  BY <1>1, <1>2
<1>6. IsChain(f, kind, q, k, t)
  BY <1>2, <1>3, <1>4, <1>5 DEF IsChain, ReadFrom, p
<1> QED  BY <1>6 DEF t

LEMMA ChainExists ==
  ASSUME NEW f \in File, NEW kind \in CellKind, NEW q \in cell_ptr, NEW k \in Nat
  PROVE  \E s \in Seq(cell_ptr) : IsChain(f, kind, q, k, s)
<1> DEFINE Has(p, n) == \E s \in Seq(cell_ptr) : IsChain(f, kind, p, n, s)
           S == {n \in Nat : \E p \in cell_ptr : ~ Has(p, n)}
<1>1. S = {}
  <2>1. SUFFICES ASSUME S # {}  PROVE FALSE  OBVIOUS
  <2>2. PICK n \in S : \A m \in S : n <= m  BY <2>1, LeastNumber, Zenon
  <2>3. PICK p \in cell_ptr : ~ Has(p, n)  BY <2>2
  <2>4. n # 0 /\ IsCell(f, kind, p)
    <3>1. << >> \in Seq(cell_ptr)  OBVIOUS
    <3> QED  BY <2>2, <2>3, <3>1, ChainEmpty
  <2>5. n - 1 \in Nat /\ n - 1 \notin S  BY <2>2, <2>4
  <2>6. PrevOf(f, p) \in cell_ptr  BY <2>4, PrevType
  <2>7. Has(PrevOf(f, p), n - 1)  BY <2>5, <2>6
  <2>8. PICK s \in Seq(cell_ptr) : IsChain(f, kind, PrevOf(f, p), n - 1, s)  BY <2>7
  <2>9. IsChain(f, kind, p, n, << p >> \o s)  BY <2>2, <2>4, <2>8, ChainLonger
  <2>10. << p >> \o s \in Seq(cell_ptr)  BY <2>8
  <2> QED  BY <2>3, <2>9, <2>10
<1> QED  BY <1>1

LEMMA ChainUnique ==
  ASSUME NEW f, NEW kind, NEW q, NEW k \in Nat,
         NEW s, IsChain(f, kind, q, k, s), NEW t, IsChain(f, kind, q, k, t)
  PROVE  s = t
<1>1. /\ s \in Seq(cell_ptr) /\ t \in Seq(cell_ptr) /\ Len(s) \in Nat /\ Len(t) \in Nat
      /\ Len(s) <= k /\ Len(t) <= k
      /\ ReadFrom(f, kind, q, s) /\ ReadFrom(f, kind, q, t)
  BY DEF IsChain, ReadFrom
<1> DEFINE S == {i \in Nat : i \in 1 .. Len(s) /\ i \in 1 .. Len(t) /\ s[i] # t[i]}
<1>2. S = {}
  <2>1. SUFFICES ASSUME S # {}  PROVE FALSE  OBVIOUS
  <2>2. PICK i \in S : \A j \in S : i <= j  BY <2>1, LeastNumber, Zenon
  <2>3. /\ s[i] = IF i = 1 THEN q ELSE PrevOf(f, s[i - 1])
        /\ t[i] = IF i = 1 THEN q ELSE PrevOf(f, t[i - 1])
    BY <1>1, <2>2 DEF ReadFrom
  <2>4. i # 1  BY <2>2, <2>3
  <2>5. i - 1 \in 1 .. Len(s) /\ i - 1 \in 1 .. Len(t) /\ i - 1 \in Nat /\ i - 1 \notin S
    BY <1>1, <2>2, <2>4
  <2>6. s[i - 1] = t[i - 1]  BY <2>5
  <2> QED  BY <2>2, <2>3, <2>4, <2>6
<1>3. ASSUME NEW u \in {s, t}, NEW v \in {s, t}, Len(u) < Len(v)  PROVE FALSE
  <2>1. /\ Len(u) \in Nat /\ Len(v) \in Nat /\ Len(u) < k
        /\ IsChain(f, kind, q, k, u) /\ ReadFrom(f, kind, q, v)
    BY <1>1, <1>3
  <2>2. ~ IsCell(f, kind, NextRead(f, q, u))  BY <2>1 DEF IsChain
  <2> DEFINE i == Len(u) + 1
  <2>3. i \in 1 .. Len(v)  BY <1>3, <2>1
  <2>4. IsCell(f, kind, v[i]) /\ v[i] = IF i = 1 THEN q ELSE PrevOf(f, v[i - 1])
    BY <2>1, <2>3 DEF ReadFrom
  <2>5. CASE u = << >>
    <3>1. i = 1  BY <2>5
    <3> QED  BY <2>2, <2>4, <2>5, <3>1 DEF NextRead
  <2>6. CASE u # << >>
    <3>1. Len(u) # 0  BY <1>1, <1>3, <2>6
    <3>2. Len(u) \in 1 .. Len(u) /\ Len(u) \in 1 .. Len(v) /\ i # 1 /\ i - 1 = Len(u)
      BY <1>3, <2>1, <3>1
    <3>3. u[Len(u)] = v[Len(u)]  BY <1>2, <1>3, <2>1, <3>2
    <3> QED  BY <2>2, <2>4, <2>6, <3>2, <3>3 DEF NextRead
  <2> QED  BY <2>5, <2>6
<1>4. Len(s) = Len(t)  BY <1>1, <1>3
<1>5. \A i \in 1 .. Len(s) : s[i] = t[i]  BY <1>1, <1>2, <1>4
<1> QED  BY <1>1, <1>4, <1>5, SeqEqual

LEMMA ChainIs ==
  ASSUME NEW f \in File, NEW kind \in CellKind, NEW p \in cell_ptr
  PROVE  IsChain(f, kind, p, MaxChain(kind) + 1, Chain(f, kind, p))
<1> DEFINE By(q, k) == CHOOSE s \in Seq(cell_ptr) : IsChain(f, kind, q, k, s)
           by == [at \in cell_ptr \X Nat |-> By(at[1], at[2])]
           w == CHOOSE v : IsWalk(f, kind, v)
<1>1. Chain(f, kind, p) = w[<< p, MaxChain(kind) + 1 >>]  BY DEF Chain, IsWalk
<1>2. \A q \in cell_ptr, k \in Nat : IsChain(f, kind, q, k, By(q, k))
  BY ChainExists
<1> HIDE DEF By
<1>3. ASSUME NEW q \in cell_ptr, NEW k \in Nat
      PROVE  By(q, k) = IF k = 0 \/ ~ IsCell(f, kind, q) THEN << >>
                        ELSE << q >> \o by[<< PrevOf(f, q), k - 1 >>]
  <2>1. CASE k = 0 \/ ~ IsCell(f, kind, q)
    <3>1. IsChain(f, kind, q, k, << >>)  BY <2>1, ChainEmpty
    <3>2. By(q, k) = << >>  BY <1>2, <3>1, ChainUnique
    <3> QED  BY <2>1, <3>2
  <2>2. CASE ~ (k = 0 \/ ~ IsCell(f, kind, q))
    <3>1. k - 1 \in Nat  BY <2>2
    <3>2. PrevOf(f, q) \in cell_ptr  BY <2>2, PrevType
    <3>3. IsChain(f, kind, q, k, << q >> \o By(PrevOf(f, q), k - 1))
      BY <1>2, <2>2, <3>1, <3>2, ChainLonger
    <3> DEFINE t == << q >> \o By(PrevOf(f, q), k - 1)
    <3>4. By(q, k) = t
      <4>1. IsChain(f, kind, q, k, By(q, k)) /\ IsChain(f, kind, q, k, t)  BY <1>2, <3>3
      <4> HIDE DEF t
      <4> QED  BY <4>1, ChainUnique
    <3>5. by[<< PrevOf(f, q), k - 1 >>] = By(PrevOf(f, q), k - 1)  BY <3>1, <3>2
    <3> QED  BY <2>2, <3>4, <3>5
  <2> QED  BY <2>1, <2>2
<1>4. IsWalk(f, kind, by)
  <2>1. ASSUME NEW at \in cell_ptr \X Nat
        PROVE  by[at] = IF at[2] = 0 \/ ~ IsCell(f, kind, at[1]) THEN << >>
                        ELSE << at[1] >> \o by[<< PrevOf(f, at[1]), at[2] - 1 >>]
    <3>1. by[at] = By(at[1], at[2]) /\ at[1] \in cell_ptr /\ at[2] \in Nat  OBVIOUS
    <3> HIDE DEF by
    <3> QED  BY <1>3, <3>1
  <2>2. by = [at \in cell_ptr \X Nat |-> by[at]]  OBVIOUS
  <2> HIDE DEF by
  <2> QED  BY <2>1, <2>2 DEF IsWalk, PrevOf
<1>5. IsWalk(f, kind, w)  BY <1>4, Zenon
<1> HIDE DEF by, w
<1>6. ASSUME NEW q \in cell_ptr, NEW k \in Nat
      PROVE  w[<< q, k >>] = IF k = 0 \/ ~ IsCell(f, kind, q) THEN << >>
                             ELSE << q >> \o w[<< PrevOf(f, q), k - 1 >>]
  <2>1. << q, k >> \in cell_ptr \X Nat /\ << q, k >>[1] = q /\ << q, k >>[2] = k  OBVIOUS
  <2>2. w[<< q, k >>] = IF << q, k >>[2] = 0 \/ ~ IsCell(f, kind, << q, k >>[1]) THEN << >>
                        ELSE << << q, k >>[1] >> \o w[<< CellAt(f, << q, k >>[1]).prev, << q, k >>[2] - 1 >>]
    BY <1>5, <2>1, Zenon DEF IsWalk
  <2> QED  BY <2>2 DEF PrevOf
<1> DEFINE S == {k \in Nat : \E q \in cell_ptr : ~ IsChain(f, kind, q, k, w[<< q, k >>])}
<1>7. S = {}
  <2>1. SUFFICES ASSUME S # {}  PROVE FALSE  OBVIOUS
  <2>2. PICK k \in S : \A j \in S : k <= j  BY <2>1, LeastNumber, Zenon
  <2>3. PICK q \in cell_ptr : ~ IsChain(f, kind, q, k, w[<< q, k >>])  BY <2>2
  <2>4. k # 0 /\ IsCell(f, kind, q)  BY <1>6, <2>2, <2>3, ChainEmpty
  <2>5. k - 1 \in Nat /\ k - 1 \notin S  BY <2>2, <2>4
  <2>6. PrevOf(f, q) \in cell_ptr  BY <2>4, PrevType
  <2>7. IsChain(f, kind, PrevOf(f, q), k - 1, w[<< PrevOf(f, q), k - 1 >>])  BY <2>5, <2>6
  <2>8. w[<< q, k >>] = << q >> \o w[<< PrevOf(f, q), k - 1 >>]  BY <1>6, <2>2, <2>4
  <2> QED  BY <2>2, <2>3, <2>4, <2>7, <2>8, ChainLonger
<1>8. MaxChain(kind) + 1 \in Nat  BY LayoutAssumption DEF MaxChain, CellsIn
<1> QED  BY <1>1, <1>7, <1>8

-----------------------------------------------------------------------------
(* The chain of a node in use is made of cells of that node, none twice,   *)
(* and ends.                                                               *)
LEMMA ReadCell ==
  ASSUME NEW f, NEW kind, NEW q, NEW s, ReadFrom(f, kind, q, s), NEW i \in 1 .. Len(s)
  PROVE  /\ s[i] \in cell_ptr /\ IsCell(f, kind, s[i])
         /\ i = 1 => s[i] = q
         /\ i # 1 => i - 1 \in 1 .. Len(s) /\ s[i] = PrevOf(f, s[i - 1])
<1>1. s \in Seq(cell_ptr) /\ Len(s) \in Nat  BY DEF ReadFrom
<1>2. s[i] \in cell_ptr  BY <1>1
<1>3. i # 1 => i - 1 \in 1 .. Len(s)  BY <1>1
<1> QED  BY <1>2, <1>3 DEF ReadFrom

LEMMA ReadOfNode ==
  ASSUME NEW f, NEW kind, NEW o, ChainsApart(f, kind, o), NEW n \in cell_ptr, InUse(f, n),
         NEW s, ReadFrom(f, kind, LastOf(f, kind, n), s)
  PROVE  \A i \in 1 .. Len(s) : o[s[i]] = n
<1>1. n # NoRoom /\ n # Nobody  BY NodePlace DEF InUse
<1>2. \A i \in 1 .. Len(s) : s[i] # Null  BY ReadCell DEF ChainsApart
<1> DEFINE S == {i \in Nat : i \in 1 .. Len(s) /\ o[s[i]] # n}
<1>3. S = {}
  <2>1. SUFFICES ASSUME S # {}  PROVE FALSE  OBVIOUS
  <2>2. PICK i \in S : \A j \in S : i <= j  BY <2>1, LeastNumber, Zenon
  <2>3. i \in 1 .. Len(s) /\ o[s[i]] # n  BY <2>2
  <2>4. CASE i = 1
    <3>1. s[i] = LastOf(f, kind, n)  BY <2>3, <2>4, ReadCell
    <3> QED  BY <1>2, <2>3, <3>1 DEF ChainsApart, ChainBegins
  <2>5. CASE i # 1
    <3>1. /\ i - 1 \in 1 .. Len(s) /\ s[i] = PrevOf(f, s[i - 1]) /\ s[i - 1] \in cell_ptr
      BY <2>3, <2>5, ReadCell
    <3>2. i - 1 \in Nat /\ i - 1 \notin S  BY <2>2, <2>5
    <3>3. o[s[i - 1]] = n  BY <3>1, <3>2
    <3>4. ChainGoesOn(f, kind, o, s[i - 1])
      BY <1>1, <1>2, <2>3, <3>1, <3>3 DEF ChainsApart, OfNode
    <3> QED  BY <2>3, <3>1, <3>3, <3>4 DEF ChainGoesOn
  <2> QED  BY <2>4, <2>5
<1>4. ASSUME NEW i \in 1 .. Len(s)  PROVE o[s[i]] = n
  <2>1. i \in Nat  OBVIOUS
  <2> QED  BY <1>3, <2>1
<1> QED  BY <1>4

LEMMA ReadOnce ==
  ASSUME NEW f, NEW kind, NEW o, ChainsApart(f, kind, o), NEW n \in cell_ptr, InUse(f, n),
         NEW s, ReadFrom(f, kind, LastOf(f, kind, n), s)
  PROVE  \A i, j \in 1 .. Len(s) : s[i] = s[j] => i = j
<1>1. n # NoRoom /\ n # Nobody  BY NodePlace DEF InUse
<1>2. \A i \in 1 .. Len(s) : s[i] # Null /\ s[i] \in cell_ptr /\ o[s[i]] = n
  BY ReadCell, ReadOfNode, SMTT(30) DEF ChainsApart
<1>3. ASSUME NEW i \in 1 .. Len(s), i # 1
      PROVE  /\ i - 1 \in 1 .. Len(s) /\ s[i] = PrevOf(f, s[i - 1])
             /\ ChainGoesOn(f, kind, o, s[i - 1])
  <2>1. i - 1 \in 1 .. Len(s) /\ s[i] = PrevOf(f, s[i - 1])  BY <1>3, ReadCell
  <2> QED  BY <1>1, <1>2, <2>1 DEF ChainsApart, OfNode
<1> DEFINE S == {i \in Nat : i \in 1 .. Len(s) /\ \E j \in 1 .. Len(s) : i < j /\ s[i] = s[j]}
<1>4. S = {}
  <2>1. SUFFICES ASSUME S # {}  PROVE FALSE  OBVIOUS
  <2>2. PICK i \in S : \A j \in S : i <= j  BY <2>1, LeastNumber, Zenon
  <2>3. PICK j \in 1 .. Len(s) : i < j /\ s[i] = s[j]  BY <2>2
  <2>4. j # 1 /\ i \in 1 .. Len(s)  BY <2>2, <2>3
  <2>5. j - 1 \in 1 .. Len(s) /\ s[j] = PrevOf(f, s[j - 1]) /\ ChainGoesOn(f, kind, o, s[j - 1])
    BY <1>3, <2>4
  <2>6. o[s[j - 1]] = n /\ s[j - 1] \in cell_ptr  BY <1>2, <2>5
  <2>7. CASE i = 1
    <3>1. s[i] = LastOf(f, kind, n)  BY <2>4, <2>7, ReadCell
    <3> QED  BY <2>3, <2>5, <2>6, <3>1 DEF ChainGoesOn
  <2>8. CASE i # 1
    <3>1. i - 1 \in 1 .. Len(s) /\ s[i] = PrevOf(f, s[i - 1])  BY <1>3, <2>4, <2>8
    <3>2. o[s[i - 1]] = n /\ s[i - 1] \in cell_ptr  BY <1>2, <3>1
    <3>3. s[i - 1] = s[j - 1]  BY <2>3, <2>5, <2>6, <3>1, <3>2 DEF ChainGoesOn
    <3>4. i - 1 \in Nat /\ i - 1 \notin S  BY <2>2, <2>8
    <3>5. i - 1 < j - 1  BY <2>3, <2>4
    <3> QED  BY <2>5, <3>1, <3>3, <3>4, <3>5
  <2> QED  BY <2>7, <2>8
<1>5. ASSUME NEW i \in 1 .. Len(s), NEW j \in 1 .. Len(s), s[i] = s[j], i < j  PROVE FALSE
  <2>1. i \in Nat  OBVIOUS
  <2>2. i \in S  BY <1>5, <2>1
  <2> QED  BY <1>4, <2>2
<1> QED  BY <1>5

(* Cells that are all different fit into the blocks there are.             *)
LEMMA FewCells ==
  ASSUME NEW f, NEW kind \in CellKind, NEW s \in Seq(cell_ptr),
         \A i \in 1 .. Len(s) : IsCell(f, kind, s[i]),
         \A i, j \in 1 .. Len(s) : s[i] = s[j] => i = j
  PROVE  Len(s) <= MaxChain(kind)
<1> DEFINE A == 0 .. MAX_BLOCKS - 1
           B == 0 .. CellsIn(kind) - 1
           g == [i \in 1 .. Len(s) |-> << s[i].block_num, s[i].offset >>]
<1>1. MAX_BLOCKS \in Nat \ {0} /\ CellsIn(kind) \in Nat \ {0} /\ Len(s) \in Nat
  BY LayoutAssumption DEF CellsIn
<1>2. IsFiniteSet(A) /\ Cardinality(A) = MAX_BLOCKS
  <2>1. 0 \in Int /\ MAX_BLOCKS - 1 \in Int /\ ~ (0 > MAX_BLOCKS - 1)  BY <1>1
  <2>2. IsFiniteSet(A) /\ Cardinality(A) = MAX_BLOCKS - 1 - 0 + 1  BY <2>1, FS_Interval
  <2> QED  BY <1>1, <2>2
<1>9. IsFiniteSet(B) /\ Cardinality(B) = CellsIn(kind)
  <2>1. 0 \in Int /\ CellsIn(kind) - 1 \in Int /\ ~ (0 > CellsIn(kind) - 1)  BY <1>1
  <2>2. IsFiniteSet(B) /\ Cardinality(B) = CellsIn(kind) - 1 - 0 + 1  BY <2>1, FS_Interval
  <2> QED  BY <1>1, <2>2
<1>3. IsFiniteSet(1 .. Len(s)) /\ Cardinality(1 .. Len(s)) = Len(s)
  <2>1. 1 \in Int /\ Len(s) \in Int  BY <1>1
  <2>2. /\ IsFiniteSet(1 .. Len(s))
        /\ Cardinality(1 .. Len(s)) = IF 1 > Len(s) THEN 0 ELSE Len(s) - 1 + 1
    BY <2>1, FS_Interval
  <2> QED  BY <1>1, <2>2
<1>4. IsFiniteSet(A \X B) /\ Cardinality(A \X B) = MaxChain(kind)
  <2> HIDE DEF A, B
  <2> QED  BY <1>2, <1>9, FS_Product DEF MaxChain
<1>5. g \in [1 .. Len(s) -> A \X B]  BY DEF IsCell, Block
<1>6. ASSUME NEW i \in 1 .. Len(s), NEW j \in 1 .. Len(s), g[i] = g[j]  PROVE i = j
  <2>1. s[i].block_num = s[j].block_num /\ s[i].offset = s[j].offset  BY <1>6
  <2>2. s[i] \in cell_ptr /\ s[j] \in cell_ptr  OBVIOUS
  <2>3. \A a \in cell_ptr : a = Ptr(a.block_num, a.offset)  BY DEF cell_ptr, Ptr
  <2>4. s[i] = s[j]  BY <2>1, <2>2, <2>3
  <2> QED  BY <2>4
<1> HIDE DEF A, B, g
<1>7. MaxChain(kind) \in Nat  BY <1>1 DEF MaxChain
<1>8. ~ (Cardinality(A \X B) < Cardinality(1 .. Len(s)))
  BY <1>3, <1>4, <1>5, <1>6, FS_PigeonHole
<1> QED  BY <1>1, <1>3, <1>4, <1>7, <1>8

LEMMA ChainOfNode ==
  ASSUME NEW f \in File, NEW kind \in CellKind, NEW o, ChainsApart(f, kind, o),
         NEW n \in cell_ptr, InUse(f, n)
  PROVE  LET s == ChainOf(f, kind, n)
         IN  /\ ReadFrom(f, kind, LastOf(f, kind, n), s)
             /\ \A i \in 1 .. Len(s) : o[s[i]] = n
             /\ \A i, j \in 1 .. Len(s) : s[i] = s[j] => i = j
             /\ Len(s) <= MaxChain(kind)
             /\ NextRead(f, LastOf(f, kind, n), s) = Null
<1> DEFINE s == ChainOf(f, kind, n)
           l == LastOf(f, kind, n)
<1>1. l \in cell_ptr  BY LastType DEF InUse
<1>2. s = Chain(f, kind, l)  BY DEF ChainOf, LastOf
<1>3. IsChain(f, kind, l, MaxChain(kind) + 1, s)  BY <1>1, <1>2, ChainIs
<1> HIDE DEF s
<1>4. ReadFrom(f, kind, l, s) /\ s \in Seq(cell_ptr) /\ Len(s) \in Nat
  BY <1>3 DEF IsChain, ReadFrom
<1>5. \A i \in 1 .. Len(s) : o[s[i]] = n  BY <1>4, ReadOfNode
<1>6. \A i, j \in 1 .. Len(s) : s[i] = s[j] => i = j  BY <1>4, ReadOnce
<1>7. Len(s) <= MaxChain(kind)  BY <1>4, <1>6, ReadCell, FewCells
<1>8. MaxChain(kind) \in Nat  BY LayoutAssumption DEF MaxChain, CellsIn
<1>9. ~ IsCell(f, kind, NextRead(f, l, s))  BY <1>3, <1>4, <1>7, <1>8 DEF IsChain
<1>10. n # NoRoom /\ n # Nobody  BY NodePlace DEF InUse
<1>11. NextRead(f, l, s) = Null
  <2>1. \A q \in cell_ptr : o[q] = n => IsCell(f, kind, q)
    BY <1>10 DEF ChainsApart, OfNode
  <2>2. CASE s = << >>
    <3>1. NextRead(f, l, s) = l  BY <2>2 DEF NextRead
    <3> QED  BY <1>1, <1>9, <2>1, <3>1 DEF ChainsApart, ChainBegins
  <2>3. CASE s # << >>
    <3> DEFINE p == s[Len(s)]
    <3>1. Len(s) \in 1 .. Len(s)  BY <1>4, <2>3
    <3>2. p \in cell_ptr /\ o[p] = n /\ IsCell(f, kind, p)  BY <1>4, <1>5, <3>1, ReadCell
    <3>3. NextRead(f, l, s) = PrevOf(f, p)  BY <2>3 DEF NextRead
    <3> HIDE DEF p
    <3>4. PrevOf(f, p) \in cell_ptr  BY <3>2, PrevType
    <3>5. PrevOf(f, p) # Null => o[PrevOf(f, p)] = n
      BY <1>10, <3>2 DEF ChainsApart, OfNode, ChainGoesOn
    <3> QED  BY <1>9, <2>1, <3>3, <3>4, <3>5
  <2> QED  BY <2>2, <2>3
<1> QED  BY <1>4, <1>5, <1>6, <1>7, <1>11 DEF s

LEMMA ChainsReadable ==
  ASSUME NEW f \in File, NEW kind \in CellKind, NEW o, ChainsApart(f, kind, o),
         NEW n \in cell_ptr, InUse(f, n)
  PROVE  ChainReadable(f, kind, n)
<1> DEFINE s == ChainOf(f, kind, n)
           l == LastOf(f, kind, n)
<1>1. /\ ReadFrom(f, kind, l, s) /\ \A i \in 1 .. Len(s) : o[s[i]] = n
      /\ Len(s) <= MaxChain(kind) /\ NextRead(f, l, s) = Null
  BY ChainOfNode
<1> HIDE DEF s
<1>2. DOMAIN s = 1 .. Len(s)  BY <1>1 DEF ReadFrom
<1>3. n # NoRoom /\ n # Nobody  BY NodePlace DEF InUse
<1>4. ASSUME NEW i \in DOMAIN s  PROVE Spelled(f, kind, s[i])
  BY <1>1, <1>2, <1>3, ReadCell DEF ChainsApart, OfNode
<1>5. Null = IF s = << >> THEN NodeAt(f, n).last[kind] ELSE CellAt(f, s[Len(s)]).prev
  BY <1>1 DEF NextRead, LastOf, PrevOf
<1> QED  BY <1>1, <1>4, <1>5 DEF ChainReadable, Spelled, s

LEMMA AllReadable == CInv /\ KInv => AlwaysReadable
<1> SUFFICES ASSUME CInv, KInv, NEW f \in {file, disk}, NEW n \in NodesInUse(f),
                    NEW kind \in CellKind
             PROVE  ChainReadable(f, kind, n)
  BY DEF AlwaysReadable
<1>1. f \in File  BY Unfold DEF CInv
<1>2. n \in cell_ptr /\ InUse(f, n)  BY PtrTypes DEF NodesInUse, InUse
<1>3. PICK o \in Owners : ChainsApart(f, kind, o)
  BY DEF KInv, ReadableChains, ReadableIn
<1> QED  BY <1>1, <1>2, <1>3, ChainsReadable

(* What will be handed out is the pool's.                                  *)
LEMMA ReadOfPool ==
  ASSUME NEW f, NEW kind, NEW h \in cell_ptr, NEW o, PoolApart(f, kind, h, o),
         ~ IsCell(f, kind, Null), NEW s, ReadFrom(f, kind, h, s)
  PROVE  \A i \in 1 .. Len(s) : o[s[i]] = NoRoom
<1>1. \A q : IsCell(f, kind, q) => q # Null /\ q # NoRoom  BY CellPlace
<1>2. \A q : Ready(f, o, q) /\ IsCell(f, kind, q) => o[q] = NoRoom
  BY <1>1 DEF Ready, Listed, NeverWritten
<1> DEFINE S == {i \in Nat : i \in 1 .. Len(s) /\ o[s[i]] # NoRoom}
<1>3. S = {}
  <2>1. SUFFICES ASSUME S # {}  PROVE FALSE  OBVIOUS
  <2>2. PICK i \in S : \A j \in S : i <= j  BY <2>1, LeastNumber, Zenon
  <2>3. i \in 1 .. Len(s) /\ o[s[i]] # NoRoom  BY <2>2
  <2>4. IsCell(f, kind, s[i])  BY <2>3, ReadCell
  <2>5. CASE i = 1
    <3>1. s[i] = h  BY <2>3, <2>5, ReadCell
    <3> QED  BY <1>2, <2>3, <2>4, <3>1 DEF PoolApart
  <2>6. CASE i # 1
    <3>1. /\ i - 1 \in 1 .. Len(s) /\ s[i] = PrevOf(f, s[i - 1]) /\ s[i - 1] \in cell_ptr
      BY <2>3, <2>6, ReadCell
    <3>2. i - 1 \in Nat /\ i - 1 \notin S  BY <2>2, <2>6
    <3>3. o[s[i - 1]] = NoRoom  BY <3>1, <3>2
    <3>4. Listed(f, o, s[i - 1])  BY <1>1, <2>4, <3>1, <3>3 DEF Listed
    <3>5. Ready(f, o, s[i])  BY <3>1, <3>4 DEF PoolApart, PoolGoesOn
    <3> QED  BY <1>2, <2>3, <2>4, <3>5
  <2> QED  BY <2>5, <2>6
<1>4. ASSUME NEW i \in 1 .. Len(s)  PROVE o[s[i]] = NoRoom
  <2>1. i \in Nat  OBVIOUS
  <2> QED  BY <1>3, <2>1
<1> QED  BY <1>4

LEMMA PtrOfCell ==
  ASSUME NEW kind \in CellKind, NEW p \in CellPtr(kind)
  PROVE  p \in cell_ptr
<1>1. PICK b \in Block, i \in 0 .. CellsIn(kind) - 1 : p = Ptr(b, i)  BY DEF CellPtr
<1>2. i \in Nat /\ b \in -1 .. MAX_BLOCKS - 1  BY LayoutAssumption DEF Block, CellsIn
<1> QED  BY <1>1, <1>2 DEF Ptr, cell_ptr

LEMMA HandoutsOfPool ==
  ASSUME NEW f \in File, NEW kind \in CellKind, f[0].head[kind] \in cell_ptr, NEW o,
         PoolApart(f, kind, f[0].head[kind], o), ~ IsCell(f, kind, Null),
         NEW p \in Handouts(f, kind)
  PROVE  o[p] = NoRoom
<1> DEFINE h == f[0].head[kind]
           s == Chain(f, kind, h)
           list == ChainSet(f, kind, h)
<1>1. IsChain(f, kind, h, MaxChain(kind) + 1, s)  BY ChainIs
<1>2. list = {s[i] : i \in DOMAIN s}  BY DEF ChainSet
<1>3. p \in list \/ (p \in Cells(f, kind) /\ \E q \in list :
         CellAt(f, q).prev = Null /\ q.block_num = p.block_num /\ q.offset < p.offset)
  BY DEF Handouts
<1> HIDE DEF s, list
<1>4. ReadFrom(f, kind, h, s) /\ DOMAIN s = 1 .. Len(s)  BY <1>1 DEF IsChain, ReadFrom
<1>5. \A q \in list : o[q] = NoRoom /\ q \in cell_ptr
  BY <1>2, <1>4, ReadOfPool, ReadCell
<1>6. ASSUME p \in Cells(f, kind), NEW q \in list, CellAt(f, q).prev = Null,
             q.block_num = p.block_num, q.offset < p.offset
      PROVE  o[p] = NoRoom
  <2>1. p \in cell_ptr /\ IsCell(f, kind, p)  BY <1>6, PtrOfCell DEF Cells
  <2>2. NeverWritten(f, o, q)  BY <1>5, <1>6 DEF NeverWritten, PrevOf
  <2>3. Precedes(q, p)  BY <1>6 DEF Precedes
  <2> QED  BY <1>5, <2>1, <2>2, <2>3 DEF PoolApart, NeverWritten
<1> QED  BY <1>3, <1>5, <1>6

LEMMA CellsAtRest == CInv /\ KInv => CellsOwnedOnce
<1> SUFFICES ASSUME CInv, KInv, AtRest, NEW kind \in CellKind
             PROVE  /\ \A n \in NodesInUse(file) :
                         LET c == ChainOf(file, kind, n)
                         IN \A i, j \in DOMAIN c : c[i] = c[j] => i = j
                    /\ \A m, n \in NodesInUse(file) :
                         m # n => ChainSet(file, kind, NodeAt(file, m).last[kind])
                                    \cap ChainSet(file, kind, NodeAt(file, n).last[kind]) = {}
                    /\ LiveCells(file, kind) \cap Handouts(file, kind) = {}
  BY DEF CellsOwnedOnce
<1>1. ~ Down /\ ~ Updating  BY DEF AtRest, Down, Updating
<1>2. file \in File /\ ctrl_block = file[0] /\ ctrl_block.head[kind] \in cell_ptr
  BY <1>1, Unfold DEF CInv, ControlCoherent, Pool
<1>3. PICK o \in Owners : Held(kind, o)  BY <1>1 DEF KInv, MemCells, AllHeld
<1>4. ChainsApart(file, kind, o) /\ PoolApart(file, kind, file[0].head[kind], o)
  BY <1>2, <1>3 DEF Held, Shared
<1>5. ASSUME NEW n \in NodesInUse(file)
      PROVE  /\ \A i, j \in DOMAIN ChainOf(file, kind, n) :
                  ChainOf(file, kind, n)[i] = ChainOf(file, kind, n)[j] => i = j
             /\ \A p \in ChainSet(file, kind, NodeAt(file, n).last[kind]) : o[p] = n
             /\ n # NoRoom
  <2> DEFINE s == ChainOf(file, kind, n)
  <2>1. n \in cell_ptr /\ InUse(file, n)  BY PtrTypes DEF NodesInUse, InUse
  <2>2. /\ ReadFrom(file, kind, LastOf(file, kind, n), s)
        /\ \A i \in 1 .. Len(s) : o[s[i]] = n
        /\ \A i, j \in 1 .. Len(s) : s[i] = s[j] => i = j
    BY <1>2, <1>4, <2>1, ChainOfNode
  <2>3. ChainSet(file, kind, NodeAt(file, n).last[kind]) = {s[i] : i \in DOMAIN s}
    BY DEF ChainSet, ChainOf
  <2> HIDE DEF s
  <2>4. DOMAIN s = 1 .. Len(s)  BY <2>2 DEF ReadFrom
  <2>5. n # NoRoom  BY <2>1, NodePlace DEF InUse
  <2> QED  BY <2>2, <2>3, <2>4, <2>5 DEF s
<1>6. ASSUME NEW p \in LiveCells(file, kind)  PROVE o[p] # NoRoom
  <2>1. PICK n \in NodesInUse(file) : p \in ChainSet(file, kind, NodeAt(file, n).last[kind])
    BY DEF LiveCells
  <2> QED  BY <1>5, <2>1
<1>7. ASSUME NEW p \in Handouts(file, kind)  PROVE o[p] = NoRoom
  BY <1>2, <1>4, HandoutsOfPool DEF ChainsApart
<1>8. LiveCells(file, kind) \cap Handouts(file, kind) = {}  BY <1>6, <1>7
<1>9. ASSUME NEW m \in NodesInUse(file), NEW n \in NodesInUse(file), m # n
      PROVE  ChainSet(file, kind, NodeAt(file, m).last[kind])
               \cap ChainSet(file, kind, NodeAt(file, n).last[kind]) = {}
  BY <1>5, <1>9
<1> QED  BY <1>5, <1>8, <1>9

(* Every cell belongs to one place of one chain, or to the pool of the     *)
(* cells to hand out (create_X_cell, update_node_X, remove_X, free_X_cell, *)
(* allocate_new_block): for every size of the file, every command, a       *)
(* process killed only while it removes cells and stopped anywhere but in  *)
(* the allocator, as long as the first node of the file is not deleted and *)
(* no command takes two cells out of one chain of one node.                *)
THEOREM CellsOwnedOnceHolds ==
  ASSUME CellSafePoints
  PROVE  Spec /\ []FirstNodeStays /\ []OneCellEach => []CellsOwnedOnce
BY CellsInvariant, CellsAtRest, PTL

(* Under the same conditions the chains of every node, in the file as the  *)
(* process sees it and as a kill would leave it, end and lead to written   *)
(* strings only: a string is written before the cell that names it, a cell *)
(* before the pointer to it (write_in_file in create_X_cell, update_node_X *)
(* and remove_X).                                                          *)
THEOREM AlwaysReadableHolds ==
  ASSUME CellSafePoints
  PROVE  Spec /\ []FirstNodeStays /\ []OneCellEach => []AlwaysReadable
BY CellsInvariant, AllReadable, PTL

-----------------------------------------------------------------------------
(* Nothing is read as what it is not.  What the invariants above say of    *)
(* nodes and cells is all the steps need of them; what is missing is the   *)
(* block that strings are stored in, and that there is a control block.    *)
StringHead(f, c) ==
  LET b == c.head["STRING"].block_num IN b = -1 \/ (b \in Block /\ f[b].type = "STRING")
ControlThere ==
  /\ file[0].type = "CONTROL"
  /\ exec.pc \notin {"idle", "down"} => disk[0].type = "CONTROL"
StringBlocks ==
  /\ ~ Down => StringHead(file, ctrl_block)
  /\ Place = "string_in_new_block" => ctrl_block.head["STRING"].block_num # -1
  /\ StringHead(file, file[0])
  /\ disk[0].type = "CONTROL" => StringHead(disk, disk[0])
NothingToDo == Place \in {"idle", "down", "wild"} => exec.jobs = << >> /\ ~ Updating
PutsValues ==
  Place \in StringPCs \cup {"write_value"} /\ exec.current # Null => job.op = "put"
TInv == NeverWild /\ ControlThere /\ StringBlocks /\ NothingToDo /\ PutsValues

(* Blocks of strings stay such.                                            *)
StringBlocksKept(f, g) == \A b \in Block : f[b].type = "STRING" => g[b].type = "STRING"

LEMMA HeadKept ==
  ASSUME NEW f, NEW g, StringBlocksKept(f, g), NEW c, StringHead(f, c), NEW d,
         d.head["STRING"].block_num = c.head["STRING"].block_num
  PROVE  StringHead(g, d)
BY DEF StringBlocksKept, StringHead

(* A step that is not out of place leaves nothing out of place.            *)
LEMMA TameStep ==
  ASSUME TInv, ~ Down, StringBlocksKept(file, file'), file'[0].type = "CONTROL",
         file'[0].head["STRING"] \in {file[0].head["STRING"], ctrl_block.head["STRING"]},
         StringHead(file', ctrl_block'),
         disk' \in {file, file'} \/ (disk' = disk /\ exec.pc # "idle"),
         Place' \notin {"idle", "down", "wild"}, PutsValues',
         Place' = "string_in_new_block" => ctrl_block'.head["STRING"].block_num # -1
  PROVE  TInv'
<1>1. StringHead(file, file[0]) /\ StringHead(file, ctrl_block)
  BY DEF TInv, StringBlocks
<1>2. StringHead(file', file'[0])  BY <1>1, HeadKept
<1>3. exec'.pc # "wild" /\ NothingToDo'
  BY DEF Place, Updating, NothingToDo
<1>4. exec'.pc \notin {"idle", "down"} => disk'[0].type = "CONTROL"
  BY DEF TInv, ControlThere, Down
<1>5. disk'[0].type = "CONTROL" => StringHead(disk', disk'[0])
  BY <1>1, <1>2 DEF TInv, StringBlocks
<1> QED  BY <1>2, <1>3, <1>4, <1>5 DEF TInv, NeverWild, ControlThere, StringBlocks

(* Most steps leave the head of the strings in the block it is in.         *)
LEMMA TameWrite ==
  ASSUME TInv, ~ Down, StringBlocksKept(file, file'), file'[0].type = "CONTROL",
         file'[0].head["STRING"] \in {file[0].head["STRING"], ctrl_block.head["STRING"]},
         ctrl_block'.head["STRING"].block_num = ctrl_block.head["STRING"].block_num,
         disk' \in {file, file'} \/ (disk' = disk /\ exec.pc # "idle"),
         Place' \notin {"idle", "down", "wild"}, PutsValues',
         Place' = "string_in_new_block" => Place = "string_in_new_block"
  PROVE  TInv'
<1>1. StringHead(file, ctrl_block)  BY DEF TInv, StringBlocks
<1>2. StringHead(file', ctrl_block')  BY <1>1, HeadKept
<1>3. Place' = "string_in_new_block" => ctrl_block'.head["STRING"].block_num # -1
  BY DEF TInv, StringBlocks
<1> QED  BY <1>2, <1>3, TameStep

LEMMA TameRead ==
  ASSUME TInv, ~ Down, UNCHANGED <<file, ctrl_block>>,
         disk' = file \/ (disk' = disk /\ exec.pc # "idle"),
         Place' \notin {"idle", "down", "wild", "string_in_new_block"}, PutsValues'
  PROVE  TInv'
<1>1. StringBlocksKept(file, file')  BY DEF StringBlocksKept
<1>2. file[0].type = "CONTROL"  BY DEF TInv, ControlThere
<1> QED  BY <1>1, <1>2, TameWrite

(* Steps that write a block and keep its type, block 0 but for its nodes.  *)
LEMMA TypesStay ==
  ASSUME NEW f, NEW g, NEW b, WritesBlock(f, g, b)
  PROVE  StringBlocksKept(f, g) /\ (f[0].type = "CONTROL" => g[0].type = "CONTROL")
BY LayoutAssumption DEF WritesBlock, StringBlocksKept, Block

(* The allocator.                                                          *)
LEMMA ControlTame ==
  ASSUME CInv, TInv, update_control_block
  PROVE  TInv'
<1>1. /\ file \in File /\ ctrl_block \in control_block /\ exec \in exec_type
      /\ ~ Down /\ Updating /\ exec.pc = "update_control_block"
      /\ file' = [file EXCEPT ![0] = ctrl_block] /\ ctrl_block' = ctrl_block /\ disk' = file
      /\ exec' = [exec EXCEPT !.pc = exec.ret]
  BY Unfold DEF CInv, update_control_block, Down, Updating, LastWriteUnflushed
<1>2. exec'.pc = exec.ret /\ exec.ret \notin UpdatingPCs /\ Place = exec.ret
  BY <1>1 DEF CInv, RetOK, Place, exec_type
<1>3. Place' = Place  BY <1>2 DEF Place, Updating, UpdatingPCs
<1>4. Place \notin {"idle", "down", "wild"}  BY <1>1 DEF TInv, NothingToDo
<1>5. file'[0] = ctrl_block /\ ctrl_block.type = "CONTROL" /\ file[0].type = "CONTROL"
      /\ \A b \in Block : b # 0 => file'[b] = file[b]
  BY <1>1, LayoutAssumption DEF File, Block, control_block, TInv, ControlThere
<1>6. StringBlocksKept(file, file')  BY <1>5 DEF StringBlocksKept
<1>7. PutsValues'
  <2>1. exec'.jobs = exec.jobs /\ exec'.current = exec.current  BY <1>1 DEF exec_type
  <2> QED  BY <1>3, <2>1 DEF TInv, PutsValues, job
<1> QED  BY <1>1, <1>3, <1>4, <1>5, <1>6, <1>7, TameWrite

LEMMA ChainTame ==
  ASSUME CInv, BInv, NInv, TInv, chain_node_block \/ chain_update_control
  PROVE  TInv'
<1>1. /\ file \in File /\ ctrl_block \in control_block /\ exec \in exec_type
      /\ ~ Down /\ Updating /\ exec.pc \in {"chain_node_block", "chain_update_control"}
      /\ disk' = file /\ file[0].type = "CONTROL" /\ 0 \in Block
  BY Unfold, LayoutAssumption
  DEF CInv, chain_node_block, chain_update_control, Down, Updating, LastWriteUnflushed,
      TInv, ControlThere, Block
<1>6. exec'.pc \in {"chain_update_control", "update_control_block"} /\ exec'.ret = exec.ret
  <2>1. CASE chain_node_block  BY <1>1, <2>1 DEF chain_node_block, exec_type
  <2>2. CASE chain_update_control
    BY <1>1, <2>2 DEF chain_update_control, UpdateControlThen, exec_type
  <2> QED  BY <2>1, <2>2
<1>2. Place = "create_node_cell" /\ Place' = "create_node_cell"
  BY <1>1, <1>6 DEF CInv, RetOK, Place, Updating
<1>7. PutsValues'  BY <1>2 DEF PutsValues, StringPCs
<1>3. ctrl_block'.head = ctrl_block.head
  BY <1>1 DEF chain_node_block, chain_update_control, control_block
<1>4. CASE chain_node_block
  <2> DEFINE b == ctrl_block.empty_block
             new == [ZeroBlock("NODE") EXCEPT !.prev_block = ctrl_block.prev_node_block]
  <2>1. b \in Block /\ file[b] = ZeroBlock("NODE")
    BY <1>4 DEF chain_node_block, BInv, MemLinked, NInv, NewBlockBlank
  <2>2. ZeroBlock("NODE").type = "NODE" /\ new.type = "NODE"  BY DEF ZeroBlock
  <2>3. b # 0  BY <1>1, <2>1, <2>2
  <2>4. file' = [file EXCEPT ![b] = new]  BY <1>4 DEF chain_node_block
  <2> HIDE DEF b, new
  <2>5. file'[b] = new /\ \A a \in Block : a # b => file'[a] = file[a]
    BY <1>1, <2>1, <2>4 DEF File
  <2>6. StringBlocksKept(file, file') /\ file'[0] = file[0]
    BY <1>1, <2>1, <2>2, <2>3, <2>5 DEF StringBlocksKept
  <2> QED  BY <1>1, <1>2, <1>3, <1>7, <2>6, TameWrite
<1>5. CASE chain_update_control
  <2>1. file' = [file EXCEPT ![0] = ctrl_block]  BY <1>5 DEF chain_update_control
  <2>2. file'[0] = ctrl_block /\ ctrl_block.type = "CONTROL"
        /\ \A b \in Block : b # 0 => file'[b] = file[b]
    BY <1>1, <2>1 DEF File, control_block
  <2>3. StringBlocksKept(file, file')  BY <1>1, <2>2 DEF StringBlocksKept
  <2> QED  BY <1>1, <1>2, <1>3, <1>7, <2>2, <2>3, TameWrite
<1> QED  BY <1>4, <1>5

LEMMA AllocateTame ==
  ASSUME CInv, BInv, TInv, ~ Down, ~ Updating, NEW type \in Pool, NEW ret,
         ret \notin {"idle", "down", "wild"}, allocate_new_block(type, ret),
         ret = "string_in_new_block" => type = "STRING",
         ret \in StringPCs \cup {"write_value"} => exec.pc \in StringPCs
  PROVE  TInv'
<1> DEFINE b == ctrl_block.empty_block
           h == Ptr(b, ctrl_block.head[type].offset)
<1>1. /\ file \in File /\ ctrl_block \in control_block /\ exec \in exec_type /\ b \in Block /\ b # 0
      /\ 0 \in Block
  BY Unfold, LayoutAssumption DEF CInv, allocate_new_block, Block
<1>2. /\ file' = [file EXCEPT ![b] = ZeroBlock(type)] /\ disk' = file
      /\ \/ /\ ctrl_block' = [ctrl_block EXCEPT !.head[type] = h]
            /\ exec' = [exec EXCEPT !.pc = "chain_node_block", !.ret = ret]
         \/ /\ ctrl_block' = [ctrl_block EXCEPT
                 !.head[type] = h, !.empty_block = b + 1,
                 !.prev_node_block = IF type = "NODE" THEN b ELSE @]
            /\ exec' = [exec EXCEPT !.pc = "update_control_block", !.ret = ret]
  BY DEF allocate_new_block, UpdateControlThen, LastWriteUnflushed
<1>3. ctrl_block'.head = [ctrl_block.head EXCEPT ![type] = h] /\ DOMAIN ctrl_block.head = Pool
  BY <1>1, <1>2 DEF control_block
<1>4. exec'.pc \in {"chain_node_block", "update_control_block"} /\ exec'.ret = ret
  BY <1>1, <1>2 DEF exec_type
<1>5. Place' = ret  BY <1>4 DEF Place, Updating
<1>6. file[b].type = "ABSENT"
  <2>1. exec.pc \notin ChainPCs  BY DEF ChainPCs, Updating
  <2> QED  BY <1>1, <2>1 DEF BInv, MemLinked, AbsentFrom, Block
<1>7. file'[b] = ZeroBlock(type) /\ \A a \in Block : a # b => file'[a] = file[a]
  BY <1>1, <1>2 DEF File
<1>8. StringBlocksKept(file, file') /\ file'[0] = file[0]
  BY <1>1, <1>6, <1>7 DEF StringBlocksKept
<1>9. file[0].type = "CONTROL"  BY DEF TInv, ControlThere
<1>12. PutsValues'
  <2>1. exec'.jobs = exec.jobs /\ exec'.current = exec.current  BY <1>1, <1>2 DEF exec_type
  <2>2. Place = exec.pc  BY DEF Place
  <2> QED  BY <1>5, <2>1, <2>2 DEF TInv, PutsValues, job
<1>10. CASE type # "STRING"
  <2>1. ctrl_block'.head["STRING"] = ctrl_block.head["STRING"]
    BY <1>3, <1>10 DEF Pool
  <2> QED  BY <1>2, <1>5, <1>8, <1>9, <1>10, <1>12, <2>1, TameWrite
<1>11. CASE type = "STRING"
  <2>1. ctrl_block'.head["STRING"].block_num = b  BY <1>3, <1>11 DEF Pool, Ptr
  <2>2. file'[b].type = "STRING"  BY <1>7, <1>11 DEF ZeroBlock
  <2>3. StringHead(file', ctrl_block')  BY <1>1, <2>1, <2>2 DEF StringHead
  <2>4. b # -1  BY <1>1 DEF Block
  <2> QED  BY <1>2, <1>5, <1>8, <1>9, <1>12, <2>1, <2>3, <2>4, TameStep
<1> QED  BY <1>10, <1>11

(* Nodes created, and the loops over them.                                 *)
LEMMA NodeWriteTame ==
  ASSUME CInv, TInv, ~ Down, NEW p \in cell_ptr, IsNode(file, p), NEW n \in node_cell,
         file' = WriteNode(file, p, n), ctrl_block'.head["STRING"] = ctrl_block.head["STRING"],
         disk' \in {file, file'}, Place' \notin {"idle", "down", "wild", "string_in_new_block"},
         PutsValues'
  PROVE  TInv'
<1>1. file \in File /\ file[0].type = "CONTROL"  BY Unfold DEF CInv, TInv, ControlThere
<1>2. WritesBlock(file, file', p.block_num)  BY <1>1, WriteNodeType
<1>3. StringBlocksKept(file, file') /\ file'[0].type = "CONTROL"  BY <1>1, <1>2, TypesStay
<1>4. file'[0].head = file[0].head  BY <1>1, NodeWritten
<1> QED  BY <1>3, <1>4, TameWrite

LEMMA CreateNodeTame ==
  ASSUME CInv, BInv, NInv, TInv, create_node_cell
  PROVE  TInv'
<1> DEFINE h == ctrl_block.head["NODE"]
           new == [ZeroNode EXCEPT !.is_empty = 1]
           after == HeadAfter(h, NodeAt(file, h).last["LABEL"], NodesIn(h.block_num))
<1>1. /\ exec.pc = "create_node_cell" /\ ~ Down /\ ~ Updating
      /\ ctrl_block \in control_block /\ exec \in exec_type /\ file \in File /\ h \in cell_ptr
  BY Unfold DEF create_node_cell, Down, Updating, CInv, Pool
<1>2. ctrl_block = file[0]  BY <1>1 DEF CInv, ControlCoherent
<1>3. CASE h.block_num = -1
  <2> DEFINE type == "NODE"
             ret == "create_node_cell"
  <2>1. type \in Pool /\ ret \notin {"idle", "down", "wild"} \cup StringPCs \cup {"write_value"}
    BY DEF Pool, StringPCs
  <2>2. allocate_new_block(type, ret)  BY <1>3 DEF create_node_cell
  <2>3. ret # "string_in_new_block"  OBVIOUS
  <2> HIDE DEF type, ret
  <2> QED  BY <1>1, <2>1, <2>2, <2>3, AllocateTame
<1>4. CASE h.block_num # -1
  <2>1. IsNode(file, h)
    <3>1. CanHandOut(file, h)  BY <1>1 DEF NInv, MemSound, PoolSound
    <3> QED  BY <1>4, <3>1 DEF CanHandOut, Freed, FirstUnused, Unused, NoRoom, Ptr
  <2> HIDE DEF after
  <2>2. /\ file' = WriteNode(file, h, new) /\ disk' \in {file, file'}
        /\ IF h.block_num = 0 THEN ctrl_block' = [file'[0] EXCEPT !.head["NODE"] = after]
           ELSE ctrl_block' = [ctrl_block EXCEPT !.head["NODE"] = after]
        /\ exec' = [exec EXCEPT !.pc = "update_control_block", !.ret = "next",
                                !.matched = {h}, !.left = {h}]
    BY <1>4, <2>1 DEF create_node_cell, after, AllFlushed, LastWriteUnflushed
  <2>3. new \in node_cell  BY ZeroTypes DEF node_cell
  <2>4. file'[0] \in control_block /\ file'[0].head = file[0].head
    BY <1>1, <2>1, <2>2, <2>3, NodeWrite, NodeWritten
  <2>5. ctrl_block'.head["STRING"] = ctrl_block.head["STRING"]
    BY <1>1, <1>2, <2>2, <2>4, SMTT(30) DEF control_block, Pool
  <2>6. Place' = "next"
    <3>1. exec'.pc = "update_control_block" /\ exec'.ret = "next"  BY <1>1, <2>2 DEF exec_type
    <3> QED  BY <3>1 DEF Place, Updating
  <2>7. PutsValues'  BY <2>6 DEF PutsValues, StringPCs
  <2> QED  BY <1>1, <2>1, <2>2, <2>3, <2>5, <2>6, <2>7, NodeWriteTame
<1> QED  BY <1>3, <1>4

LEMMA NextNodeTame ==
  ASSUME CInv, NInv, TInv, next_node
  PROVE  TInv'
<1>1. /\ exec \in exec_type /\ ~ Down /\ exec.jobs # << >>
      /\ disk' = file /\ UNCHANGED <<file, ctrl_block>>
  BY Unfold DEF CInv, next_node, Down, ReadOnly
<1>2. \A p \in exec.left : IsNode(file, p)  BY <1>1 DEF NInv, NodesHeld, InUse
<1> DEFINE texts == IF job.op = "add" THEN Texts(job) ELSE << >>
           strings == IF job.op = "relate" THEN exec.strings ELSE << >>
           current(p) == IF job.op \in {"put", "remove"}
                         THEN NodeAt(file, p).last[job.kind] ELSE Null
<1>3. PICK p \in exec.left :
        exec' = [exec EXCEPT
             !.pc = Entry(job.op), !.left = @ \ {p}, !.node = p, !.prev = p,
             !.texts = texts, !.strings = strings,
             !.following = Null, !.has_changed = FALSE,
             !.others = exec.seconds, !.lost_place = FALSE, !.current = current(p)]
  BY <1>2 DEF next_node
<1>4. job.op \notin {"put", "remove"} => current(p) = Null  OBVIOUS
<1> HIDE DEF texts, strings, current
<1>5. exec'.pc = Entry(job.op) /\ exec'.jobs = exec.jobs /\ exec'.current = current(p)
  BY <1>1, <1>3 DEF exec_type
<1>6. job.op \in {"add", "put", "relate", "remove", "free"}
  BY <1>1, JobType DEF exec_type, job
<1>7. /\ Entry(job.op) \in {"create_string_cell", "find_node_attribute", "remove",
                            "next_second", "free_node"}
      /\ Entry(job.op) = "create_string_cell" => job.op = "add"
  BY <1>6 DEF Entry
<1>8. Place' = Entry(job.op)  BY <1>5, <1>7 DEF Place, Updating
<1>9. PutsValues'  BY <1>4, <1>5, <1>7, <1>8 DEF PutsValues, StringPCs
<1> QED  BY <1>1, <1>7, <1>8, <1>9, TameRead

LEMMA LoopTame ==
  ASSUME CInv, TInv, next_job \/ next_second
  PROVE  TInv'
<1>1. /\ exec \in exec_type /\ ~ Down /\ exec.pc # "idle"
      /\ UNCHANGED <<file, disk, ctrl_block>>
  BY Unfold DEF CInv, next_job, next_second, Down
<1>2. exec'.pc \in {"next", "create_cell"}
  <2>1. CASE next_job  BY <1>1, <2>1 DEF next_job, exec_type
  <2>2. CASE next_second  BY <1>1, <2>2 DEF next_second, exec_type
  <2> QED  BY <2>1, <2>2
<1>3. Place' \in {"next", "create_cell"}  BY <1>2 DEF Place, Updating
<1>4. PutsValues'  BY <1>3 DEF PutsValues, StringPCs
<1> QED  BY <1>1, <1>3, <1>4, TameRead

(* Between two commands.                                                   *)
LEMMA IdleTame ==
  ASSUME TInv, ~ Down, UNCHANGED <<file, ctrl_block>>, disk' \in {disk, file},
         exec'.pc = "idle", exec'.jobs = << >>
  PROVE  TInv'
<1>1. Place' = "idle" /\ ~ Updating'  BY DEF Place, Updating
<1>2. StringHead(file, file[0]) /\ StringHead(file, ctrl_block) /\ file[0].type = "CONTROL"
  BY DEF TInv, ControlThere, StringBlocks
<1>3. disk'[0].type = "CONTROL" => StringHead(disk', disk'[0])
  BY <1>2 DEF TInv, StringBlocks
<1>4. StringBlocks'  BY <1>1, <1>2, <1>3 DEF StringBlocks
<1> QED  BY <1>1, <1>2, <1>4
         DEF TInv, NeverWild, ControlThere, NothingToDo, PutsValues, StringPCs

LEMMA RespondTame ==
  ASSUME TInv, respond
  PROVE  TInv'
<1>1. exec'.pc = "idle" /\ exec'.jobs = << >>  BY DEF respond, Idle
<1> QED  BY <1>1, IdleTame DEF respond, Down

(* A cell of a node at hand is one the code can read.                      *)
LEMMA OfNodeCell ==
  ASSUME NEW f, NEW kind, NEW o, ChainsApart(f, kind, o), NEW n, InUse(f, n), NEW p \in cell_ptr, o[p] = n
  PROVE  IsCell(f, kind, p) /\ Spelled(f, kind, p)
<1>1. n # NoRoom /\ n # Nobody  BY NodePlace DEF InUse
<1> QED  BY <1>1 DEF ChainsApart, OfNode

LEMMA FindAttributeTame ==
  ASSUME CInv, NInv, KInv, TInv, find_node_attribute
  PROVE  TInv'
<1>1. /\ exec \in exec_type /\ ~ Down /\ ~ Updating /\ exec.pc = "find_node_attribute"
      /\ disk' = file /\ UNCHANGED <<file, ctrl_block>> /\ Place = "find_node_attribute"
      /\ exec.current \in cell_ptr
  BY Unfold DEF CInv, find_node_attribute, Down, Updating, ReadOnly, Place, exec_type
<1>2. exec.jobs # << >> /\ job.op = "put"
  BY <1>1 DEF CInv, IInv, ExecOK, InOp, JobPCs
<1>3. job.kind = "ATTRIBUTE" /\ "ATTRIBUTE" \in CellKind
  BY <1>1, <1>2, JobType DEF exec_type, job, CellKind
<1>4. InUse(file, exec.node)  BY <1>1, <1>2 DEF NInv, NodesHeld, AtNode, NodePCs
<1>5. exec.current.block_num # 0 =>
        IsCell(file, "ATTRIBUTE", exec.current) /\ IsString(file, CellAt(file, exec.current).name)
  <2>1. PICK o \in Owners : Held("ATTRIBUTE", o)  BY <1>1, <1>3 DEF KInv, MemCells, AllHeld
  <2>2. ChainsApart(file, "ATTRIBUTE", o) /\ OfItsNode(o, exec.current)
    BY <1>1, <1>2, <1>3, <2>1 DEF Held, InHands, Shared
  <2>3. exec.current.block_num # 0 => o[exec.current] = exec.node
    BY <2>2 DEF OfItsNode, Null, Ptr
  <2> QED  BY <1>1, <1>4, <2>2, <2>3, OfNodeCell DEF Spelled
<1>6. exec'.pc \in {"create_string_cell", "find_node_attribute"} /\ exec'.jobs = exec.jobs
  BY <1>1, <1>5 DEF find_node_attribute, exec_type
<1>7. Place' \in {"create_string_cell", "find_node_attribute"}
  BY <1>6 DEF Place, Updating
<1>8. PutsValues'  BY <1>2, <1>6 DEF PutsValues, job
<1> QED  BY <1>1, <1>7, <1>8, TameRead

-----------------------------------------------------------------------------
(* Strings.  One fits into a block of its own; and the room left in a      *)
(* block is not by one byte or two too small for the string, its length    *)
(* and its 0 byte together: the test of create_string_cell, which looks at *)
(* the length of the string alone, would find room.                        *)
StringsShort == \A s \in String : strlen[s] + 3 <= STRING_DATA
RoomForStrings ==
  exec.pc = "create_string_cell" =>
    STRING_DATA - ctrl_block.head["STRING"].offset
      \notin {strlen[Head(exec.texts)] + 1, strlen[Head(exec.texts)] + 2}

LEMMA StoreTame ==
  ASSUME CInv, TInv, exec.pc \in StringPCs, NEW p, p.block_num \in Block,
         file[p.block_num].type = "STRING", file' = WriteString(file, p, Head(exec.texts)),
         ctrl_block'.head["STRING"].block_num = ctrl_block.head["STRING"].block_num,
         StringDone(p), LastWriteUnflushed
  PROVE  TInv'
<1>1. ~ Down /\ ~ Updating /\ exec \in exec_type /\ file \in File /\ 0 \in Block
      /\ file[0].type = "CONTROL"
  BY Unfold, LayoutAssumption DEF Down, StringPCs, Updating, CInv, TInv, ControlThere, Block
<1>2. Head(exec.texts) \in String
  <2>1. exec.texts # << >> /\ exec.texts \in Seq(String)
    BY Unfold DEF CInv, IInv, ExecOK, InOp, exec_type
  <2> QED  BY <2>1
<1>3. WritesBlock(file, file', p.block_num)  BY <1>1, <1>2, WriteStringType
<1>4. file'[0] = file[0]  BY <1>1, <1>3 DEF WritesBlock
<1>5. StringBlocksKept(file, file')  BY <1>3, TypesStay
<1>6. PICK ret \in {"create_string_cell", "next", "write_value", "create_cell"} :
        exec' = [exec EXCEPT !.pc = "update_control_block", !.strings = Append(@, p),
                             !.texts = Tail(@), !.ret = ret]
  BY DEF StringDone
<1>7. /\ exec'.jobs = exec.jobs /\ exec'.current = exec.current
      /\ exec'.pc = "update_control_block" /\ exec'.ret = ret
  BY <1>1, <1>6 DEF exec_type
<1>8. Place' = ret /\ Place \in StringPCs  BY <1>1, <1>7 DEF Place, Updating
<1>9. PutsValues'  BY <1>7, <1>8 DEF TInv, PutsValues, job
<1> QED  BY <1>1, <1>4, <1>5, <1>8, <1>9, TameWrite DEF LastWriteUnflushed

LEMMA CreateStringTame ==
  ASSUME StringsShort, CInv, BInv, TInv, RoomForStrings, create_string_cell \/ string_in_new_block
  PROVE  TInv'
<1> DEFINE h == ctrl_block.head["STRING"]
           first == Ptr(h.block_num, 0)
           str_length == strlen[Head(exec.texts)]
<1>1. exec.pc \in StringPCs /\ ~ Down /\ ~ Updating /\ Place = exec.pc
  BY DEF create_string_cell, string_in_new_block, StringPCs, Down, Updating, Place
<1>2. ctrl_block \in control_block /\ exec \in exec_type /\ h \in cell_ptr
  BY Unfold DEF CInv, Pool
<1>3. Head(exec.texts) \in String /\ str_length \in Nat
  <2>1. exec.texts # << >> /\ exec.texts \in Seq(String)
    BY <1>1, <1>2 DEF CInv, IInv, ExecOK, InOp, exec_type
  <2> QED  BY <2>1, LayoutAssumption
<1>4. str_length + 3 <= STRING_DATA  BY <1>3 DEF StringsShort
<1>5. h.block_num = -1 \/ (h.block_num \in Block /\ file[h.block_num].type = "STRING")
  BY <1>1 DEF TInv, StringBlocks, StringHead
<1>6. h.offset \in Nat /\ STRING_DATA \in Nat  BY <1>2, LayoutAssumption DEF cell_ptr
<1>7. ASSUME NEW ret \in StringPCs, allocate_new_block("STRING", ret)  PROVE TInv'
  <2> DEFINE type == "STRING"
  <2>1. /\ type \in Pool /\ type = "STRING" /\ allocate_new_block(type, ret)
        /\ ret \notin {"idle", "down", "wild"}
    BY <1>7 DEF Pool, StringPCs
  <2> HIDE DEF type
  <2> QED  BY <1>1, <2>1, AllocateTame
<1>8. CASE create_string_cell
  <2>1. CASE h.block_num = -1 \/ ~ STRING_DATA - h.offset > str_length
    <3>1. \E ret \in StringPCs : allocate_new_block("STRING", ret)
      BY <1>8, <2>1 DEF create_string_cell, StringPCs
    <3> QED  BY <1>7, <3>1
  <2>2. CASE h.block_num # -1 /\ STRING_DATA - h.offset > str_length
    <3>1. STRING_DATA - h.offset \notin {str_length + 1, str_length + 2}
      BY <1>8 DEF RoomForStrings, create_string_cell
    <3>2. Fits(h, str_length)
      <4> HIDE DEF str_length, h
      <4> QED  BY <1>3, <1>5, <1>6, <2>2, <3>1 DEF Fits
    <3>3. /\ file' = WriteString(file, h, Head(exec.texts))
          /\ ctrl_block' = [ctrl_block EXCEPT !.head["STRING"].offset = @ + str_length + 2]
          /\ StringDone(h) /\ LastWriteUnflushed
      BY <1>8, <2>2, <3>2 DEF create_string_cell
    <3>4. ctrl_block'.head["STRING"].block_num = h.block_num
      <4> HIDE DEF str_length
      <4> QED  BY <1>2, <3>3 DEF control_block, cell_ptr, Pool
    <3> QED  BY <1>1, <1>5, <2>2, <3>3, <3>4, StoreTame
  <2> QED  BY <2>1, <2>2
<1>9. CASE string_in_new_block
  <2>1. h.block_num # -1
    BY <1>1, <1>9 DEF TInv, StringBlocks, string_in_new_block
  <2>2. first.block_num = h.block_num /\ first.offset = 0  BY DEF Ptr
  <2>3. Fits(first, str_length)
    <3> HIDE DEF str_length, h, first
    <3> QED  BY <1>3, <1>4, <1>5, <1>6, <2>1, <2>2 DEF Fits
  <2>4. /\ file' = WriteString(file, first, Head(exec.texts))
        /\ ctrl_block' = [ctrl_block EXCEPT !.head["STRING"].offset = str_length + 2]
        /\ StringDone(first) /\ LastWriteUnflushed
    BY <1>9, <2>3 DEF string_in_new_block
  <2>5. ctrl_block'.head["STRING"].block_num = h.block_num
    <3> HIDE DEF str_length
    <3> QED  BY <1>2, <2>4 DEF control_block, cell_ptr, Pool
  <2> HIDE DEF first
  <2> QED  BY <1>1, <1>5, <2>1, <2>2, <2>4, <2>5, StoreTame
<1> QED  BY <1>8, <1>9

-----------------------------------------------------------------------------
(* Cells.                                                                  *)
LEMMA CellWriteTame ==
  ASSUME CInv, TInv, ~ Down, NEW kind \in CellKind, NEW p, IsCell(file, kind, p), NEW c \in cell,
         file' = WriteCell(file, p, c), ctrl_block'.head["STRING"] = ctrl_block.head["STRING"],
         disk' \in {file, file'}, Place' \notin {"idle", "down", "wild", "string_in_new_block"},
         PutsValues'
  PROVE  TInv'
<1>1. file'[0] = file[0] /\ \A b \in Block : file'[b].type = file[b].type  BY CellWrite
<1>2. StringBlocksKept(file, file')  BY <1>1 DEF StringBlocksKept
<1>3. file[0].type = "CONTROL"  BY DEF TInv, ControlThere
<1> QED  BY <1>1, <1>2, <1>3, TameWrite

LEMMA CreateCellTame ==
  ASSUME CInv, BInv, NInv, KInv, TInv, NEW kind \in CellKind, create_cell(kind)
  PROVE  TInv'
<1> DEFINE h == ctrl_block.head[kind]
           new == [prev  |-> NodeAt(file, exec.node).last[kind],
                   name  |-> exec.strings[1],
                   value |-> CASE kind = "ATTRIBUTE" -> exec.strings[2]
                               [] kind = "RELATION"  -> exec.second
                               [] OTHER              -> Null]
           after == HeadAfter(h, CellAt(file, h).prev, CellsIn(kind))
<1>1. /\ exec.pc = "create_cell" /\ ~ Down /\ ~ Updating /\ Place = "create_cell"
      /\ exec.jobs # << >> /\ job.kind = kind
  BY DEF create_cell, Down, Updating, Place, CInv, IInv, ExecOK, InOp, JobPCs
<1>2. /\ ctrl_block \in control_block /\ exec \in exec_type /\ file \in File
      /\ h \in cell_ptr /\ kind \in Pool
  BY Unfold DEF CInv, Pool
<1>3. IsNode(file, exec.node)  BY <1>1 DEF NInv, NodesHeld, AtNode, NodePCs, InUse
<1>4. CASE h.block_num = -1
  <2> DEFINE ret == "create_cell"
  <2>1. allocate_new_block(kind, ret) /\ ret \notin {"idle", "down", "wild"} \cup StringPCs \cup {"write_value"}
    BY <1>4 DEF create_cell, StringPCs
  <2>2. ret # "string_in_new_block"  OBVIOUS
  <2> HIDE DEF ret
  <2> QED  BY <1>1, <1>2, <2>1, <2>2, AllocateTame
<1>5. CASE h.block_num # -1
  <2>1. PICK o \in Owners : Held(kind, o)  BY <1>1 DEF KInv, MemCells, AllHeld
  <2>2. IsCell(file, kind, h)  BY <1>2, <1>5, <2>1, HeadOfPool DEF Held, Shared
  <2>3. /\ file' = WriteCell(file, h, new) /\ disk' = file
        /\ ctrl_block' = [ctrl_block EXCEPT !.head[kind] = after]
        /\ exec' = [exec EXCEPT !.pc = "update_control_block", !.ret = "update_node",
                                !.current = h]
    BY <1>3, <1>5, <2>2 DEF create_cell, LastWriteUnflushed
  <2>4. new \in cell
    <3>1. /\ Len(exec.strings) >= (IF kind = "ATTRIBUTE" THEN 2 ELSE 1)
          /\ exec.strings \in Seq(cell_ptr) /\ Len(exec.strings) \in Nat
          /\ exec.second \in cell_ptr
      BY <1>1, <1>2 DEF CInv, IInv, ExecOK, InOp, CellTexts, exec_type
    <3>2. /\ 1 \in 1 .. Len(exec.strings)
          /\ kind = "ATTRIBUTE" => 2 \in 1 .. Len(exec.strings)
      BY <3>1
    <3>3. /\ exec.strings[1] \in cell_ptr
          /\ kind = "ATTRIBUTE" => exec.strings[2] \in cell_ptr
      BY <3>1, <3>2
    <3>4. NodeAt(file, exec.node).last[kind] \in cell_ptr  BY <1>2, <1>3, LastType DEF LastOf
    <3> QED  BY <3>1, <3>3, <3>4, ZeroTypes DEF cell
  <2> HIDE DEF new, after
  <2>5. ctrl_block'.head["STRING"] = ctrl_block.head["STRING"]
    BY <1>2, <2>3 DEF control_block, Pool, CellKind
  <2>6. Place' = "update_node"
    <3>1. exec'.pc = "update_control_block" /\ exec'.ret = "update_node"
      BY <1>2, <2>3 DEF exec_type
    <3> QED  BY <3>1 DEF Place, Updating
  <2>7. PutsValues'  BY <2>6 DEF PutsValues, StringPCs
  <2> QED  BY <1>1, <2>2, <2>3, <2>4, <2>5, <2>6, <2>7, CellWriteTame
<1> QED  BY <1>4, <1>5

LEMMA UpdateNodeTame ==
  ASSUME CInv, NInv, TInv, NEW kind \in CellKind, update_node(kind)
  PROVE  TInv'
<1> DEFINE n == exec.node
           new == [NodeAt(file, n) EXCEPT !.last[kind] = exec.current]
<1>1. /\ exec.pc = "update_node" /\ ~ Down /\ ~ Updating /\ Place = "update_node"
      /\ exec.jobs # << >>
  BY DEF update_node, Down, Updating, Place, CInv, IInv, ExecOK, InOp, JobPCs
<1>2. /\ ctrl_block = file[0] /\ exec \in exec_type /\ file \in File
      /\ n \in cell_ptr /\ exec.current \in cell_ptr
  BY <1>1, Unfold DEF CInv, ControlCoherent, exec_type
<1>3. IsNode(file, n)  BY <1>1 DEF NInv, NodesHeld, AtNode, NodePCs, InUse
<1>4. /\ file' = WriteNode(file, n, new) /\ ctrl_block' = file'[0] /\ disk' = file'
      /\ exec' = [exec EXCEPT !.pc = IF kind = "RELATION" THEN "next_second" ELSE "next"]
  BY <1>3 DEF update_node, AllFlushed
<1>5. new \in node_cell  BY <1>2, <1>3, NodeAtType DEF node_cell
<1> HIDE DEF n, new
<1>6. ctrl_block'.head["STRING"] = ctrl_block.head["STRING"]
  BY <1>2, <1>3, <1>4, <1>5, NodeWritten
<1>7. Place' \in {"next_second", "next"}
  <2>1. exec'.pc \in {"next_second", "next"}  BY <1>2, <1>4 DEF exec_type
  <2> QED  BY <2>1 DEF Place, Updating
<1>8. PutsValues'  BY <1>7 DEF PutsValues, StringPCs
<1> QED  BY <1>1, <1>2, <1>3, <1>4, <1>5, <1>6, <1>7, <1>8, NodeWriteTame

LEMMA WriteValueTame ==
  ASSUME CInv, NInv, KInv, TInv, write_value
  PROVE  TInv'
<1> DEFINE kind == "ATTRIBUTE"
           p == exec.current
           new == [CellAt(file, p) EXCEPT !.value = exec.strings[1]]
<1>1. /\ exec.pc = "write_value" /\ ~ Down /\ ~ Updating /\ exec \in exec_type /\ file \in File
      /\ kind \in CellKind /\ p \in cell_ptr /\ Place = "write_value" /\ exec.jobs # << >>
  BY Unfold DEF write_value, Down, Updating, CInv, CellKind, exec_type, Place, IInv, ExecOK,
                InOp, JobPCs
<1>2. job.kind \in CellKind  BY <1>1, JobType DEF exec_type, job
<1>3. p # Null
  <2>1. PICK o \in Owners : Held(job.kind, o)  BY <1>1, <1>2 DEF KInv, MemCells, AllHeld
  <2> QED  BY <1>1, <2>1 DEF Held, InHands
<1>4. job.kind = kind
  <2>1. job.op = "put"  BY <1>1, <1>3 DEF TInv, PutsValues
  <2> QED  BY <1>1, <2>1, JobType DEF exec_type, job
<1>5. IsCell(file, kind, p)
  <2>1. PICK o \in Owners : Held(kind, o)  BY <1>1 DEF KInv, MemCells, AllHeld
  <2>2. ChainsApart(file, kind, o) /\ o[p] = exec.node
    BY <1>1, <1>3, <1>4, <2>1 DEF Held, Shared, InHands, OfItsNode
  <2>3. InUse(file, exec.node)  BY <1>1 DEF NInv, NodesHeld, AtNode, NodePCs
  <2> QED  BY <1>1, <2>2, <2>3, OfNodeCell
<1>6. /\ file' = WriteCell(file, p, new)
      /\ exec' = [exec EXCEPT !.pc = "next"] /\ ctrl_block' = ctrl_block /\ disk' = file
  BY <1>5 DEF write_value, LastWriteUnflushed
<1>7. new \in cell
  <2>1. Len(exec.strings) >= 1 /\ exec.strings \in Seq(cell_ptr)
    BY <1>1 DEF CInv, IInv, ExecOK, InOp, exec_type
  <2>2. exec.strings[1] \in cell_ptr  BY <2>1
  <2>3. CellAt(file, p) \in cell  BY <1>1, <1>5, CellAtType
  <2> QED  BY <2>2, <2>3 DEF cell
<1> HIDE DEF new, kind
<1>8. Place' = "next"
  <2>1. exec'.pc = "next"  BY <1>1, <1>6 DEF exec_type
  <2> QED  BY <2>1 DEF Place, Updating
<1>9. PutsValues'  BY <1>8 DEF PutsValues, StringPCs
<1> QED  BY <1>1, <1>5, <1>6, <1>7, <1>8, <1>9, CellWriteTame

LEMMA StopTame ==
  ASSUME exec' = [Idle EXCEPT !.pc = "down"], file'[0].type = "CONTROL",
         StringHead(file', file'[0]), disk'[0].type = "CONTROL" => StringHead(disk', disk'[0])
  PROVE  TInv'
<1>1. exec'.pc = "down" /\ exec'.jobs = << >>  BY DEF Idle
<1>2. Down' /\ ~ Updating' /\ Place' = "down"  BY <1>1 DEF Down, Updating, Place
<1>3. StringBlocks'  BY <1>2 DEF StringBlocks
<1> QED  BY <1>1, <1>2, <1>3
         DEF TInv, NeverWild, ControlThere, NothingToDo, PutsValues, StringPCs

(* What remove_X has in its hands is what it takes it for.                 *)
LEMMA SoundInHands ==
  ASSUME CInv, NInv, KInv, NEW kind \in CellKind, exec.pc = "remove", job.kind = kind
  PROVE  /\ IsNode(file, exec.node)
         /\ IsNode(file, exec.prev) \/ IsCell(file, kind, exec.prev)
         /\ exec.current.block_num # 0 =>
              IsCell(file, kind, exec.current) /\ IsString(file, CellAt(file, exec.current).name)
<1>1. /\ ~ Down /\ ~ Updating /\ Place = "remove" /\ exec.jobs # << >>
      /\ exec.current \in cell_ptr /\ exec.prev \in cell_ptr
  BY Unfold DEF Down, Updating, Place, CInv, IInv, ExecOK, InOp, JobPCs, exec_type
<1>2. InUse(file, exec.node)  BY <1>1 DEF NInv, NodesHeld, AtNode, NodePCs
<1>3. PICK o \in Owners : Held(kind, o)  BY <1>1 DEF KInv, MemCells, AllHeld
<1>4. /\ ChainsApart(file, kind, o) /\ OfItsNode(o, exec.current)
      /\ IF exec.has_changed THEN IsCell(file, kind, exec.prev) ELSE LedFrom(kind, o)
  BY <1>1, <1>3 DEF Held, Shared, InHands
<1>5. IsNode(file, exec.prev) \/ IsCell(file, kind, exec.prev)
  <2>1. CASE o[exec.prev] = exec.node  BY <1>1, <1>2, <1>4, <2>1, OfNodeCell
  <2>2. CASE o[exec.prev] # exec.node  BY <1>2, <1>4, <2>2 DEF LedFrom, InUse
  <2> QED  BY <2>1, <2>2
<1>6. ASSUME exec.current.block_num # 0
      PROVE  IsCell(file, kind, exec.current) /\ IsString(file, CellAt(file, exec.current).name)
  <2>1. o[exec.current] = exec.node  BY <1>4, <1>6 DEF OfItsNode, Null, Ptr
  <2> QED  BY <1>1, <1>2, <1>4, <2>1, OfNodeCell DEF Spelled
<1> QED  BY <1>2, <1>5, <1>6 DEF InUse

LEMMA RemoveCellTame ==
  ASSUME CInv, NInv, KInv, TInv, NEW kind \in CellKind, remove_cell(kind)
  PROVE  TInv'
<1> DEFINE p == exec.current
           n == exec.node
           q == exec.prev
           old == CellAt(file, p)
           node == [NodeAt(file, n) EXCEPT !.last[kind] = old.prev]
           prev_cell == [CellAt(file, q) EXCEPT !.prev = old.prev]
           lost == exec.lost_place \/ (kind = "RELATION" /\ Named(old))
<1>1. /\ exec.pc = "remove" /\ ~ Down /\ ~ Updating /\ job.kind = kind
      /\ exec \in exec_type /\ file \in File /\ n \in cell_ptr /\ ctrl_block = file[0]
  <2>1. exec.pc = "remove" /\ ~ Down /\ ~ Updating /\ job.kind = kind
    BY DEF remove_cell, Down, Updating
  <2> QED  BY <2>1, Unfold DEF CInv, ControlCoherent, exec_type
<1>2. /\ IsNode(file, n) /\ (IsNode(file, q) \/ IsCell(file, kind, q))
      /\ p.block_num # 0 => IsCell(file, kind, p) /\ IsString(file, old.name)
  BY <1>1, SoundInHands
<1>3. \/ exec' = [exec EXCEPT !.pc = "next"] /\ ReadOnly
      \/ disk' = file /\ UNCHANGED file /\ Stop
      \/ exec' = [exec EXCEPT !.prev = p, !.current = old.prev, !.lost_place = lost] /\ ReadOnly
      \/ /\ p.block_num # 0
         /\ exec' = [exec EXCEPT !.pc = "free_cell", !.following = old.prev, !.lost_place = lost]
         /\ IF q.block_num = 0
            THEN /\ file' = WriteNode(file, n, node)
                 /\ ctrl_block' = file'[0]
                 /\ AllFlushed
            ELSE /\ file' = IF IsNode(file, q) THEN WriteNode(file, n, node)
                            ELSE WriteCell(file, q, prev_cell)
                 /\ UNCHANGED ctrl_block
                 /\ LastWriteUnflushed
  BY <1>2 DEF remove_cell
<1> HIDE DEF lost
<1>4. ASSUME exec'.pc \in {"next", "remove"}, ReadOnly  PROVE TInv'
  <2>1. Place' = exec'.pc  BY <1>4 DEF Place, Updating
  <2>2. PutsValues'  BY <1>4, <2>1 DEF PutsValues, StringPCs
  <2> QED  BY <1>1, <1>4, <2>1, <2>2, TameRead DEF ReadOnly
<1>5. CASE exec' = [exec EXCEPT !.pc = "next"] /\ ReadOnly
  <2>1. exec'.pc = "next"  BY <1>1, <1>5 DEF exec_type
  <2> QED  BY <1>4, <1>5, <2>1
<1>6. CASE exec' = [exec EXCEPT !.prev = p, !.current = old.prev, !.lost_place = lost] /\ ReadOnly
  <2>1. exec'.pc = "remove"  BY <1>1, <1>6 DEF exec_type
  <2> QED  BY <1>4, <1>6, <2>1
<1>7. CASE disk' = file /\ UNCHANGED file /\ Stop
  <2>1. file[0].type = "CONTROL" /\ StringHead(file, file[0])
    BY DEF TInv, ControlThere, StringBlocks
  <2> QED  BY <1>7, <2>1, StopTame DEF Stop
<1>8. ASSUME p.block_num # 0,
             exec' = [exec EXCEPT !.pc = "free_cell", !.following = old.prev, !.lost_place = lost],
             \/ file' = WriteNode(file, n, node) /\ ctrl_block' \in {ctrl_block, file'[0]}
             \/ /\ file' = WriteCell(file, q, prev_cell) /\ ctrl_block' = ctrl_block
                /\ IsCell(file, kind, q),
             disk' \in {file, file'}
      PROVE  TInv'
  <2>1. Place' = "free_cell"
    <3>1. exec'.pc = "free_cell"  BY <1>1, <1>8 DEF exec_type
    <3> QED  BY <3>1 DEF Place, Updating
  <2>2. PutsValues'  BY <2>1 DEF PutsValues, StringPCs
  <2>3. old.prev \in cell_ptr  BY <1>1, <1>2, <1>8, CellAtType DEF cell
  <2>4. CASE file' = WriteNode(file, n, node) /\ ctrl_block' \in {ctrl_block, file'[0]}
    <3>1. node \in node_cell  BY <1>1, <1>2, <2>3, NodeAtType DEF node_cell
    <3> HIDE DEF node
    <3>2. ctrl_block'.head["STRING"] = ctrl_block.head["STRING"]
      BY <1>1, <1>2, <2>4, <3>1, NodeWritten
    <3> QED  BY <1>1, <1>2, <1>8, <2>1, <2>2, <2>4, <3>1, <3>2, NodeWriteTame
  <2>5. CASE /\ file' = WriteCell(file, q, prev_cell) /\ ctrl_block' = ctrl_block
             /\ IsCell(file, kind, q)
    <3>1. prev_cell \in cell  BY <1>1, <2>3, <2>5, CellAtType DEF cell
    <3> HIDE DEF prev_cell
    <3> QED  BY <1>1, <1>8, <2>1, <2>2, <2>5, <3>1, CellWriteTame
  <2> QED  BY <1>8, <2>4, <2>5
<1> HIDE DEF node, prev_cell
<1> QED  BY <1>2, <1>3, <1>5, <1>6, <1>7, <1>8 DEF AllFlushed, LastWriteUnflushed

LEMMA FreeCellTame ==
  ASSUME CInv, NInv, KInv, TInv, free_cell
  PROVE  TInv'
<1>1. /\ exec.pc = "free_cell" /\ ~ Down /\ ~ Updating /\ Place = "free_cell" /\ exec.jobs # << >>
  BY DEF free_cell, Down, Updating, Place, CInv, IInv, ExecOK, InOp, JobPCs
<1>2. /\ ctrl_block \in control_block /\ exec \in exec_type /\ file \in File
      /\ \A k \in CellKind : ctrl_block.head[k] \in cell_ptr
  BY Unfold DEF CInv, Pool
<1>3. PICK kind \in CellKind : kind = job.kind
  BY <1>1, <1>2, JobType DEF exec_type, job
<1> DEFINE p == exec.current
           h == ctrl_block.head[kind]
           freed == [prev |-> h, name |-> Null,
                     value |-> IF kind = "RELATION" THEN CellAt(file, p).value ELSE Null]
<1>4. IsCell(file, kind, p)
  <2>1. PICK o \in Owners : Held(kind, o)  BY <1>1 DEF KInv, MemCells, AllHeld
  <2> QED  BY <1>1, <1>3, <2>1 DEF Held, InHands
<1>5. /\ file' = WriteCell(file, p, freed) /\ disk' = file
      /\ ctrl_block' = [ctrl_block EXCEPT !.head[kind] = p]
  BY <1>3, <1>4 DEF free_cell, LastWriteUnflushed
<1>6. PICK number :
        exec' = [exec EXCEPT
               !.pc = "update_control_block", !.ret = "remove",
               !.prev = p, !.current = exec.following, !.has_changed = TRUE,
               !.number = number]
  BY <1>3, <1>4 DEF free_cell
<1>7. Place' = "remove"
  <2>1. exec'.pc = "update_control_block" /\ exec'.ret = "remove"  BY <1>2, <1>6 DEF exec_type
  <2> QED  BY <2>1 DEF Place, Updating
<1>8. PutsValues'  BY <1>7 DEF PutsValues, StringPCs
<1>9. freed \in cell
  <2>1. CellAt(file, p) \in cell  BY <1>2, <1>4, CellAtType
  <2>2. CellAt(file, p).value \in cell_ptr  BY <2>1 DEF cell
  <2> QED  BY <1>2, <2>2, ZeroTypes DEF cell
<1> HIDE DEF freed
<1>10. ctrl_block'.head["STRING"] = ctrl_block.head["STRING"]
  BY <1>2, <1>5 DEF control_block, Pool, CellKind
<1> QED  BY <1>1, <1>4, <1>5, <1>7, <1>8, <1>9, <1>10, CellWriteTame

LEMMA FreeNodeTame ==
  ASSUME CInv, NInv, TInv, free_node
  PROVE  TInv'
<1> DEFINE p == exec.node
           freed == [NodeAt(file, p) EXCEPT !.is_empty = 0, !.last["LABEL"] = ctrl_block.head["NODE"]]
<1>1. /\ exec.pc = "free_node" /\ ~ Down /\ ~ Updating /\ Place = "free_node" /\ exec.jobs # << >>
  BY DEF free_node, Down, Updating, Place, CInv, IInv, ExecOK, InOp, JobPCs
<1>2. /\ ctrl_block = file[0] /\ ctrl_block \in control_block /\ exec \in exec_type /\ file \in File
      /\ p \in cell_ptr /\ ctrl_block.head["NODE"] \in cell_ptr
  BY <1>1, Unfold DEF CInv, ControlCoherent, exec_type, Pool
<1>3. IsNode(file, p)  BY <1>1 DEF NInv, NodesHeld, AtNode, NodePCs, InUse
<1>4. /\ file' = WriteNode(file, p, freed) /\ disk' = file'
      /\ ctrl_block' = [file'[0] EXCEPT !.head["NODE"] = p]
      /\ exec' = [exec EXCEPT !.pc = "update_control_block", !.ret = "next"]
  BY <1>3 DEF free_node, AllFlushed
<1>5. freed \in node_cell
  <2>1. NodeAt(file, p) \in node_cell  BY <1>2, <1>3, NodeAtType
  <2> QED  BY <1>2, <2>1 DEF node_cell
<1> HIDE DEF freed
<1>6. file'[0] \in control_block /\ file'[0].head = file[0].head
  BY <1>1, <1>2, <1>3, <1>4, <1>5, NodeWrite, NodeWritten
<1>7. ctrl_block'.head["STRING"] = ctrl_block.head["STRING"]
  BY <1>2, <1>4, <1>6 DEF control_block, Pool
<1>8. Place' = "next"
  <2>1. exec'.pc = "update_control_block" /\ exec'.ret = "next"  BY <1>2, <1>4 DEF exec_type
  <2> QED  BY <2>1 DEF Place, Updating
<1>9. PutsValues'  BY <1>8 DEF PutsValues, StringPCs
<1> QED  BY <1>1, <1>2, <1>3, <1>4, <1>5, <1>7, <1>8, <1>9, NodeWriteTame

-----------------------------------------------------------------------------
(* The beginning of a command, and of a process.  A node is a result by at *)
(* most one of its relations (match would free the lists it keeps of the   *)
(* node's labels and properties twice).                                    *)
Queries(info) == execute_match(info) \/ execute_set(info) \/ execute_remove(info) \/ execute_delete(info)
OneResult ==
  \A info \in Commands : info.has_relation /\ Queries(info) =>
    \A p \in NodesInUse(file) : Cardinality(Leading(file, p, info)) <= 1

LEMMA AllLegible ==
  ASSUME CInv, BInv, NInv, KInv, exec.pc = "idle"
  PROVE  /\ \A labels : Comparable(file, labels)
         /\ \A p \in ScannedNodes(file) : p \in NodesInUse(file) /\ Legible(file, "RELATION", p)
<1>1. ScanEnds(file)  BY ScannableAtRest, ScanMeetsAll
<1>2. ScannedNodes(file) = NodesInUse(file)  BY ScannedAtRest DEF NodesAllScanned, AtRest
<1>3. ASSUME NEW p \in ScannedNodes(file), NEW kind \in CellKind  PROVE Legible(file, kind, p)
  BY <1>2, AllReadable DEF AlwaysReadable, Legible
<1>4. \A labels : Comparable(file, labels)  BY <1>1, <1>3 DEF Comparable, CellKind
<1> QED  BY <1>2, <1>3, <1>4 DEF CellKind

LEMMA ExecutingTame ==
  ASSUME CInv, BInv, NInv, KInv, TInv, OneResult, Execute
  PROVE  TInv'
<1>1. PICK info \in Commands : \/ execute_match(info) \/ execute_create(info)
                               \/ execute_create_relation(info)
                               \/ execute_set(info) \/ execute_remove(info)
                               \/ execute_delete(info)
  BY DEF Execute
<1>2. /\ exec.pc = "idle" /\ ~ Down
      /\ disk' = file /\ UNCHANGED <<file, ctrl_block>>
  BY <1>1 DEF execute_match, execute_create, execute_create_relation, execute_set,
              execute_remove, execute_delete, OnMatched, Starting, Down, ReadOnly
<1>3. /\ \A labels : Comparable(file, labels)
      /\ \A p \in ScannedNodes(file) : p \in NodesInUse(file) /\ Legible(file, "RELATION", p)
  BY <1>2, AllLegible
<1>4. Queries(info) => Readable(file, info)  BY <1>3 DEF OneResult, Readable
<1>5. ASSUME exec'.pc \in {"create_node_cell", "create_string_cell", "next"}, exec'.current = Null
      PROVE  TInv'
  <2>1. Place' = exec'.pc  BY <1>5 DEF Place, Updating
  <2>2. PutsValues'  BY <1>5 DEF PutsValues
  <2> QED  BY <1>2, <1>5, <2>1, <2>2, TameRead
<1>6. ASSUME NEW nodes, NEW number, exec' = Run(info, nodes, number)  PROVE TInv'
  <2>1. exec'.pc = "next" /\ exec'.current = Null  BY <1>6 DEF Run, Idle
  <2> QED  BY <1>5, <2>1
<1>7. CASE execute_match(info)
  <2>1. exec' = Respond(Cardinality(Matched(file, info)))
    BY <1>4, <1>7 DEF Queries, execute_match, OnMatched
  <2>2. exec'.pc = "idle" /\ exec'.jobs = << >>  BY <2>1 DEF Respond, Idle
  <2> QED  BY <1>2, <2>2, IdleTame
<1>8. CASE execute_create(info)
  <2>1. exec'.pc = "create_node_cell" /\ exec'.current = Null  BY <1>8 DEF execute_create, Idle
  <2> QED  BY <1>5, <2>1
<1>9. CASE execute_create_relation(info)
  <2> DEFINE nodes == Like(file, info.labels, info.props)
  <2>1. PICK number, others :
          exec' = [Idle EXCEPT
                !.pc = "create_string_cell", !.jobs = Jobs(info), !.texts = << info.rel_name >>,
                !.matched = nodes, !.left = nodes, !.seconds = others,
                !.number = number]
    BY <1>3, <1>9 DEF execute_create_relation
  <2> HIDE DEF nodes
  <2>2. exec'.pc = "create_string_cell" /\ exec'.current = Null  BY <2>1 DEF Idle
  <2> QED  BY <1>5, <2>2
<1>10. CASE execute_set(info)  BY <1>4, <1>6, <1>10 DEF Queries, execute_set, OnMatched
<1>11. CASE execute_remove(info)  BY <1>4, <1>6, <1>11 DEF Queries, execute_remove, OnMatched
<1>12. CASE execute_delete(info)  BY <1>4, <1>6, <1>12 DEF Queries, execute_delete, OnMatched
<1> QED  BY <1>1, <1>7, <1>8, <1>9, <1>10, <1>11, <1>12

LEMMA StartOrStopTame ==
  ASSUME TInv, CellSafePoints, init_data \/ kill \/ quit
  PROVE  TInv'
<1>1. file[0].type = "CONTROL" /\ StringHead(file, file[0])
  BY DEF TInv, ControlThere, StringBlocks
<1>2. At[2] = IF exec.jobs = << >> THEN "none" ELSE job.op  BY DEF At
<1>3. CASE kill
  <2>1. exec.jobs # << >>  BY <1>2, <1>3 DEF kill, CellSafePoints
  <2>2. exec.pc \notin {"idle", "down"}  BY <2>1 DEF TInv, NothingToDo, Place, Updating
  <2>3. disk[0].type = "CONTROL" /\ StringHead(disk, disk[0])
    BY <2>2 DEF TInv, ControlThere, StringBlocks
  <2> QED  BY <1>3, <2>3, StopTame DEF kill, Stop
<1>4. CASE quit  BY <1>1, <1>4, StopTame DEF quit, AllFlushed, Stop
<1>5. CASE init_data
  <2>1. exec.pc = "down" /\ UNCHANGED <<file, disk>> /\ ctrl_block' = file[0] /\ exec' = Idle
    BY <1>1, <1>5 DEF init_data
  <2>2. exec'.pc = "idle" /\ exec'.jobs = << >>  BY <2>1 DEF Idle
  <2>3. Place' = "idle" /\ ~ Updating'  BY <2>2 DEF Place, Updating
  <2>4. StringBlocks'  BY <1>1, <2>1, <2>3 DEF TInv, StringBlocks
  <2> QED  BY <1>1, <2>1, <2>2, <2>3, <2>4
           DEF TInv, NeverWild, ControlThere, NothingToDo, PutsValues, StringPCs
<1> QED  BY <1>3, <1>4, <1>5

LEMMA InitiallyTame == Init => TInv
<1> SUFFICES ASSUME Init  PROVE TInv
  OBVIOUS
<1>1. 0 \in Block  BY LayoutAssumption DEF Block
<1>2. /\ exec.pc = "idle" /\ exec.jobs = << >> /\ ctrl_block = NewControl
      /\ file[0] = NewControl /\ disk[0].type = "ABSENT"
  BY <1>1 DEF Init, Idle, EmptyFile, Absent
<1>3. NewControl.head["STRING"].block_num = -1 /\ NewControl.type = "CONTROL"
  BY DEF NewControl, Pool, NoRoom, Ptr
<1>4. Place = "idle" /\ ~ Updating  BY <1>2 DEF Place, Updating
<1> HIDE DEF NewControl
<1>5. StringHead(file, NewControl)  BY <1>3 DEF StringHead
<1>6. StringBlocks  BY <1>2, <1>4, <1>5 DEF StringBlocks
<1>7. ControlThere  BY <1>2, <1>3 DEF ControlThere
<1>8. NothingToDo  BY <1>2, <1>4 DEF NothingToDo
<1>9. PutsValues  BY <1>4 DEF PutsValues, StringPCs
<1>10. NeverWild  BY <1>2 DEF NeverWild
<1> QED  BY <1>6, <1>7, <1>8, <1>9, <1>10 DEF TInv

LEMMA InductiveTame ==
  ASSUME CellSafePoints, StringsShort
  PROVE  CInv /\ BInv /\ NInv /\ KInv /\ TInv /\ RoomForStrings /\ [Next]_vars /\ [OneResult]_vars
           => TInv'
<1> SUFFICES ASSUME CInv, BInv, NInv, KInv, TInv, RoomForStrings, [Next]_vars, [OneResult]_vars
             PROVE  TInv'
  OBVIOUS
<1>1. CASE Step
  <2>1. CASE create_label_cell \/ create_attribute_cell \/ create_relation_cell
    BY <2>1, CreateCellTame
    DEF create_label_cell, create_attribute_cell, create_relation_cell, CellKind
  <2>2. CASE update_node_labels \/ update_node_attributes \/ update_node_relations
    BY <2>2, UpdateNodeTame
    DEF update_node_labels, update_node_attributes, update_node_relations, CellKind
  <2>3. CASE remove_labels \/ remove_attributes \/ delete_relations
    BY <2>3, RemoveCellTame DEF remove_labels, remove_attributes, delete_relations, CellKind
  <2> QED
    BY <1>1, <2>1, <2>2, <2>3, ControlTame, ChainTame, CreateNodeTame, NextNodeTame, LoopTame,
       RespondTame, CreateStringTame, FindAttributeTame, WriteValueTame, FreeCellTame, FreeNodeTame
    DEF Step
<1>2. CASE UNCHANGED vars
  <2>1. UNCHANGED <<file, disk, ctrl_block, exec>>  BY <1>2 DEF vars
  <2>2. UNCHANGED <<Place, job, Down, Updating>>
    BY <2>1 DEF Place, Updating, job, Down
  <2> QED  BY <2>1, <2>2
           DEF TInv, NeverWild, ControlThere, StringBlocks, StringHead, NothingToDo, PutsValues
<1>3. CASE Execute /\ ~ UNCHANGED vars  BY <1>3, ExecutingTame
<1>4. CASE init_data \/ kill \/ quit  BY <1>4, StartOrStopTame
<1> QED  BY <1>1, <1>2, <1>3, <1>4 DEF Next

(* The code never reads or writes a block as what it is not, nor past the  *)
(* end of one (create_string_cell, create_X_cell, remove_X, match and all  *)
(* they call): under the conditions above, if a string fits into a block   *)
(* of its own, none is stored where the test of create_string_cell takes   *)
(* too little room for enough, and no command finds a node by two of its   *)
(* relations.  Each condition excludes one way of the code to go wrong     *)
(* that a run or the README shows.                                         *)
THEOREM NeverWildHolds ==
  ASSUME CellSafePoints, StringsShort
  PROVE  Spec /\ []FirstNodeStays /\ []OneCellEach /\ []RoomForStrings /\ [][OneResult]_vars
           => []NeverWild
<1>1. Init => CInv /\ RelateInv  BY InitiallyCoherent
<1>2. CInv /\ RelateInv /\ [Next]_vars => (CInv /\ RelateInv)'  BY InductiveCoherent
<1>3. Spec /\ []FirstNodeStays /\ []OneCellEach => [](CInv /\ BInv /\ NInv /\ KInv)
  BY CellsInvariant
<1>4. CInv /\ BInv /\ NInv /\ KInv /\ TInv /\ RoomForStrings /\ [Next]_vars /\ [OneResult]_vars
        => TInv'
  BY InductiveTame
<1>5. TInv => NeverWild  BY DEF TInv
<1> QED  BY <1>1, <1>2, <1>3, <1>4, <1>5, InitiallyTame, PTL DEF Spec

-----------------------------------------------------------------------------
(* No cell is lost.  What a pointer leads to is what lies in every set     *)
(* that has the pointer and, with each cell, what comes after it: in a     *)
(* chain its prev, in a pool what is handed out once it is taken.          *)
AfterTaken(f, kind, q) == HeadAfter(q, PrevOf(f, q), CellsIn(kind))
ChainClosed(f, kind, S) == \A q \in S : IsCell(f, kind, q) => PrevOf(f, q) \in S
PoolClosed(f, kind, S) == \A q \in S : IsCell(f, kind, q) => AfterTaken(f, kind, q) \in S
ChainLeads(f, kind, a, p) ==
  \A S \in SUBSET cell_ptr : a \in S /\ ChainClosed(f, kind, S) => p \in S
PoolLeads(f, kind, h, p) ==
  \A S \in SUBSET cell_ptr : h \in S /\ PoolClosed(f, kind, S) => p \in S
InSomeChain(f, kind, p) ==
  \E n \in cell_ptr : InUse(f, n) /\ ChainLeads(f, kind, LastOf(f, kind, n), p)
Placed(f, kind, h, p) == InSomeChain(f, kind, p) \/ PoolLeads(f, kind, h, p)

LEMMA LeadsHere ==
  ASSUME NEW f, NEW kind, NEW p
  PROVE  ChainLeads(f, kind, p, p) /\ PoolLeads(f, kind, p, p)
BY DEF ChainLeads, PoolLeads

(* A chain whose cells stay as they are, whatever happens to the others.   *)
LEMMA ChainStays ==
  ASSUME NEW f, NEW g, NEW kind, NEW o, ChainsApart(f, kind, o), NEW n \in cell_ptr,
         InUse(f, n), LastOf(f, kind, n) \in cell_ptr,
         \A q \in cell_ptr : o[q] = n => IsCell(g, kind, q) /\ PrevOf(g, q) = PrevOf(f, q),
         NEW p, ChainLeads(f, kind, LastOf(f, kind, n), p)
  PROVE  ChainLeads(g, kind, LastOf(f, kind, n), p)
<1> DEFINE a == LastOf(f, kind, n)
<1> SUFFICES ASSUME NEW S \in SUBSET cell_ptr, a \in S, ChainClosed(g, kind, S)
             PROVE  p \in S
  BY DEF ChainLeads
<1> DEFINE T == {q \in S : o[q] = n \/ q = Null}
<1>1. a \in T  BY DEF ChainsApart, ChainBegins
<1>2. ASSUME NEW q \in T, IsCell(f, kind, q)  PROVE PrevOf(f, q) \in T
  <2>1. q \in cell_ptr /\ q \in S /\ o[q] = n  BY <1>2 DEF ChainsApart
  <2>2. PrevOf(f, q) = Null \/ o[PrevOf(f, q)] = n  BY <2>1, PrevOfNodes
  <2>3. PrevOf(f, q) \in S  BY <2>1 DEF ChainClosed
  <2> QED  BY <2>2, <2>3
<1>3. T \in SUBSET cell_ptr /\ ChainClosed(f, kind, T)  BY <1>2 DEF ChainClosed
<1>4. p \in T  BY <1>1, <1>3 DEF ChainLeads
<1> QED  BY <1>4

(* What comes after a cell of the pool is of the pool too, or its end.     *)
LEMMA AfterOfPool ==
  ASSUME NEW f, NEW kind \in CellKind, NEW h, NEW o, PoolApart(f, kind, h, o),
         NEW q \in cell_ptr, o[q] = NoRoom
  PROVE  LET a == AfterTaken(f, kind, q) IN a = NoRoom \/ o[a] = NoRoom
<1> DEFINE a == AfterTaken(f, kind, q)
<1>1. IsCell(f, kind, q) /\ CellsIn(kind) \in Nat
  BY LayoutAssumption DEF PoolApart, CellsIn
<1>2. CASE PrevOf(f, q) # Null
  <2>1. Ready(f, o, PrevOf(f, q))  BY <1>2 DEF PoolApart, PoolGoesOn, Listed
  <2> QED  BY <1>2, <2>1 DEF AfterTaken, HeadAfter, Ready, Listed, NeverWritten
<1>3. CASE PrevOf(f, q) = Null /\ q.offset + 1 > CellsIn(kind) - 1
  BY <1>3 DEF AfterTaken, HeadAfter
<1>4. CASE PrevOf(f, q) = Null /\ ~ (q.offset + 1 > CellsIn(kind) - 1)
  <2> DEFINE r == Ptr(q.block_num, q.offset + 1)
  <2>1. a = r  BY <1>4 DEF AfterTaken, HeadAfter
  <2>2. r \in cell_ptr /\ r.block_num = q.block_num /\ r.offset = q.offset + 1
    BY DEF cell_ptr, Ptr
  <2> HIDE DEF r
  <2>3. IsCell(f, kind, r)  BY <1>1, <1>4, <2>2 DEF IsCell, cell_ptr
  <2>4. Precedes(q, r)  BY <2>2 DEF Precedes, cell_ptr
  <2>5. NeverWritten(f, o, q)  BY <1>4 DEF NeverWritten
  <2>6. NeverWritten(f, o, r)  BY <2>2, <2>3, <2>4, <2>5 DEF PoolApart
  <2> QED  BY <2>1, <2>6 DEF NeverWritten
<1> QED  BY <1>2, <1>3, <1>4

(* The pool, when the cells of the pool stay as they are but perhaps the   *)
(* one at its head, which is taken.                                        *)
PoolCellsKept(f, g, kind, o, h) ==
  \A q \in cell_ptr : o[q] = NoRoom /\ q # h => IsCell(g, kind, q) /\ PrevOf(g, q) = PrevOf(f, q)

LEMMA PoolTaken ==
  ASSUME NEW f, NEW g, NEW kind \in CellKind, NEW h \in cell_ptr, NEW o, PoolApart(f, kind, h, o),
         IsCell(f, kind, h), PoolCellsKept(f, g, kind, o, h),
         NEW p, p # h, PoolLeads(f, kind, h, p)
  PROVE  PoolLeads(g, kind, AfterTaken(f, kind, h), p)
<1> SUFFICES ASSUME NEW S \in SUBSET cell_ptr, AfterTaken(f, kind, h) \in S, PoolClosed(g, kind, S)
             PROVE  p \in S
  BY DEF PoolLeads
<1> DEFINE T == {q \in S \cup {h} : o[q] = NoRoom \/ q = NoRoom}
<1>1. o[h] = NoRoom  BY CellPlace DEF PoolApart, Ready, Listed, NeverWritten
<1>2. ASSUME NEW q \in T, IsCell(f, kind, q)  PROVE AfterTaken(f, kind, q) \in T
  <2>1. q \in cell_ptr /\ q # NoRoom /\ o[q] = NoRoom  BY <1>2, CellPlace
  <2>2. LET a == AfterTaken(f, kind, q) IN a = NoRoom \/ o[a] = NoRoom  BY <2>1, AfterOfPool
  <2>3. CASE q = h  BY <2>2, <2>3
  <2>4. CASE q # h
    <3>1. q \in S /\ IsCell(g, kind, q) /\ PrevOf(g, q) = PrevOf(f, q)
      BY <2>1, <2>4 DEF PoolCellsKept
    <3>2. AfterTaken(g, kind, q) = AfterTaken(f, kind, q)  BY <3>1 DEF AfterTaken
    <3> QED  BY <2>2, <3>1, <3>2 DEF PoolClosed
  <2> QED  BY <2>3, <2>4
<1>3. T \in SUBSET cell_ptr /\ PoolClosed(f, kind, T)  BY <1>2 DEF PoolClosed
<1>4. h \in T  BY <1>1
<1>5. p \in T  BY <1>3, <1>4 DEF PoolLeads
<1> QED  BY <1>5

LEMMA PoolStays ==
  ASSUME NEW f, NEW g, NEW kind \in CellKind, NEW h \in cell_ptr, NEW o, PoolApart(f, kind, h, o),
         PoolCellsKept(f, g, kind, o, NoRoom), NEW p, PoolLeads(f, kind, h, p)
  PROVE  PoolLeads(g, kind, h, p)
<1> SUFFICES ASSUME NEW S \in SUBSET cell_ptr, h \in S, PoolClosed(g, kind, S)
             PROVE  p \in S
  BY DEF PoolLeads
<1> DEFINE T == {q \in S : o[q] = NoRoom \/ q = NoRoom}
<1>1. h \in T  BY DEF PoolApart, Ready, Listed, NeverWritten
<1>2. ASSUME NEW q \in T, IsCell(f, kind, q)  PROVE AfterTaken(f, kind, q) \in T
  <2>1. q \in cell_ptr /\ q # NoRoom /\ o[q] = NoRoom /\ q \in S  BY <1>2, CellPlace
  <2>2. LET a == AfterTaken(f, kind, q) IN a = NoRoom \/ o[a] = NoRoom  BY <2>1, AfterOfPool
  <2>3. IsCell(g, kind, q) /\ PrevOf(g, q) = PrevOf(f, q)  BY <2>1 DEF PoolCellsKept
  <2>4. AfterTaken(g, kind, q) = AfterTaken(f, kind, q)  BY <2>3 DEF AfterTaken
  <2> QED  BY <2>1, <2>2, <2>3, <2>4 DEF PoolClosed
<1>3. T \in SUBSET cell_ptr /\ PoolClosed(f, kind, T)  BY <1>2 DEF PoolClosed
<1>4. p \in T  BY <1>1, <1>3 DEF PoolLeads
<1> QED  BY <1>4

(* free_cell: the cell that was given leads to all that was there.         *)
LEMMA PoolGiven ==
  ASSUME NEW f, NEW g, NEW kind \in CellKind, NEW h \in cell_ptr, NEW o, PoolApart(f, kind, h, o),
         PoolCellsKept(f, g, kind, o, NoRoom), NEW c, IsCell(g, kind, c), PrevOf(g, c) = h, h # Null,
         NEW p, PoolLeads(f, kind, h, p)
  PROVE  PoolLeads(g, kind, c, p)
<1>1. PoolLeads(g, kind, h, p)  BY PoolStays
<1>2. AfterTaken(g, kind, c) = h  BY DEF AfterTaken, HeadAfter
<1> QED  BY <1>1, <1>2 DEF PoolLeads, PoolClosed

(* Nothing but a cell of the pool is taken, and no chain changes.          *)
SamePrevs(f, g, kind) ==
  \A q \in cell_ptr : /\ IsCell(g, kind, q) <=> IsCell(f, kind, q)
                      /\ IsCell(f, kind, q) => PrevOf(g, q) = PrevOf(f, q)

LEMMA SameLeads ==
  ASSUME NEW f, NEW g, NEW kind, SamePrevs(f, g, kind), NEW a, NEW p
  PROVE  /\ ChainLeads(f, kind, a, p) => ChainLeads(g, kind, a, p)
         /\ PoolLeads(f, kind, a, p) => PoolLeads(g, kind, a, p)
<1>1. \A S \in SUBSET cell_ptr : ChainClosed(g, kind, S) => ChainClosed(f, kind, S)
  BY DEF ChainClosed, SamePrevs
<1>2. \A S \in SUBSET cell_ptr : PoolClosed(g, kind, S) => PoolClosed(f, kind, S)
  BY DEF PoolClosed, AfterTaken, SamePrevs
<1> QED  BY <1>1, <1>2 DEF ChainLeads, PoolLeads

LEMMA SamePlaces ==
  ASSUME NEW f, NEW g, NEW kind, SamePrevs(f, g, kind), ChainsKept(f, g, kind), NEW h, NEW p,
         Placed(f, kind, h, p)
  PROVE  Placed(g, kind, h, p)
BY SameLeads DEF Placed, InSomeChain, ChainsKept, ChainKept

(* update_node_labels and the like: the new first cell leads to the chain. *)
LEMMA ChainLinked ==
  ASSUME NEW f, NEW g, NEW kind, SamePrevs(f, g, kind), NEW c \in cell_ptr, IsCell(f, kind, c),
         NEW p, ChainLeads(f, kind, PrevOf(f, c), p)
  PROVE  ChainLeads(g, kind, c, p)
<1>1. ChainLeads(g, kind, PrevOf(f, c), p)  BY SameLeads
<1>2. IsCell(g, kind, c) /\ PrevOf(g, c) = PrevOf(f, c)  BY DEF SamePrevs
<1> QED  BY <1>1, <1>2 DEF ChainLeads, ChainClosed

(* remove_labels and the like: what led to the cell leads past it.         *)
LEMMA ChainPast ==
  ASSUME NEW f, NEW g, NEW kind, NEW c \in cell_ptr, IsCell(f, kind, c),
         \A q \in cell_ptr : IsCell(f, kind, q) =>
           /\ IsCell(g, kind, q)
           /\ \/ PrevOf(g, q) = PrevOf(f, q)
              \/ PrevOf(f, q) = c /\ PrevOf(g, q) = PrevOf(f, c),
         NEW a, NEW b, b = a \/ (a = c /\ b = PrevOf(f, c)),
         NEW p, p # c, ChainLeads(f, kind, a, p)
  PROVE  ChainLeads(g, kind, b, p)
<1> SUFFICES ASSUME NEW S \in SUBSET cell_ptr, b \in S, ChainClosed(g, kind, S)
             PROVE  p \in S
  BY DEF ChainLeads
<1>1. CASE PrevOf(f, c) \in S
  <2> DEFINE T == S \cup {c}
  <2>1. T \in SUBSET cell_ptr /\ a \in T  OBVIOUS
  <2>2. ASSUME NEW q \in T, IsCell(f, kind, q)  PROVE PrevOf(f, q) \in T
    BY <1>1, <2>2 DEF ChainClosed
  <2>3. ChainClosed(f, kind, T)  BY <2>2 DEF ChainClosed
  <2>4. p \in T  BY <2>1, <2>3 DEF ChainLeads
  <2> QED  BY <2>4
<1>2. CASE PrevOf(f, c) \notin S
  <2>1. a \in S  BY <1>2
  <2>2. ChainClosed(f, kind, S)  BY <1>2 DEF ChainClosed
  <2> QED  BY <2>1, <2>2 DEF ChainLeads
<1> QED  BY <1>1, <1>2

(* allocate_new_block: the head leads to every cell of the new block.      *)
LEMMA NewBlockLeads ==
  ASSUME NEW g, NEW kind \in CellKind, NEW b \in Block, g[b] = ZeroBlock(kind),
         NEW p \in cell_ptr, p.block_num = b, IsCell(g, kind, p)
  PROVE  PoolLeads(g, kind, Ptr(b, 0), p)
<1> SUFFICES ASSUME NEW S \in SUBSET cell_ptr, Ptr(b, 0) \in S, PoolClosed(g, kind, S)
             PROVE  p \in S
  BY DEF PoolLeads
<1>1. kind \notin {"NODE", "STRING"} /\ CellsIn(kind) \in Nat \ {0}
  BY LayoutAssumption DEF CellKind, CellsIn
<1>2. g[b] = [type |-> kind, cells |-> [i \in 0 .. CellsIn(kind) - 1 |-> ZeroCell]]
  BY <1>1 DEF ZeroBlock
<1>3. ASSUME NEW i \in 0 .. CellsIn(kind) - 1
      PROVE  IsCell(g, kind, Ptr(b, i)) /\ PrevOf(g, Ptr(b, i)) = Null
  <2>1. g[b].type = kind /\ g[b].cells[i] = ZeroCell  BY <1>2
  <2> QED  BY <2>1 DEF IsCell, PrevOf, CellAt, ZeroCell, Ptr
<1> DEFINE X == {i \in Nat : i <= CellsIn(kind) - 1 /\ Ptr(b, i) \notin S}
<1>4. X = {}
  <2>1. SUFFICES ASSUME X # {}  PROVE FALSE  OBVIOUS
  <2>2. PICK i \in X : \A j \in X : i <= j  BY <2>1, LeastNumber, Zenon
  <2>3. i # 0  BY <2>2
  <2> DEFINE j == i - 1
  <2>4. j \in Nat /\ j \in 0 .. CellsIn(kind) - 1 /\ j + 1 = i /\ ~ (j + 1 > CellsIn(kind) - 1)
    BY <1>1, <2>2, <2>3
  <2>5. j \notin X  BY <2>2, <2>4
  <2>6. Ptr(b, j) \in S  BY <1>1, <2>4, <2>5
  <2>7. AfterTaken(g, kind, Ptr(b, j)) = Ptr(b, j + 1)
    BY <1>3, <2>4 DEF AfterTaken, HeadAfter, Ptr
  <2>8. Ptr(b, i) \in S  BY <1>3, <2>4, <2>6, <2>7 DEF PoolClosed
  <2> QED  BY <2>2, <2>8
<1>5. p.offset \in Nat /\ p.offset <= CellsIn(kind) - 1 /\ p = Ptr(b, p.offset)
  BY <1>1 DEF IsCell, cell_ptr, Ptr
<1> QED  BY <1>4, <1>5

LEMMA NothingFromNoRoom ==
  ASSUME NEW f, NEW kind, NEW p, PoolLeads(f, kind, NoRoom, p)
  PROVE  p = NoRoom
<1>1. {NoRoom} \in SUBSET cell_ptr /\ PoolClosed(f, kind, {NoRoom})
  BY ZeroTypes, CellPlace DEF PoolClosed
<1> QED  BY <1>1 DEF PoolLeads

LEMMA NothingFromNull ==
  ASSUME NEW f, NEW kind, ~ IsCell(f, kind, Null), NEW p, ChainLeads(f, kind, Null, p)
  PROVE  p = Null
<1>1. {Null} \in SUBSET cell_ptr /\ ChainClosed(f, kind, {Null})
  BY ZeroTypes DEF ChainClosed
<1> QED  BY <1>1 DEF ChainLeads

-----------------------------------------------------------------------------
(* The invariant: every cell is in the chain of a node, or to be handed    *)
(* out, or in the hands of the command that links it or gives it back.     *)
HeldPCs == {"update_node", "free_cell"}
InHand(kind, p) ==
  exec.jobs # << >> /\ job.kind = kind /\ Place \in HeldPCs /\ p = exec.current
NoneLostOf(kind) ==
  \A p \in cell_ptr : IsCell(file, kind, p) =>
    Placed(file, kind, ctrl_block.head[kind], p) \/ InHand(kind, p)
AllPlaced(f) ==
  \A kind \in CellKind : \A p \in cell_ptr :
    IsCell(f, kind, p) => Placed(f, kind, f[0].head[kind], p)
LInv ==
  /\ ~ Down => \A kind \in CellKind : NoneLostOf(kind)
  /\ exec.pc = "down" => AllPlaced(file)

LEMMA StillLinv ==
  ASSUME exec'.pc # "down", ~ Down' => \A kind \in CellKind : NoneLostOf(kind)'
  PROVE  LInv'
BY DEF LInv

(* A step that does nothing to the cells of a kind.                        *)
SameHand ==
  \/ exec'.jobs = exec.jobs /\ exec'.current = exec.current /\ Place' = Place
  \/ Place \notin HeldPCs
LEMMA SamePlaced ==
  ASSUME LInv, ~ Down, NEW kind \in CellKind, SameCells(file, file', kind),
         ChainsKept(file, file', kind), ctrl_block'.head[kind] = ctrl_block.head[kind],
         SameHand
  PROVE  NoneLostOf(kind)'
<1> SUFFICES ASSUME NEW p \in cell_ptr, IsCell(file', kind, p)
             PROVE  Placed(file', kind, ctrl_block'.head[kind], p) \/ InHand(kind, p)'
  BY DEF NoneLostOf
<1>1. SamePrevs(file, file', kind)  BY DEF SameCells, SamePrevs
<1>2. IsCell(file, kind, p)  BY DEF SameCells
<1>3. CASE Placed(file, kind, ctrl_block.head[kind], p)
  BY <1>1, <1>3, SamePlaces
<1>4. CASE InHand(kind, p)
  BY <1>4 DEF InHand, SameHand, job
<1> QED  BY <1>2, <1>3, <1>4 DEF LInv, NoneLostOf

LEMMA UntouchedLost ==
  ASSUME LInv, ~ Down, exec'.pc # "down", Untouched(file, file'), SameHand,
         \A kind \in CellKind : ctrl_block'.head[kind] = ctrl_block.head[kind]
  PROVE  LInv'
BY SamePlaced, StillLinv DEF Untouched

LEMMA ReadLost ==
  ASSUME LInv, ~ Down, exec'.pc # "down", UNCHANGED <<file, ctrl_block>>, SameHand
  PROVE  LInv'
<1>1. Untouched(file, file')
  BY DEF Untouched, StringsKept, SameCells, ChainsKept, ChainKept
<1> QED  BY <1>1, UntouchedLost

LEMMA WildLost ==
  ASSUME CInv, LInv, Wild
  PROVE  LInv'
<1>1. exec'.pc = "wild"  BY Unfold DEF CInv, Wild, exec_type
<1> QED  BY <1>1 DEF LInv, Down

LEMMA StopLost ==
  ASSUME CInv, LInv, ~ Down, ~ Updating, Place \notin HeldPCs, exec'.pc = "down", UNCHANGED file
  PROVE  LInv'
<1>1. ctrl_block = file[0]  BY DEF CInv, ControlCoherent
<1>2. AllPlaced(file')  BY <1>1 DEF AllPlaced, LInv, NoneLostOf, InHand
<1> QED  BY <1>2 DEF LInv, Down, AllPlaced

-----------------------------------------------------------------------------
(* Every step loses no cell: first those of the allocator.                 *)
LEMMA ControlLost ==
  ASSUME CInv, NInv, LInv, update_control_block
  PROVE  LInv'
<1>1. /\ file \in File /\ ctrl_block \in control_block /\ exec \in exec_type
      /\ ~ Down /\ Updating /\ exec.pc = "update_control_block"
      /\ file' = [file EXCEPT ![0] = ctrl_block] /\ ctrl_block' = ctrl_block
      /\ exec' = [exec EXCEPT !.pc = exec.ret]
  BY Unfold DEF CInv, update_control_block, Down, Updating
<1>2. ctrl_block.nodes = file[0].nodes /\ file[0].type = "CONTROL"
  BY <1>1 DEF CInv, IInv, ControlBlock, ControlCoherent
<1>3. Untouched(file, file')  BY <1>1, <1>2, ControlRewritten
<1>4. /\ exec'.pc = exec.ret /\ exec.ret \notin UpdatingPCs /\ Place = exec.ret
      /\ exec'.jobs = exec.jobs /\ exec'.current = exec.current
  BY <1>1 DEF CInv, RetOK, Place, exec_type
<1>5. Place' = Place  BY <1>4 DEF Place, Updating, UpdatingPCs
<1>6. exec'.pc # "down"  BY <1>1, <1>4 DEF NInv, RestartSound
<1> QED  BY <1>1, <1>3, <1>4, <1>5, <1>6, UntouchedLost DEF SameHand

LEMMA ChainLost ==
  ASSUME CInv, BInv, NInv, LInv, chain_node_block \/ chain_update_control
  PROVE  LInv'
<1>1. /\ file \in File /\ ctrl_block \in control_block /\ exec \in exec_type
      /\ ~ Down /\ Updating /\ exec.pc \in ChainPCs
  BY Unfold DEF CInv, chain_node_block, chain_update_control, Down, Updating, ChainPCs
<1>2. Place = "create_node_cell"  BY <1>1 DEF CInv, RetOK, Place, ChainPCs
<1>3. CASE chain_node_block
  <2> DEFINE b == ctrl_block.empty_block
  <2>1. /\ file' = [file EXCEPT ![b] = [ZeroBlock("NODE") EXCEPT
                                          !.prev_block = ctrl_block.prev_node_block]]
        /\ ctrl_block' = [ctrl_block EXCEPT !.prev_node_block = b]
        /\ exec' = [exec EXCEPT !.pc = "chain_update_control"]
    BY <1>3 DEF chain_node_block
  <2>2. b \in Block /\ file[b] = ZeroBlock("NODE")
    BY <1>3 DEF chain_node_block, BInv, MemLinked, NInv, NewBlockBlank
  <2>3. file'[b] = [ZeroBlock("NODE") EXCEPT !.prev_block = ctrl_block.prev_node_block]
        /\ ButFor(file, file', b)
    BY <1>1, <2>1, <2>2 DEF File, ButFor
  <2>4. file[b].type = "NODE" /\ file'[b].type = "NODE" /\ file'[b].nodes = file[b].nodes
    BY <2>2, <2>3 DEF ZeroBlock
  <2>5. Untouched(file, file')  BY <2>3, <2>4, BlockRewritten
  <2>6. exec'.pc # "down" /\ \A kind \in CellKind : ctrl_block'.head[kind] = ctrl_block.head[kind]
    BY <1>1, <2>1 DEF control_block, exec_type
  <2> QED  BY <1>1, <1>2, <2>5, <2>6, UntouchedLost DEF SameHand, HeldPCs
<1>4. CASE chain_update_control
  <2>1. /\ file' = [file EXCEPT ![0] = ctrl_block]
        /\ ctrl_block' = [ctrl_block EXCEPT !.empty_block = @ + 1]
        /\ exec' = [exec EXCEPT !.pc = "update_control_block", !.ret = exec.ret]
    BY <1>4 DEF chain_update_control, UpdateControlThen
  <2>2. ctrl_block.nodes = file[0].nodes /\ file[0].type = "CONTROL"
    BY <1>1 DEF CInv, IInv, ControlBlock, ControlCoherent
  <2>3. Untouched(file, file')  BY <1>1, <2>1, <2>2, ControlRewritten
  <2>4. exec'.pc # "down" /\ \A kind \in CellKind : ctrl_block'.head[kind] = ctrl_block.head[kind]
    BY <1>1, <2>1 DEF control_block, exec_type
  <2> QED  BY <1>1, <1>2, <2>3, <2>4, UntouchedLost DEF SameHand, HeldPCs
<1> QED  BY <1>3, <1>4

LEMMA AllocateLost ==
  ASSUME CInv, BInv, KInv, LInv, ~ Down, ~ Updating, NEW type \in Pool, NEW ret,
         allocate_new_block(type, ret), exec.pc \notin HeldPCs,
         type \in CellKind => ctrl_block.head[type].block_num = -1
  PROVE  LInv'
<1> DEFINE b == ctrl_block.empty_block
           h == Ptr(b, ctrl_block.head[type].offset)
<1>1. /\ file \in File /\ ctrl_block \in control_block /\ exec \in exec_type /\ b \in Block /\ b # 0
      /\ \A pool \in Pool : ctrl_block.head[pool] \in cell_ptr
  BY Unfold, LayoutAssumption DEF CInv, allocate_new_block, Block
<1>2. /\ file' = [file EXCEPT ![b] = ZeroBlock(type)]
      /\ \/ /\ ctrl_block' = [ctrl_block EXCEPT !.head[type] = h]
            /\ exec' = [exec EXCEPT !.pc = "chain_node_block", !.ret = ret]
         \/ /\ ctrl_block' = [ctrl_block EXCEPT
                 !.head[type] = h, !.empty_block = b + 1,
                 !.prev_node_block = IF type = "NODE" THEN b ELSE @]
            /\ exec' = [exec EXCEPT !.pc = "update_control_block", !.ret = ret]
  BY DEF allocate_new_block, UpdateControlThen
<1>3. /\ ctrl_block'.head = [ctrl_block.head EXCEPT ![type] = h]
      /\ ctrl_block.head \in [Pool -> cell_ptr]
  BY <1>1, <1>2 DEF control_block
<1>4. exec'.pc \in {"chain_node_block", "update_control_block"}
  BY <1>1, <1>2 DEF exec_type
<1>5. file[b].type = "ABSENT"
  <2>1. exec.pc \notin ChainPCs  BY DEF ChainPCs, Updating
  <2> QED  BY <1>1, <2>1 DEF BInv, MemLinked, AbsentFrom, Block
<1>6. file'[b] = ZeroBlock(type) /\ ButFor(file, file', b)
  BY <1>1, <1>2 DEF File, ButFor
<1>7. \A kind \in CellKind : ChainsKept(file, file', kind) /\ (kind # type => SameCells(file, file', kind))
  BY <1>1, <1>5, <1>6, BlockAdded
<1>8. SameHand  BY DEF SameHand, Place
<1> HIDE DEF b, h
<1>9. ASSUME NEW kind \in CellKind, kind # type  PROVE NoneLostOf(kind)'
  <2>1. ctrl_block'.head[kind] = ctrl_block.head[kind]  BY <1>3, <1>9 DEF Pool
  <2> QED  BY <1>7, <1>8, <1>9, <2>1, SamePlaced
<1>10. ASSUME type \in CellKind  PROVE NoneLostOf(type)'
  <2>1. PICK o \in Owners : Held(type, o)  BY <1>10 DEF KInv, MemCells, AllHeld
  <2>2. ctrl_block.head[type] = NoRoom
    BY <1>1, <1>10, <2>1, HeadOfPool DEF Held, Shared
  <2>3. ctrl_block'.head[type] = Ptr(b, 0)  BY <1>3, <2>2 DEF NoRoom, Ptr, h
  <2>4. \A q : q.block_num # b => /\ IsCell(file', type, q) <=> IsCell(file, type, q)
                                  /\ IsCell(file, type, q) => PrevOf(file', q) = PrevOf(file, q)
    BY <1>6 DEF IsCell, PrevOf, CellAt, ButFor
  <2>5. \A q : IsCell(file, type, q) => q.block_num # b
    BY <1>5, <1>10 DEF IsCell, CellKind
  <2> SUFFICES ASSUME NEW p \in cell_ptr, IsCell(file', type, p)
               PROVE  Placed(file', type, ctrl_block'.head[type], p)
    BY DEF NoneLostOf
  <2>6. CASE p.block_num = b
    BY <1>1, <1>6, <1>10, <2>3, <2>6, NewBlockLeads DEF Placed
  <2>7. CASE p.block_num # b
    <3>1. IsCell(file, type, p)  BY <2>4, <2>7
    <3>2. ~ InHand(type, p)  BY DEF InHand, Place
    <3>3. Placed(file, type, NoRoom, p)  BY <1>10, <2>2, <3>1, <3>2 DEF LInv, NoneLostOf
    <3>4. InSomeChain(file, type, p)
      BY <3>1, <3>3, NothingFromNoRoom, CellPlace DEF Placed
    <3>5. PICK n \in cell_ptr : InUse(file, n) /\ ChainLeads(file, type, LastOf(file, type, n), p)
      BY <3>4 DEF InSomeChain
    <3>6. ChainsApart(file, type, o)  BY <2>1 DEF Held, Shared
    <3>7. n # NoRoom /\ n # Nobody /\ LastOf(file, type, n) \in cell_ptr
      BY <1>1, <1>10, <3>5, NodePlace, LastType DEF InUse
    <3>8. \A q \in cell_ptr : o[q] = n => IsCell(file', type, q) /\ PrevOf(file', q) = PrevOf(file, q)
      BY <2>4, <2>5, <3>6, <3>7 DEF ChainsApart, OfNode
    <3>9. ChainLeads(file', type, LastOf(file, type, n), p)
      BY <3>5, <3>6, <3>7, <3>8, ChainStays
    <3>10. InUse(file', n) /\ LastOf(file', type, n) = LastOf(file, type, n)
      BY <1>7, <1>10, <3>5 DEF ChainsKept, ChainKept
    <3> QED  BY <3>9, <3>10 DEF Placed, InSomeChain
  <2> QED  BY <2>6, <2>7
<1> QED  BY <1>4, <1>9, <1>10, StillLinv

-----------------------------------------------------------------------------
(* Nodes created and deleted; strings; the loops.                          *)
LEMMA CreateNodeLost ==
  ASSUME CInv, BInv, NInv, KInv, LInv, create_node_cell
  PROVE  LInv'
<1> DEFINE h == ctrl_block.head["NODE"]
           new == [ZeroNode EXCEPT !.is_empty = 1]
           after == HeadAfter(h, NodeAt(file, h).last["LABEL"], NodesIn(h.block_num))
<1>1. /\ exec.pc = "create_node_cell" /\ ~ Down /\ ~ Updating
      /\ ctrl_block \in control_block /\ exec \in exec_type /\ file \in File /\ h \in cell_ptr
  BY Unfold DEF create_node_cell, Down, Updating, CInv, Pool
<1>2. exec.pc \notin HeldPCs  BY <1>1 DEF HeldPCs
<1>3. CASE h.block_num = -1
  <2> DEFINE type == "NODE"
  <2>1. allocate_new_block(type, "create_node_cell")  BY <1>3 DEF create_node_cell
  <2>2. type \in Pool /\ type \notin CellKind  BY DEF Pool, CellKind
  <2> QED  BY <1>1, <1>2, <2>1, <2>2, AllocateLost
<1>4. CASE Wild  BY <1>4, WildLost
<1>5. CASE h.block_num # -1 /\ IsNode(file, h) /\ ~ Wild
  <2> HIDE DEF after
  <2>1. /\ file' = WriteNode(file, h, new)
        /\ IF h.block_num = 0 THEN ctrl_block' = [file'[0] EXCEPT !.head["NODE"] = after]
           ELSE ctrl_block' = [ctrl_block EXCEPT !.head["NODE"] = after]
        /\ exec' = [exec EXCEPT !.pc = "update_control_block", !.ret = "next",
                                !.matched = {h}, !.left = {h}]
    BY <1>5 DEF create_node_cell, after
  <2>2. new \in node_cell /\ new.is_empty = 1 /\ \A kind \in CellKind : new.last[kind] = Null
    BY ZeroTypes DEF node_cell, ZeroNode
  <2> HIDE DEF new
  <2>3. /\ \A kind \in CellKind : SameCells(file, file', kind)
        /\ \A kind \in CellKind : \A m \in cell_ptr : m # h => ChainKept(file, file', kind, m)
        /\ NodeAt(file', h) = new
    BY <1>1, <1>5, <2>1, <2>2, NodeRewritten
  <2>4. ~ InUse(file, h)
    <3>1. PoolSound(file, h)  BY <1>1 DEF NInv, MemSound
    <3> QED  BY <1>5, <3>1, NodePlace, Apart DEF PoolSound, CanHandOut, FirstUnused
  <2>5. ASSUME NEW kind \in CellKind  PROVE ChainsKept(file, file', kind)
    <3>1. ChainKept(file, file', kind, h)  BY <2>2, <2>3, <2>4 DEF ChainKept, LastOf
    <3> QED  BY <2>3, <3>1 DEF ChainsKept
  <2>7. file'[0] \in control_block  BY <1>1, <1>5, <2>1, <2>2, NodeWrite
  <2>8. file'[0].head = ctrl_block.head
    BY <1>1, <1>5, <2>1, <2>2, NodeWritten DEF CInv, ControlCoherent
  <2>9. ASSUME NEW kind \in CellKind  PROVE ctrl_block'.head[kind] = ctrl_block.head[kind]
    <3> DEFINE heads == ctrl_block.head
    <3>1. kind # "NODE" /\ heads \in [Pool -> cell_ptr] /\ kind \in Pool
      BY <1>1 DEF CellKind, Pool, control_block
    <3>2. ctrl_block'.head = [heads EXCEPT !["NODE"] = after]
      BY <1>1, <2>1, <2>7, <2>8 DEF control_block
    <3> HIDE DEF heads
    <3>3. ctrl_block'.head[kind] = heads[kind]  BY <3>1, <3>2
    <3> QED  BY <3>3 DEF heads
  <2>10. exec'.pc # "down" /\ SameHand
    BY <1>1, <1>2, <2>1 DEF exec_type, SameHand, Place
  <2> QED  BY <1>1, <2>3, <2>5, <2>9, <2>10, SamePlaced, StillLinv
<1> QED  BY <1>3, <1>4, <1>5 DEF create_node_cell

(* A node is freed once its chains are empty.                              *)
LEMMA FreeNodeLost ==
  ASSUME CInv, NInv, KInv, LInv, free_node,
         \A kind \in CellKind : LastOf(file, kind, exec.node) = Null
  PROVE  LInv'
<1> DEFINE n == exec.node
           h == ctrl_block.head["NODE"]
           freed == [NodeAt(file, n) EXCEPT !.is_empty = 0, !.last["LABEL"] = h]
<1>1. /\ exec.pc = "free_node" /\ ~ Down /\ ~ Updating
      /\ exec \in exec_type /\ file \in File /\ n \in cell_ptr /\ h \in cell_ptr
  BY Unfold DEF free_node, Down, Updating, CInv, Pool, exec_type
<1>2. CASE Wild  BY <1>2, WildLost
<1>3. CASE IsNode(file, n) /\ ~ Wild
  <2>1. /\ file' = WriteNode(file, n, freed)
        /\ ctrl_block' = [file'[0] EXCEPT !.head["NODE"] = n]
        /\ exec' = [exec EXCEPT !.pc = "update_control_block", !.ret = "next"]
    BY <1>3 DEF free_node
  <2>2. freed \in node_cell
    BY <1>1, <1>3, NodeAtType DEF node_cell, CellKind
  <2> HIDE DEF freed
  <2>3. /\ \A kind \in CellKind : SameCells(file, file', kind)
        /\ \A kind \in CellKind : \A m \in cell_ptr : m # n => ChainKept(file, file', kind, m)
    BY <1>1, <1>3, <2>1, <2>2, NodeRewritten
  <2>4. file'[0] \in control_block  BY <1>1, <1>3, <2>1, <2>2, NodeWrite
  <2>5. file'[0].head = ctrl_block.head
    BY <1>1, <1>3, <2>1, <2>2, NodeWritten DEF CInv, ControlCoherent
  <2>6. \A kind \in CellKind : ctrl_block'.head[kind] = ctrl_block.head[kind]
    BY <2>1, <2>4, <2>5 DEF control_block, CellKind
  <2>7. exec'.pc # "down"  BY <1>1, <2>1 DEF exec_type
  <2> HIDE DEF n
  <2>8. ASSUME NEW kind \in CellKind, NEW p \in cell_ptr, IsCell(file', kind, p)
        PROVE  Placed(file', kind, ctrl_block'.head[kind], p)
    <3>1. SamePrevs(file, file', kind)  BY <2>3 DEF SameCells, SamePrevs
    <3>2. IsCell(file, kind, p)  BY <2>3, <2>8 DEF SameCells
    <3>3. ~ InHand(kind, p)  BY <1>1 DEF InHand, Place, HeldPCs
    <3>4. Placed(file, kind, ctrl_block.head[kind], p)
      BY <1>1, <3>2, <3>3 DEF LInv, NoneLostOf
    <3>5. CASE PoolLeads(file, kind, ctrl_block.head[kind], p)
      BY <2>6, <3>1, <3>5, SameLeads DEF Placed
    <3>6. ASSUME NEW m \in cell_ptr, InUse(file, m), ChainLeads(file, kind, LastOf(file, kind, m), p)
          PROVE  InSomeChain(file', kind, p)
      <4>1. m # n
        <5>1. ~ IsCell(file, kind, Null)
          BY <1>1 DEF KInv, MemCells, AllHeld, Held, Shared, ChainsApart
        <5> QED  BY <3>2, <3>6, <5>1, NothingFromNull DEF n
      <4>2. InUse(file', m) /\ LastOf(file', kind, m) = LastOf(file, kind, m)
        BY <2>3, <3>6, <4>1 DEF ChainKept
      <4>3. ChainLeads(file', kind, LastOf(file, kind, m), p)  BY <3>1, <3>6, SameLeads
      <4> QED  BY <4>2, <4>3 DEF InSomeChain
    <3> QED  BY <3>4, <3>5, <3>6 DEF Placed, InSomeChain
  <2> QED  BY <2>7, <2>8, StillLinv DEF NoneLostOf
<1> QED  BY <1>2, <1>3 DEF free_node

LEMMA LoopLost ==
  ASSUME CInv, LInv, next_node \/ next_job \/ respond \/ next_second \/ find_node_attribute
  PROVE  LInv'
<1>1. /\ exec \in exec_type /\ ~ Down /\ UNCHANGED <<file, ctrl_block>>
      /\ exec.pc \in {"next", "next_second", "find_node_attribute"}
  BY Unfold DEF CInv, next_node, next_job, respond, next_second, find_node_attribute, Down, ReadOnly
<1>2. SameHand  BY <1>1 DEF SameHand, Place, Updating, HeldPCs
<1>3. exec'.pc # "down"
  <2>1. CASE next_node
    <3>1. exec'.pc \in {Entry(job.op), "wild"}  BY <1>1, <2>1, ZenonT(40) DEF next_node, exec_type
    <3> QED  BY <3>1 DEF Entry
  <2>2. CASE next_job  BY <1>1, <2>2 DEF next_job, exec_type
  <2>3. CASE respond  BY <2>3 DEF respond, Idle
  <2>4. CASE next_second  BY <1>1, <2>4 DEF next_second, exec_type
  <2>5. CASE find_node_attribute  BY <1>1, <2>5 DEF find_node_attribute, exec_type
  <2> QED  BY <2>1, <2>2, <2>3, <2>4, <2>5
<1> QED  BY <1>1, <1>2, <1>3, ReadLost

LEMMA CreateStringLost ==
  ASSUME CInv, BInv, KInv, LInv, create_string_cell \/ string_in_new_block
  PROVE  LInv'
<1> DEFINE h == ctrl_block.head["STRING"]
           first == Ptr(h.block_num, 0)
           str_length == strlen[Head(exec.texts)]
<1>1. exec.pc \in StringPCs /\ ~ Down /\ ~ Updating /\ exec.pc \notin HeldPCs
  BY DEF create_string_cell, string_in_new_block, StringPCs, Down, Updating, HeldPCs
<1>2. /\ ctrl_block \in control_block /\ exec \in exec_type /\ file \in File
      /\ h \in cell_ptr /\ first \in cell_ptr
  <2>1. ctrl_block \in control_block /\ exec \in exec_type /\ file \in File /\ h \in cell_ptr
    BY Unfold DEF CInv, Pool
  <2> QED  BY <2>1 DEF cell_ptr, Ptr
<1>3. \/ \E ret \in StringPCs : allocate_new_block("STRING", ret)
      \/ Wild
      \/ \E p \in {h, first} : \E offset :
           /\ Fits(p, str_length)
           /\ file' = WriteString(file, p, Head(exec.texts))
           /\ ctrl_block' = [ctrl_block EXCEPT !.head["STRING"].offset = offset]
           /\ StringDone(p)
  <2> HIDE DEF str_length
  <2>1. CASE create_string_cell
    BY <2>1 DEF create_string_cell, StringPCs, str_length
  <2>2. CASE string_in_new_block
    BY <2>2 DEF string_in_new_block, StringPCs, str_length
  <2> QED  BY <2>1, <2>2
<1>4. ASSUME NEW ret \in StringPCs, allocate_new_block("STRING", ret)  PROVE LInv'
  <2> DEFINE type == "STRING"
  <2>1. type \in Pool /\ type \notin CellKind /\ allocate_new_block(type, ret)
    BY <1>4 DEF Pool, CellKind
  <2> HIDE DEF type
  <2> QED  BY <1>1, <2>1, AllocateLost
<1>5. CASE Wild  BY <1>5, WildLost
<1>6. ASSUME NEW p \in {h, first}, NEW offset, Fits(p, str_length),
             file' = WriteString(file, p, Head(exec.texts)),
             ctrl_block' = [ctrl_block EXCEPT !.head["STRING"].offset = offset],
             StringDone(p)
      PROVE  LInv'
  <2>1. \A kind \in CellKind : ctrl_block'.head[kind] = ctrl_block.head[kind]
    BY <1>2, <1>6 DEF control_block, Pool, CellKind
  <2>2. p \in cell_ptr  BY <1>2
  <2>3. str_length \in Nat /\ Head(exec.texts) \in String
    <3>1. exec.texts # << >> /\ exec.texts \in Seq(String)
      BY <1>1, <1>2 DEF CInv, IInv, ExecOK, InOp, exec_type
    <3> QED  BY <3>1, LayoutAssumption
  <2> HIDE DEF str_length, h, first
  <2>4. p.offset \in 0 .. STRING_DATA - 1
    BY <1>6, <2>2, <2>3, LayoutAssumption DEF Fits, cell_ptr
  <2>5. Untouched(file, file')  BY <1>2, <1>6, <2>3, <2>4, StringWritten DEF Fits
  <2>6. exec'.pc # "down" /\ SameHand
    BY <1>1, <1>2, <1>6 DEF StringDone, exec_type, SameHand, Place
  <2> QED  BY <1>1, <2>1, <2>5, <2>6, UntouchedLost
<1> QED  BY <1>3, <1>4, <1>5, <1>6

-----------------------------------------------------------------------------
(* Cells put into chains, and taken out of them.                           *)

(* The other kinds, and the chains the write does not touch.               *)
LEMMA OwnChain ==
  ASSUME NEW f \in File, NEW g, NEW kind \in CellKind, NEW o \in Owners, ChainsApart(f, kind, o),
         NEW c \in cell_ptr, ~ OfNode(o, c), ChainsKept(f, g, kind),
         \A q \in cell_ptr : q # c /\ IsCell(f, kind, q) =>
           IsCell(g, kind, q) /\ PrevOf(g, q) = PrevOf(f, q),
         NEW p, InSomeChain(f, kind, p)
  PROVE  InSomeChain(g, kind, p)
<1>1. PICK n \in cell_ptr : InUse(f, n) /\ ChainLeads(f, kind, LastOf(f, kind, n), p)
  BY DEF InSomeChain
<1>2. n # NoRoom /\ n # Nobody /\ LastOf(f, kind, n) \in cell_ptr
  BY <1>1, NodePlace, LastType DEF InUse
<1>3. \A q \in cell_ptr : o[q] = n => IsCell(g, kind, q) /\ PrevOf(g, q) = PrevOf(f, q)
  BY <1>2 DEF ChainsApart, OfNode
<1>4. ChainLeads(g, kind, LastOf(f, kind, n), p)  BY <1>1, <1>2, <1>3, ChainStays
<1>5. InUse(g, n) /\ LastOf(g, kind, n) = LastOf(f, kind, n)
  BY <1>1 DEF ChainsKept, ChainKept
<1> QED  BY <1>4, <1>5 DEF InSomeChain

LEMMA CreateCellLost ==
  ASSUME CInv, RelateInv, BInv, NInv, KInv, LInv, NEW kind \in CellKind, create_cell(kind)
  PROVE  LInv'
<1> DEFINE h == ctrl_block.head[kind]
           new == [prev  |-> NodeAt(file, exec.node).last[kind],
                   name  |-> exec.strings[1],
                   value |-> CASE kind = "ATTRIBUTE" -> exec.strings[2]
                               [] kind = "RELATION"  -> exec.second
                               [] OTHER              -> Null]
           after == HeadAfter(h, PrevOf(file, h), CellsIn(kind))
<1>1. /\ exec.pc = "create_cell" /\ ~ Down /\ ~ Updating /\ Place = "create_cell"
      /\ exec.jobs # << >> /\ job.kind = kind
  BY DEF create_cell, Down, Updating, Place, CInv, IInv, ExecOK, InOp, JobPCs
<1>2. /\ ctrl_block \in control_block /\ exec \in exec_type /\ file \in File
      /\ exec.node \in cell_ptr /\ h \in cell_ptr
  BY Unfold DEF CInv, Pool, exec_type
<1>3. \/ h.block_num = -1 /\ allocate_new_block(kind, "create_cell")
      \/ Wild
      \/ /\ IsCell(file, kind, h) /\ IsNode(file, exec.node)
         /\ file' = WriteCell(file, h, new)
         /\ ctrl_block' = [ctrl_block EXCEPT !.head[kind] = after]
         /\ exec' = [exec EXCEPT !.pc = "update_control_block", !.ret = "update_node",
                                 !.current = h]
  BY DEF create_cell, PrevOf
<1>4. CASE h.block_num = -1 /\ allocate_new_block(kind, "create_cell")
  <2>1. kind \in Pool /\ exec.pc \notin HeldPCs  BY <1>1 DEF Pool, HeldPCs
  <2> QED  BY <1>1, <1>4, <2>1, AllocateLost
<1>5. CASE Wild  BY <1>5, WildLost
<1>6. ASSUME IsCell(file, kind, h), IsNode(file, exec.node), file' = WriteCell(file, h, new),
             ctrl_block' = [ctrl_block EXCEPT !.head[kind] = after],
             exec' = [exec EXCEPT !.pc = "update_control_block", !.ret = "update_node",
                                  !.current = h]
      PROVE  LInv'
  <2>1. /\ Len(exec.strings) >= (IF kind = "ATTRIBUTE" THEN 2 ELSE 1)
        /\ exec.strings \in Seq(cell_ptr) /\ Len(exec.strings) \in Nat
        /\ exec.second \in cell_ptr
    BY <1>1, <1>2 DEF CInv, IInv, ExecOK, InOp, CellTexts, exec_type
  <2>2. /\ 1 \in 1 .. Len(exec.strings)
        /\ kind = "ATTRIBUTE" => 2 \in 1 .. Len(exec.strings)
    BY <2>1
  <2>3. /\ exec.strings[1] \in cell_ptr
        /\ kind = "ATTRIBUTE" => exec.strings[2] \in cell_ptr
    BY <2>1, <2>2
  <2>4. new \in cell
    <3>1. LastOf(file, kind, exec.node) \in cell_ptr  BY <1>2, <1>6, LastType
    <3> QED  BY <2>1, <2>3, <3>1, ZeroTypes DEF cell, LastOf, CellKind
  <2> HIDE DEF new
  <2>5. /\ \A k \in CellKind : ChainsKept(file, file', k)
        /\ \A k \in CellKind \ {kind} : SameCells(file, file', k)
        /\ \A q : IsCell(file', kind, q) <=> IsCell(file, kind, q)
        /\ \A q \in cell_ptr : q # h /\ IsCell(file, kind, q) => CellAt(file', q) = CellAt(file, q)
    BY <1>2, <1>6, <2>4, CellWritten
  <2>6. /\ ctrl_block'.head[kind] = after
        /\ \A k \in CellKind \ {kind} : ctrl_block'.head[k] = ctrl_block.head[k]
    <3> HIDE DEF after
    <3> QED  BY <1>2, <1>6 DEF control_block, Pool
  <2>7. /\ exec'.jobs = exec.jobs /\ exec'.pc = "update_control_block" /\ exec'.ret = "update_node"
        /\ exec'.current = h
    BY <1>2, <1>6 DEF exec_type
  <2>8. SameHand /\ Place' = "update_node" /\ job' = job
    BY <1>1, <2>7 DEF SameHand, HeldPCs, Place, Updating, job
  <2>9. \A k \in CellKind \ {kind} : NoneLostOf(k)'
    BY <1>1, <2>5, <2>6, <2>8, SamePlaced
  <2>10. PICK o \in Owners : Held(kind, o)  BY <1>1 DEF KInv, MemCells, AllHeld
  <2>11. ChainsApart(file, kind, o) /\ PoolApart(file, kind, h, o)  BY <2>10 DEF Held, Shared
  <2>12. o[h] = NoRoom /\ ~ OfNode(o, h)
    BY <1>6, <2>11, CellPlace DEF PoolApart, Ready, Listed, NeverWritten, OfNode
  <2>13. \A q \in cell_ptr : q # h /\ IsCell(file, kind, q) =>
           IsCell(file', kind, q) /\ PrevOf(file', q) = PrevOf(file, q)
    BY <2>5 DEF PrevOf
  <2>14. PoolCellsKept(file, file', kind, o, h)
    BY <2>11, <2>13 DEF PoolCellsKept, PoolApart
  <2>15. after = AfterTaken(file, kind, h)  BY DEF AfterTaken
  <2> HIDE DEF h, after
  <2>16. ASSUME NEW p \in cell_ptr, IsCell(file', kind, p)
         PROVE  Placed(file', kind, ctrl_block'.head[kind], p) \/ InHand(kind, p)'
    <3>1. CASE p = h
      BY <1>1, <2>7, <2>8, <3>1 DEF InHand, HeldPCs
    <3>2. CASE p # h
      <4>1. ~ InHand(kind, p)  BY <1>1 DEF InHand, HeldPCs
      <4>2. Placed(file, kind, h, p)  BY <1>1, <2>5, <2>16, <4>1 DEF LInv, NoneLostOf, h
      <4>3. CASE PoolLeads(file, kind, h, p)
        BY <1>2, <1>6, <2>6, <2>11, <2>14, <2>15, <3>2, <4>3, PoolTaken DEF Placed
      <4>4. CASE InSomeChain(file, kind, p)
        BY <1>2, <2>5, <2>11, <2>12, <2>13, <4>4, OwnChain DEF Placed
      <4> QED  BY <4>2, <4>3, <4>4 DEF Placed
    <3> QED  BY <3>1, <3>2
  <2>17. NoneLostOf(kind)'  BY <2>16 DEF NoneLostOf
  <2> QED  BY <2>7, <2>9, <2>17, StillLinv
<1> QED  BY <1>3, <1>4, <1>5, <1>6

LEMMA UpdateNodeLost ==
  ASSUME CInv, NInv, KInv, LInv, NEW kind \in CellKind, update_node(kind)
  PROVE  LInv'
<1> DEFINE n == exec.node
           c == exec.current
           new == [NodeAt(file, n) EXCEPT !.last[kind] = c]
<1>1. /\ exec.pc = "update_node" /\ ~ Down /\ ~ Updating /\ Place = "update_node"
      /\ exec.jobs # << >> /\ job.kind = kind
  BY DEF update_node, Down, Updating, Place, CInv, IInv, ExecOK, InOp, JobPCs
<1>2. /\ ctrl_block \in control_block /\ exec \in exec_type /\ file \in File
      /\ n \in cell_ptr /\ c \in cell_ptr
  BY Unfold DEF CInv, Pool, exec_type
<1>3. CASE Wild  BY <1>3, WildLost
<1>4. CASE IsNode(file, n) /\ ~ Wild
  <2>1. /\ file' = WriteNode(file, n, new) /\ ctrl_block' = file'[0]
        /\ \E pc \in {"next", "next_second"} : exec' = [exec EXCEPT !.pc = pc]
    BY <1>4 DEF update_node
  <2>2. InUse(file, n)  BY <1>1 DEF NInv, NodesHeld, AtNode, NodePCs
  <2>3. /\ new \in node_cell /\ new.is_empty = 1 /\ new.last[kind] = c
        /\ \A k \in CellKind \ {kind} : new.last[k] = NodeAt(file, n).last[k]
    <3>1. NodeAt(file, n) \in node_cell /\ NodeAt(file, n).is_empty = 1
      BY <1>2, <1>4, <2>2, NodeAtType DEF InUse
    <3> QED  BY <1>2, <3>1 DEF node_cell
  <2> HIDE DEF new
  <2>4. /\ \A k \in CellKind : SameCells(file, file', k)
        /\ \A k \in CellKind : \A m \in cell_ptr : m # n => ChainKept(file, file', k, m)
        /\ IsNode(file', n) /\ NodeAt(file', n) = new
    BY <1>2, <1>4, <2>1, <2>3, NodeRewritten
  <2>5. InUse(file', n) /\ LastOf(file', kind, n) = c  BY <2>3, <2>4 DEF InUse, LastOf
  <2>6. ctrl_block'.head = ctrl_block.head
    <3>1. file'[0].head = file[0].head  BY <1>2, <1>4, <2>1, <2>3, NodeWritten
    <3> QED  BY <1>1, <2>1, <3>1 DEF CInv, ControlCoherent
  <2>7. exec'.jobs = exec.jobs /\ exec'.pc \in {"next", "next_second"}
    BY <1>2, <2>1 DEF exec_type
  <2> HIDE DEF n, c
  <2>8. PICK o \in Owners : Held(kind, o)  BY <1>1 DEF KInv, MemCells, AllHeld
  <2>9. /\ IsCell(file, kind, c) /\ PrevOf(file, c) = LastOf(file, kind, n)
    BY <1>1, <2>8 DEF Held, InHands, n, c
  <2>10. SamePrevs(file, file', kind)  BY <2>4 DEF SameCells, SamePrevs
  <2>11. ASSUME NEW p \in cell_ptr, IsCell(file', kind, p)
         PROVE  Placed(file', kind, ctrl_block'.head[kind], p)
    <3>1. IsCell(file, kind, p)  BY <2>4, <2>11 DEF SameCells
    <3>2. CASE InHand(kind, p)
      <4>1. p = c  BY <3>2 DEF InHand, c
      <4>2. ChainLeads(file', kind, c, p)  BY <4>1, LeadsHere
      <4> QED  BY <1>2, <2>5, <4>2 DEF Placed, InSomeChain
    <3>3. CASE PoolLeads(file, kind, ctrl_block.head[kind], p)
      BY <2>6, <2>10, <3>3, SameLeads DEF Placed
    <3>4. ASSUME NEW m \in cell_ptr, InUse(file, m), ChainLeads(file, kind, LastOf(file, kind, m), p)
          PROVE  InSomeChain(file', kind, p)
      <4>1. CASE m = n
        <5>1. ChainLeads(file', kind, c, p)
          BY <1>2, <2>9, <2>10, <3>4, <4>1, ChainLinked
        <5> QED  BY <1>2, <2>5, <5>1 DEF InSomeChain
      <4>2. CASE m # n
        <5>1. InUse(file', m) /\ LastOf(file', kind, m) = LastOf(file, kind, m)
          BY <2>4, <3>4, <4>2 DEF ChainKept
        <5>2. ChainLeads(file', kind, LastOf(file, kind, m), p)  BY <2>10, <3>4, SameLeads
        <5> QED  BY <5>1, <5>2 DEF InSomeChain
      <4> QED  BY <4>1, <4>2
    <3> QED  BY <1>1, <3>1, <3>2, <3>3, <3>4 DEF LInv, NoneLostOf, Placed, InSomeChain
  <2>12. NoneLostOf(kind)'  BY <2>11 DEF NoneLostOf
  <2>13. ASSUME NEW k \in CellKind, k # kind  PROVE NoneLostOf(k)'
    <3> SUFFICES ASSUME NEW p \in cell_ptr, IsCell(file', k, p)
                 PROVE  Placed(file', k, ctrl_block'.head[k], p)
      BY DEF NoneLostOf
    <3>1. ChainsKept(file, file', k)
      <4>1. ChainKept(file, file', k, n)
        BY <2>2, <2>3, <2>4, <2>5, <2>13 DEF ChainKept, LastOf, n
      <4> QED  BY <2>4, <4>1 DEF ChainsKept
    <3>2. SamePrevs(file, file', k) /\ IsCell(file, k, p)  BY <2>4 DEF SameCells, SamePrevs
    <3>3. ~ InHand(k, p)  BY <1>1, <2>13 DEF InHand
    <3> QED  BY <1>1, <2>6, <3>1, <3>2, <3>3, SamePlaces DEF LInv, NoneLostOf
  <2> QED  BY <2>7, <2>12, <2>13, StillLinv
<1> QED  BY <1>3, <1>4 DEF update_node

LEMMA WriteValueLost ==
  ASSUME CInv, LInv, write_value
  PROVE  LInv'
<1> DEFINE kind == "ATTRIBUTE"
           p == exec.current
           new == [CellAt(file, p) EXCEPT !.value = exec.strings[1]]
<1>1. /\ exec.pc = "write_value" /\ ~ Down /\ ~ Updating /\ exec \in exec_type /\ file \in File
      /\ kind \in CellKind /\ p \in cell_ptr /\ SameHand
  BY Unfold DEF write_value, Down, Updating, CInv, CellKind, exec_type, SameHand, Place, HeldPCs
<1>2. CASE Wild  BY <1>2, WildLost
<1>3. CASE ~ Wild
  <2>1. /\ IsCell(file, kind, p) /\ file' = WriteCell(file, p, new)
        /\ exec' = [exec EXCEPT !.pc = "next"] /\ ctrl_block' = ctrl_block
    BY <1>3 DEF write_value
  <2>2. 1 \in 1 .. Len(exec.strings) /\ exec.strings \in Seq(cell_ptr)
    <3>1. Len(exec.strings) >= 1 /\ exec.strings \in Seq(cell_ptr)
      BY <1>1 DEF CInv, IInv, ExecOK, InOp, exec_type
    <3> QED  BY <3>1
  <2>3. new \in cell /\ new.prev = PrevOf(file, p)
    <3>1. CellAt(file, p) \in cell /\ exec.strings[1] \in cell_ptr
      BY <1>1, <2>1, <2>2, CellAtType
    <3> QED  BY <3>1 DEF cell, PrevOf
  <2> HIDE DEF kind, new
  <2>4. /\ \A k \in CellKind : ChainsKept(file, file', k)
        /\ \A k \in CellKind \ {kind} : SameCells(file, file', k)
        /\ \A q : IsCell(file', kind, q) <=> IsCell(file, kind, q)
        /\ CellAt(file', p) = new
        /\ \A q \in cell_ptr : q # p /\ IsCell(file, kind, q) => CellAt(file', q) = CellAt(file, q)
    BY <1>1, <2>1, <2>3, CellWritten
  <2>5. exec'.pc # "down"  BY <1>1, <2>1 DEF exec_type
  <2>6. SamePrevs(file, file', kind)
    BY <2>3, <2>4 DEF PrevOf, SamePrevs
  <2>7. ASSUME NEW k \in CellKind  PROVE NoneLostOf(k)'
    <3> SUFFICES ASSUME NEW q \in cell_ptr, IsCell(file', k, q)
                 PROVE  Placed(file', k, ctrl_block'.head[k], q)
      BY DEF NoneLostOf
    <3>1. SamePrevs(file, file', k)  BY <2>4, <2>6 DEF SameCells, SamePrevs
    <3>2. IsCell(file, k, q) /\ ~ InHand(k, q)
      BY <1>1, <3>1 DEF SamePrevs, InHand, Place, HeldPCs
    <3> QED  BY <1>1, <2>1, <2>4, <3>1, <3>2, SamePlaces DEF LInv, NoneLostOf
  <2> QED  BY <2>5, <2>7, StillLinv
<1> QED  BY <1>2, <1>3

-----------------------------------------------------------------------------
LEMMA RemoveCellLost ==
  ASSUME CInv, NInv, KInv, LInv, NEW kind \in CellKind, remove_cell(kind), OneCellEach'
  PROVE  LInv'
<1> DEFINE n == exec.node
           q == exec.prev
           c == exec.current
           old == CellAt(file, c)
           node == [NodeAt(file, n) EXCEPT !.last[kind] = old.prev]
           prev_cell == [CellAt(file, q) EXCEPT !.prev = old.prev]
           lost == exec.lost_place \/ (kind = "RELATION" /\ Named(old))
<1>1. /\ exec.pc = "remove" /\ ~ Down /\ ~ Updating /\ Place = "remove"
      /\ exec.jobs # << >> /\ job.kind = kind /\ Place \notin HeldPCs /\ SameHand
  BY DEF remove_cell, Down, Updating, Place, CInv, IInv, ExecOK, InOp, JobPCs, HeldPCs, SameHand
<1>2. /\ ctrl_block \in control_block /\ exec \in exec_type /\ file \in File
      /\ n \in cell_ptr /\ c \in cell_ptr /\ q \in cell_ptr
      /\ ctrl_block.head[kind] \in cell_ptr
  BY Unfold DEF CInv, Pool, exec_type
<1>3. InUse(file, n) /\ n # NoRoom /\ n # Nobody
  <2>1. InUse(file, n)  BY <1>1 DEF NInv, NodesHeld, AtNode, NodePCs
  <2> QED  BY <2>1, NodePlace DEF InUse
<1>4. ctrl_block = file[0]  BY <1>1 DEF CInv, ControlCoherent
<1>5. CASE /\ UNCHANGED <<file, ctrl_block>>
           /\ \/ exec' = [exec EXCEPT !.pc = "next"]
              \/ exec' = [exec EXCEPT !.prev = c, !.current = old.prev, !.lost_place = lost]
  <2> HIDE DEF lost, old
  <2>1. exec'.pc # "down"  BY <1>1, <1>2, <1>5 DEF exec_type
  <2> QED  BY <1>1, <1>5, <2>1, ReadLost
<1>6. CASE Wild  BY <1>6, WildLost
<1>7. CASE UNCHANGED file /\ Stop
  <2>1. exec'.pc = "down"  BY <1>7 DEF Stop, Idle
  <2> QED  BY <1>1, <1>7, <2>1, StopLost
<1>8. ASSUME c.block_num # 0, IsCell(file, kind, c), IsNode(file, n),
             exec' = [exec EXCEPT !.pc = "free_cell", !.following = old.prev,
                                  !.lost_place = lost],
             IF q.block_num = 0
             THEN /\ file' = WriteNode(file, n, node)
                  /\ ctrl_block' = file'[0]
             ELSE /\ file' = IF IsNode(file, q) THEN WriteNode(file, n, node)
                             ELSE WriteCell(file, q, prev_cell)
                  /\ UNCHANGED ctrl_block
      PROVE  LInv'
  <2> HIDE DEF lost
  <2>1. /\ exec'.jobs = exec.jobs /\ exec'.pc = "free_cell" /\ exec'.current = c
        /\ exec'.has_changed = exec.has_changed
    BY <1>2, <1>8 DEF exec_type
  <2>2. Place' = "free_cell" /\ job' = job  BY <2>1 DEF Place, Updating, job
  <2>3. ~ exec.has_changed  BY <2>1 DEF OneCellEach
  <2>4. PICK o \in Owners : Held(kind, o)  BY <1>1 DEF KInv, MemCells, AllHeld
  <2>5. /\ ChainsApart(file, kind, o) /\ PoolApart(file, kind, ctrl_block.head[kind], o)
        /\ LedFrom(kind, o) /\ PrevOf(file, c) \in cell_ptr
    BY <1>1, <1>2, <1>8, <2>3, <2>4, PrevType DEF Held, Shared, InHands
  <2>6. ASSUME /\ \A k \in CellKind \ {kind} : SameCells(file, file', k) /\ ChainsKept(file, file', k)
               /\ \A x : IsCell(file', kind, x) <=> IsCell(file, kind, x)
               /\ ctrl_block'.head = ctrl_block.head
               /\ \A x \in cell_ptr : x # c /\ IsCell(file, kind, x) =>
                    /\ InSomeChain(file, kind, x) => InSomeChain(file', kind, x)
                    /\ PoolLeads(file, kind, ctrl_block.head[kind], x) =>
                         PoolLeads(file', kind, ctrl_block.head[kind], x)
        PROVE  LInv'
    <3>1. NoneLostOf(kind)'
      <4> SUFFICES ASSUME NEW x \in cell_ptr, IsCell(file', kind, x)
                   PROVE  Placed(file', kind, ctrl_block'.head[kind], x) \/ InHand(kind, x)'
        BY DEF NoneLostOf
      <4>1. CASE x = c  BY <1>1, <2>1, <2>2, <4>1 DEF InHand, HeldPCs
      <4>2. CASE x # c
        <5>1. IsCell(file, kind, x) /\ ~ InHand(kind, x)  BY <1>1, <2>6 DEF InHand
        <5>2. Placed(file, kind, ctrl_block.head[kind], x)  BY <1>1, <5>1 DEF LInv, NoneLostOf
        <5> QED  BY <2>6, <4>2, <5>1, <5>2 DEF Placed
      <4> QED  BY <4>1, <4>2
    <3>2. ASSUME NEW k \in CellKind, k # kind  PROVE NoneLostOf(k)'
      <4>1. SameCells(file, file', k) /\ ChainsKept(file, file', k)
            /\ ctrl_block'.head[k] = ctrl_block.head[k]
        BY <2>6, <3>2
      <4> QED  BY <1>1, <4>1, SamePlaced
    <3> QED  BY <2>1, <3>1, <3>2, StillLinv
  <2>7. CASE q = n /\ LastOf(file, kind, n) = c
    <3>1. /\ file' = WriteNode(file, n, node)
          /\ ctrl_block' = file'[0] \/ ctrl_block' = ctrl_block
      BY <1>8, <2>7
    <3>2. /\ node \in node_cell /\ node.is_empty = 1 /\ node.last[kind] = PrevOf(file, c)
          /\ \A k \in CellKind \ {kind} : node.last[k] = NodeAt(file, n).last[k]
      <4>1. NodeAt(file, n) \in node_cell /\ NodeAt(file, n).is_empty = 1
        BY <1>2, <1>3, NodeAtType DEF InUse
      <4> QED  BY <2>5, <4>1 DEF node_cell, PrevOf
    <3> HIDE DEF node
    <3>3. /\ \A k \in CellKind : SameCells(file, file', k)
          /\ \A k \in CellKind : \A m \in cell_ptr : m # n => ChainKept(file, file', k, m)
          /\ IsNode(file', n) /\ NodeAt(file', n) = node
      BY <1>2, <1>8, <3>1, <3>2, NodeRewritten
    <3>4. ctrl_block'.head = ctrl_block.head
      BY <1>2, <1>4, <1>8, <3>1, <3>2, NodeWritten
    <3>5. InUse(file', n) /\ LastOf(file', kind, n) = PrevOf(file, c)
      BY <3>2, <3>3 DEF InUse, LastOf
    <3>6. ASSUME NEW k \in CellKind \ {kind}  PROVE ChainsKept(file, file', k)
      <4>1. ChainKept(file, file', k, n)
        BY <1>3, <3>2, <3>3, <3>5 DEF ChainKept, LastOf
      <4> QED  BY <3>3, <4>1 DEF ChainsKept
    <3>7. SamePrevs(file, file', kind)  BY <3>3 DEF SameCells, SamePrevs
    <3>8. \A x : IsCell(file', kind, x) <=> IsCell(file, kind, x)
      BY <1>2, <1>8, <3>1, <3>2, WriteNodeType DEF WritesBlock, IsCell
    <3> HIDE DEF n, c, q
    <3>9. ASSUME NEW x \in cell_ptr, x # c, NEW m \in cell_ptr, InUse(file, m),
                 ChainLeads(file, kind, LastOf(file, kind, m), x)
          PROVE  InSomeChain(file', kind, x)
      <4>1. CASE m = n
        <5>1. \A y \in cell_ptr : IsCell(file, kind, y) =>
                IsCell(file', kind, y) /\ PrevOf(file', y) = PrevOf(file, y)
          BY <3>7 DEF SamePrevs
        <5>2. ChainLeads(file, kind, c, x)  BY <2>7, <3>9, <4>1
        <5>3. ChainLeads(file', kind, PrevOf(file, c), x)
          BY <1>2, <1>8, <3>9, <5>1, <5>2, ChainPast DEF c
        <5> QED  BY <1>2, <3>5, <5>3 DEF InSomeChain
      <4>2. CASE m # n
        <5>1. InUse(file', m) /\ LastOf(file', kind, m) = LastOf(file, kind, m)
          BY <3>3, <3>9, <4>2 DEF ChainKept
        <5>2. ChainLeads(file', kind, LastOf(file, kind, m), x)  BY <3>7, <3>9, SameLeads
        <5> QED  BY <5>1, <5>2 DEF InSomeChain
      <4> QED  BY <4>1, <4>2
    <3>10. \A x \in cell_ptr : x # c /\ InSomeChain(file, kind, x) => InSomeChain(file', kind, x)
      BY <3>9 DEF InSomeChain
    <3>11. \A x : PoolLeads(file, kind, ctrl_block.head[kind], x) =>
             PoolLeads(file', kind, ctrl_block.head[kind], x)
      BY <3>7, SameLeads
    <3> QED  BY <2>6, <3>3, <3>4, <3>6, <3>8, <3>10, <3>11
  <2>8. CASE o[q] = n /\ PrevOf(file, q) = c /\ q # c
    <3>1. IsCell(file, kind, q) /\ ~ IsNode(file, q) /\ q.block_num # 0
      <4>1. IsCell(file, kind, q)
        BY <1>2, <1>3, <2>5, <2>8 DEF ChainsApart, OfNode
      <4>2. kind \notin {"CONTROL", "NODE"} /\ file[0].type = "CONTROL"
        BY <1>1 DEF CellKind, CInv, IInv, ControlBlock
      <4> QED  BY <4>1, <4>2 DEF IsCell, IsNode
    <3>2. file' = WriteCell(file, q, prev_cell) /\ ctrl_block' = ctrl_block
      BY <1>8, <3>1
    <3>3. prev_cell \in cell /\ prev_cell.prev = PrevOf(file, c)
      <4>1. CellAt(file, q) \in cell  BY <1>2, <3>1, CellAtType
      <4> QED  BY <2>5, <4>1 DEF cell, PrevOf
    <3> HIDE DEF prev_cell
    <3>4. /\ \A k \in CellKind : ChainsKept(file, file', k)
          /\ \A k \in CellKind \ {kind} : SameCells(file, file', k)
          /\ \A x : IsCell(file', kind, x) <=> IsCell(file, kind, x)
          /\ CellAt(file', q) = prev_cell
          /\ \A x \in cell_ptr : x # q /\ IsCell(file, kind, x) => CellAt(file', x) = CellAt(file, x)
      BY <1>2, <3>1, <3>2, <3>3, CellWritten
    <3>5. \A x \in cell_ptr : IsCell(file, kind, x) =>
            /\ IsCell(file', kind, x)
            /\ x # q => PrevOf(file', x) = PrevOf(file, x)
            /\ \/ PrevOf(file', x) = PrevOf(file, x)
               \/ PrevOf(file, x) = c /\ PrevOf(file', x) = PrevOf(file, c)
      BY <2>8, <3>3, <3>4 DEF PrevOf
    <3> HIDE DEF n, c, q
    <3>6. ASSUME NEW x \in cell_ptr, x # c, InSomeChain(file, kind, x)
          PROVE  InSomeChain(file', kind, x)
      <4>1. PICK m \in cell_ptr : InUse(file, m) /\ ChainLeads(file, kind, LastOf(file, kind, m), x)
        BY <3>6 DEF InSomeChain
      <4>2. InUse(file', m) /\ LastOf(file', kind, m) = LastOf(file, kind, m)
        BY <3>4, <4>1 DEF ChainsKept, ChainKept
      <4>3. ChainLeads(file', kind, LastOf(file, kind, m), x)
        BY <1>2, <1>8, <3>5, <3>6, <4>1, ChainPast DEF c
      <4> QED  BY <4>2, <4>3 DEF InSomeChain
    <3>7. PoolCellsKept(file, file', kind, o, NoRoom)
      BY <1>3, <2>5, <2>8, <3>5 DEF PoolCellsKept, PoolApart
    <3>8. \A x : PoolLeads(file, kind, ctrl_block.head[kind], x) =>
            PoolLeads(file', kind, ctrl_block.head[kind], x)
      BY <1>2, <2>5, <3>7, PoolStays
    <3> QED  BY <2>6, <3>2, <3>4, <3>6, <3>8
  <2> QED  BY <2>5, <2>7, <2>8 DEF LedFrom
<1> QED  BY <1>5, <1>6, <1>7, <1>8 DEF remove_cell, ReadOnly

LEMMA FreeCellLost ==
  ASSUME CInv, NInv, KInv, LInv, free_cell
  PROVE  LInv'
<1>1. /\ exec.pc = "free_cell" /\ ~ Down /\ ~ Updating /\ Place = "free_cell" /\ exec.jobs # << >>
  BY DEF free_cell, Down, Updating, Place, CInv, IInv, ExecOK, InOp, JobPCs
<1>2. /\ ctrl_block \in control_block /\ exec \in exec_type /\ file \in File
      /\ exec.current \in cell_ptr
      /\ \A k \in CellKind : ctrl_block.head[k] \in cell_ptr
  BY Unfold DEF CInv, Pool, exec_type
<1>3. PICK kind \in CellKind : kind = job.kind
  BY <1>1, <1>2, JobType DEF exec_type, job
<1> DEFINE c == exec.current
           h == ctrl_block.head[kind]
           freed == [prev |-> h, name |-> Null,
                     value |-> IF kind = "RELATION" THEN CellAt(file, c).value ELSE Null]
<1>4. CASE Wild  BY <1>4, WildLost
<1>5. CASE ~ Wild
  <2>1. /\ IsCell(file, kind, c)
        /\ file' = WriteCell(file, c, freed)
        /\ ctrl_block' = [ctrl_block EXCEPT !.head[kind] = c]
    BY <1>3, <1>5 DEF free_cell
  <2>2. exec'.pc = "update_control_block"  BY <1>2, <1>3, <1>5 DEF free_cell, exec_type
  <2>3. freed \in cell /\ freed.prev = h
    <3>1. CellAt(file, c) \in cell  BY <1>2, <1>3, <2>1, CellAtType
    <3>2. CellAt(file, c).value \in cell_ptr  BY <3>1 DEF cell
    <3>3. h \in cell_ptr  BY <1>2, <1>3
    <3> HIDE DEF h
    <3> QED  BY <3>2, <3>3, ZeroTypes DEF cell
  <2> HIDE DEF freed
  <2>4. /\ \A k \in CellKind : ChainsKept(file, file', k)
        /\ \A k \in CellKind \ {kind} : SameCells(file, file', k)
        /\ \A q : IsCell(file', kind, q) <=> IsCell(file, kind, q)
        /\ CellAt(file', c) = freed
        /\ \A q \in cell_ptr : q # c /\ IsCell(file, kind, q) => CellAt(file', q) = CellAt(file, q)
    BY <1>2, <1>3, <2>1, <2>3, CellWritten
  <2>5. /\ ctrl_block'.head[kind] = c
        /\ \A k \in CellKind \ {kind} : ctrl_block'.head[k] = ctrl_block.head[k]
    BY <1>2, <1>3, <2>1 DEF control_block, Pool
  <2>6. PICK o \in Owners : Held(kind, o)  BY <1>1, <1>3 DEF KInv, MemCells, AllHeld
  <2>7. ChainsApart(file, kind, o) /\ PoolApart(file, kind, h, o) /\ h \in cell_ptr
    BY <1>2, <1>3, <2>6 DEF Held, Shared
  <2>8. o[c] = Nobody  BY <1>1, <1>3, <2>6 DEF Held, InHands
  <2>9. h # Null
    BY <1>3, <2>7, HeadOfPool DEF ChainsApart, Null, Ptr
  <2>10. \A q \in cell_ptr : q # c /\ IsCell(file, kind, q) =>
           IsCell(file', kind, q) /\ PrevOf(file', q) = PrevOf(file, q)
    BY <2>4 DEF PrevOf
  <2>11. IsCell(file', kind, c) /\ PrevOf(file', c) = h  BY <2>1, <2>3, <2>4 DEF PrevOf
  <2>12. PoolCellsKept(file, file', kind, o, NoRoom)
    BY <2>7, <2>8, <2>10, OwnersTypes DEF PoolCellsKept, PoolApart
  <2> HIDE DEF h, c
  <2>13. ASSUME NEW p \in cell_ptr, IsCell(file', kind, p)
         PROVE  Placed(file', kind, ctrl_block'.head[kind], p)
    <3>1. IsCell(file, kind, p)  BY <2>4, <2>13
    <3>2. CASE p = c  BY <2>5, <3>2, LeadsHere DEF Placed
    <3>3. CASE p # c
      <4>1. ~ InHand(kind, p)  BY <3>3 DEF InHand, c
      <4>2. Placed(file, kind, h, p)  BY <1>1, <3>1, <4>1 DEF LInv, NoneLostOf, h
      <4>3. CASE PoolLeads(file, kind, h, p)
        BY <2>5, <2>7, <2>9, <2>11, <2>12, <4>3, PoolGiven DEF Placed
      <4>4. CASE InSomeChain(file, kind, p)
        <5>1. ~ OfNode(o, c) /\ c \in cell_ptr  BY <1>2, <2>8 DEF OfNode, c
        <5> QED  BY <1>2, <2>4, <2>7, <2>10, <4>4, <5>1, OwnChain DEF Placed
      <4> QED  BY <4>2, <4>3, <4>4 DEF Placed
    <3> QED  BY <3>2, <3>3
  <2>14. NoneLostOf(kind)'  BY <2>13 DEF NoneLostOf
  <2>15. ASSUME NEW k \in CellKind, k # kind  PROVE NoneLostOf(k)'
    <3> SUFFICES ASSUME NEW p \in cell_ptr, IsCell(file', k, p)
                 PROVE  Placed(file', k, ctrl_block'.head[k], p)
      BY DEF NoneLostOf
    <3>1. SamePrevs(file, file', k) /\ IsCell(file, k, p)  BY <2>4, <2>15 DEF SameCells, SamePrevs
    <3>2. ~ InHand(k, p)  BY <1>3, <2>15 DEF InHand
    <3> QED  BY <1>1, <2>4, <2>5, <2>15, <3>1, <3>2, SamePlaces DEF LInv, NoneLostOf
  <2> QED  BY <2>2, <2>14, <2>15, StillLinv
<1> QED  BY <1>4, <1>5

(* What execute_command sets out to do.                                    *)
Begun(info) ==
  \/ exec'.jobs = << >> /\ exec'.pc \in {"idle", "wild"}
  \/ /\ exec'.jobs = Jobs(info) /\ info.command_type = "create"
     /\ exec'.pc \in {"create_node_cell", "create_string_cell"}
  \/ exec'.jobs = Jobs(info) /\ exec'.pc = "next" /\ exec'.left = exec'.matched
LEMMA Begins ==
  ASSUME Execute
  PROVE  exec.pc = "idle" /\ UNCHANGED <<file, ctrl_block>> /\ \E info \in Commands : Begun(info)
<1>1. PICK info \in Commands : \/ execute_match(info) \/ execute_create(info)
                               \/ execute_create_relation(info)
                               \/ execute_set(info) \/ execute_remove(info)
                               \/ execute_delete(info)
  BY DEF Execute
<1>2. exec.pc = "idle" /\ UNCHANGED <<file, ctrl_block>>
  BY <1>1 DEF execute_match, execute_create, execute_create_relation, execute_set,
              execute_remove, execute_delete, OnMatched, Starting, ReadOnly
<1> SUFFICES Begun(info)  BY <1>2
<1>3. [Idle EXCEPT !.pc = "wild"].pc = "wild" /\ [Idle EXCEPT !.pc = "wild"].jobs = << >>
  BY DEF Idle
<1>4. CASE exec' = [Idle EXCEPT !.pc = "wild"]  BY <1>3, <1>4 DEF Begun
<1>5. ASSUME NEW nodes, NEW number, exec' = Run(info, nodes, number)  PROVE Begun(info)
  BY <1>5 DEF Run, Idle, Begun
<1>6. CASE execute_match(info)
  <2>1. CASE exec' = Respond(Cardinality(Matched(file, info)))
    <3>1. exec'.pc = "idle" /\ exec'.jobs = << >>  BY <2>1 DEF Respond, Idle
    <3> QED  BY <3>1 DEF Begun
  <2> QED  BY <1>4, <1>6, <2>1 DEF execute_match, OnMatched
<1>7. CASE execute_create(info)
  <2>1. /\ exec' = [Idle EXCEPT !.pc = "create_node_cell", !.jobs = Jobs(info), !.number = 1]
        /\ info.command_type = "create"
    BY <1>7 DEF execute_create, Starting
  <2>2. exec'.pc = "create_node_cell" /\ exec'.jobs = Jobs(info)  BY <2>1 DEF Idle
  <2> QED  BY <2>1, <2>2 DEF Begun
<1>8. CASE execute_create_relation(info) /\ exec' # [Idle EXCEPT !.pc = "wild"]
  <2> DEFINE nodes == Like(file, info.labels, info.props)
  <2>1. PICK number, others :
          exec' = [Idle EXCEPT
                !.pc = "create_string_cell", !.jobs = Jobs(info), !.texts = << info.rel_name >>,
                !.matched = nodes, !.left = nodes, !.seconds = others,
                !.number = number]
    BY <1>8 DEF execute_create_relation
  <2> HIDE DEF nodes
  <2>2. exec'.pc = "create_string_cell" /\ exec'.jobs = Jobs(info)  BY <2>1 DEF Idle
  <2>3. info.command_type = "create"  BY <1>8 DEF execute_create_relation, Starting
  <2> QED  BY <2>2, <2>3 DEF Begun
<1>9. CASE execute_set(info)  BY <1>4, <1>5, <1>9 DEF execute_set, OnMatched
<1>10. CASE execute_remove(info)  BY <1>4, <1>5, <1>10 DEF execute_remove, OnMatched
<1>11. CASE execute_delete(info)  BY <1>4, <1>5, <1>11 DEF execute_delete, OnMatched
<1> QED  BY <1>1, <1>2, <1>4, <1>6, <1>7, <1>8, <1>9, <1>10, <1>11

LEMMA ExecutingLost ==
  ASSUME CInv, LInv, Execute
  PROVE  LInv'
<1>1. exec.pc = "idle" /\ UNCHANGED <<file, ctrl_block>> /\ \E info \in Commands : Begun(info)
  BY Begins
<1>2. ~ Down /\ SameHand /\ exec'.pc # "down"
  BY <1>1 DEF Down, Updating, SameHand, Place, HeldPCs, Begun
<1> QED  BY <1>1, <1>2, ReadLost

(* Where the process may be stopped: not while a cell is on its way from a *)
(* chain to the pool or back; and nobody kills it.                         *)
NoLossPoints ==
  /\ NodeSafePoints /\ KillPoints = {}
  /\ \A at \in QuitPoints : at[1] \notin HeldPCs \cup {"update_control_block"}

LEMMA StartOrStopLost ==
  ASSUME CInv, LInv, NoLossPoints, init_data \/ kill \/ quit
  PROVE  LInv'
<1>1. ~ kill  BY DEF NoLossPoints, kill
<1>2. CASE init_data
  <2>1. exec.pc = "down" /\ UNCHANGED file  BY <1>2 DEF init_data
  <2>2. CASE exec' = Idle /\ ctrl_block' = file[0]
    <3>1. exec'.pc # "down"  BY <2>2 DEF Idle
    <3>2. \A kind \in CellKind : NoneLostOf(kind)'
      BY <2>1, <2>2 DEF LInv, AllPlaced, NoneLostOf
    <3> QED  BY <3>1, <3>2, StillLinv
  <2>3. CASE exec' = [Idle EXCEPT !.pc = "wild"]
    <3>1. exec'.pc = "wild"  BY <2>3 DEF Idle
    <3> QED  BY <3>1 DEF LInv, Down
  <2> QED  BY <1>2, <2>2, <2>3 DEF init_data
<1>3. CASE quit
  <2>1. At \in QuitPoints /\ SafePoint(At) /\ At[1] = exec.pc /\ UNCHANGED file
    BY <1>3 DEF quit, NoLossPoints, NodeSafePoints, SafePoints, At
  <2>2. exec'.pc = "down"  BY <1>3 DEF quit, Stop, Idle
  <2>3. exec.pc # "wild" /\ ~ Updating /\ exec.pc \notin HeldPCs
    BY <2>1 DEF SafePoint, NoLossPoints, Updating, UpdatingPCs
  <2>4. CASE exec.pc = "down"  BY <2>1, <2>2, <2>4 DEF LInv, AllPlaced, Down
  <2>5. CASE exec.pc # "down"
    BY <2>1, <2>2, <2>3, <2>5, StopLost DEF Place, Down
  <2> QED  BY <2>4, <2>5
<1> QED  BY <1>1, <1>2, <1>3

LEMMA InitiallyNoneLost == Init => LInv
<1> SUFFICES ASSUME Init  PROVE LInv
  OBVIOUS
<1>1. 0 \in Block  BY LayoutAssumption DEF Block
<1>2. exec.pc = "idle" /\ file[0].type = "CONTROL" /\ \A b \in Block : b # 0 => file[b].type = "ABSENT"
  BY <1>1 DEF Init, Idle, EmptyFile, Absent, NewControl
<1>3. \A kind \in CellKind : \A p : ~ IsCell(file, kind, p)
  BY <1>2 DEF IsCell, CellKind
<1> QED  BY <1>2, <1>3 DEF LInv, NoneLostOf

-----------------------------------------------------------------------------
(* The deletion of nodes empties their three chains before it frees them:  *)
(* of the nodes matched, each has its chain of a kind empty, or still to   *)
(* be emptied, or is past its turn to be freed.  The walk that removes     *)
(* every cell stays at the node, unless it lost its place and the process  *)
(* is to end before any node is freed.                                     *)
Deletes(jobs) == \E i \in 1 .. Len(jobs) : jobs[i].op = "free"
DeleteJobs == {AllOf("remove", kind) : kind \in CellKind} \cup {AllOf("free", "LABEL")}
Emptied(kind, n) ==
  \/ LastOf(file, kind, n) = Null
  \/ job.op = "free" /\ n \notin exec.left /\ (n = exec.node => Place # "free_node")
  \/ \E i \in 2 .. Len(exec.jobs) : exec.jobs[i] = AllOf("remove", kind)
  \/ job = AllOf("remove", kind) /\ (n \in exec.left \/ (n = exec.node /\ Place \in RemovingPCs))
Walk ==
  /\ Place = "remove" => exec.lost_place \/ LastOf(file, job.kind, exec.node) = exec.current
  /\ Place = "free_cell" => exec.lost_place \/ LastOf(file, job.kind, exec.node) = exec.following
EInv ==
  ~ Down /\ Deletes(exec.jobs) =>
    /\ \A i \in 1 .. Len(exec.jobs) : exec.jobs[i] \in DeleteJobs
    /\ exec.left \subseteq exec.matched
    /\ Place \in RemovingPCs \cup {"free_node"} => exec.node \in exec.matched
    /\ Place \in RemovingPCs => job.op = "remove"
    /\ \A kind \in CellKind : \A n \in exec.matched : Emptied(kind, n)
    /\ Walk

LEMMA NoDeletion ==
  ASSUME Down' \/ exec'.jobs = << >> \/ ~ Deletes(exec'.jobs)
  PROVE  EInv'
<1>1. Len(<< >>) = 0  OBVIOUS
<1>2. ~ Deletes(<< >>)  BY <1>1 DEF Deletes
<1> QED  BY <1>2 DEF EInv

LEMMA DeleteJob ==
  ASSUME EInv, ~ Down, exec.jobs \in Seq(Job), Deletes(exec.jobs)
  PROVE  /\ exec.jobs # << >> /\ Len(exec.jobs) \in Nat /\ job = exec.jobs[1]
         /\ job.op \in {"remove", "free"} /\ job.kind \in CellKind /\ job.name = ALL
         /\ job.op = "remove" => job = AllOf("remove", job.kind)
<1>1. exec.jobs # << >> /\ Len(exec.jobs) \in Nat /\ 1 \in 1 .. Len(exec.jobs)
  BY DEF Deletes
<1>2. job = exec.jobs[1]  BY <1>1 DEF job
<1>3. job \in DeleteJobs  BY <1>1, <1>2 DEF EInv
<1>4. CASE job = AllOf("free", "LABEL")  BY <1>1, <1>2, <1>4 DEF AllOf, CellKind
<1>5. CASE \E kind \in CellKind : job = AllOf("remove", kind)
  BY <1>1, <1>2, <1>5 DEF AllOf
<1> QED  BY <1>3, <1>4, <1>5 DEF DeleteJobs

LEMMA OtherJob ==
  ASSUME EInv, ~ Down, exec.jobs \in Seq(Job), exec'.jobs = exec.jobs,
         exec.jobs # << >> => job.op \notin {"remove", "free"}
  PROVE  EInv'
BY NoDeletion, DeleteJob

(* Chains stay empty through the steps that leave them alone.              *)
LEMMA StillToEmpty ==
  ASSUME NInv, EInv, ~ Down, exec.jobs # << >>,
         exec'.jobs = exec.jobs, exec'.matched = exec.matched,
         exec'.left = exec.left, exec'.node = exec.node,
         Place' = "free_node" => Place = "free_node",
         Place \in RemovingPCs => Place' \in RemovingPCs,
         NEW kind, NEW n \in exec.matched, n \in cell_ptr, ChainKept(file, file', kind, n),
         Emptied(kind, n)
  PROVE  Emptied(kind, n)'
<1>1. job' = job  BY DEF job
<1>2. CASE LastOf(file, kind, n) = Null /\ InUse(file, n)
  BY <1>2 DEF ChainKept, Emptied
<1>3. CASE LastOf(file, kind, n) = Null /\ ~ InUse(file, n)
  <2>1. n \notin exec.left /\ job.op = "free" /\ (n = exec.node => Place # "free_node")
    BY <1>3 DEF NInv, NodesHeld, AtNode, NodePCs
  <2> QED  BY <1>1, <2>1 DEF Emptied
<1> QED  BY <1>1, <1>2, <1>3 DEF Emptied

LEMMA StillEmptied ==
  ASSUME CInv, NInv, EInv, ~ Down,
         exec'.jobs = exec.jobs, exec'.matched = exec.matched, exec'.left = exec.left,
         exec'.node = exec.node, exec'.current = exec.current, exec'.following = exec.following,
         exec'.lost_place = exec.lost_place,
         \A kind \in CellKind : ChainsKept(file, file', kind),
         \/ Place' = Place
         \/ Place \notin RemovingPCs /\ Place' \notin RemovingPCs \cup {"free_node"}
  PROVE  EInv'
<1> SUFFICES ASSUME Deletes(exec.jobs)  PROVE EInv'
  BY NoDeletion
<1>1. exec \in exec_type /\ exec.jobs \in Seq(Job) /\ exec.matched \subseteq cell_ptr
      /\ exec.node \in cell_ptr
  BY Unfold DEF CInv, exec_type
<1>2. exec.jobs # << >> /\ job.kind \in CellKind /\ job' = job  BY <1>1, DeleteJob DEF job
<1>3. \A kind \in CellKind : \A n \in exec.matched : Emptied(kind, n)'
  BY <1>1, <1>2, StillToEmpty DEF EInv, ChainsKept
<1>4. Walk'
  <2>1. CASE Place' \in RemovingPCs
    <3>1. InUse(file, exec.node) /\ Place' = Place
      BY <1>2, <2>1 DEF NInv, NodesHeld, AtNode, NodePCs, RemovingPCs
    <3>2. LastOf(file', job.kind, exec.node) = LastOf(file, job.kind, exec.node)
      BY <1>1, <1>2, <3>1 DEF ChainsKept, ChainKept
    <3> QED  BY <1>2, <3>1, <3>2 DEF EInv, Walk
  <2>2. CASE Place' \notin RemovingPCs  BY <2>2 DEF Walk, RemovingPCs
  <2> QED  BY <2>1, <2>2
<1> QED  BY <1>2, <1>3, <1>4 DEF EInv

-----------------------------------------------------------------------------
(* Every step keeps it.                                                    *)
LEMMA CreatingEmptied ==
  ASSUME CInv, RelateInv, BInv, EInv,
         \/ chain_node_block \/ chain_update_control \/ create_node_cell \/ create_string_cell
         \/ string_in_new_block \/ next_second \/ find_node_attribute
         \/ \E kind \in CellKind : create_cell(kind) \/ update_node(kind)
  PROVE  EInv'
<1>1. exec \in exec_type /\ exec.jobs \in Seq(Job)
  BY Unfold DEF CInv, exec_type
<1>2. /\ exec'.jobs = exec.jobs /\ ~ Down
      /\ \/ exec.pc \in ChainPCs \cup {"create_node_cell", "next_second", "find_node_attribute",
                                       "create_cell", "update_node"}
         \/ exec.pc \in StringPCs
  <2>1. CASE chain_node_block \/ chain_update_control
    BY <1>1, <2>1 DEF chain_node_block, chain_update_control, UpdateControlThen, exec_type, Down, ChainPCs
  <2>2. CASE create_node_cell
    BY <1>1, <2>2 DEF create_node_cell, allocate_new_block, UpdateControlThen, Wild, exec_type, Down
  <2>3. CASE create_string_cell \/ string_in_new_block
    BY <1>1, <2>3 DEF create_string_cell, string_in_new_block, allocate_new_block, UpdateControlThen,
                      Wild, StringDone, exec_type, Down, StringPCs
  <2>4. CASE next_second \/ find_node_attribute
    BY <1>1, <2>4 DEF next_second, find_node_attribute, exec_type, Down
  <2>5. ASSUME NEW kind \in CellKind, create_cell(kind) \/ update_node(kind)
        PROVE  exec'.jobs = exec.jobs /\ exec.pc \in {"create_cell", "update_node"}
    BY <1>1, <2>5 DEF create_cell, update_node, allocate_new_block, UpdateControlThen, Wild, exec_type
  <2> QED  BY <2>1, <2>2, <2>3, <2>4, <2>5 DEF Down
<1>3. exec.jobs # << >> => job.op \notin {"remove", "free"}
  <2>1. CASE exec.pc \in ChainPCs \cup {"create_node_cell"}
    <3>1. Place = "create_node_cell"
      BY <2>1 DEF Place, Updating, CInv, RetOK, ChainPCs
    <3> QED  BY <3>1 DEF BInv, OnlyAdds
  <2>2. CASE exec.pc \in StringPCs \cup {"next_second", "create_cell", "update_node"}
    <3>1. Place = exec.pc  BY <2>2 DEF Place, Updating, StringPCs
    <3> QED  BY <2>2, <3>1 DEF RelateInv
  <2>3. CASE exec.pc = "find_node_attribute"
    BY <2>3 DEF CInv, IInv, ExecOK, InOp
  <2> QED  BY <1>2, <2>1, <2>2, <2>3
<1> QED  BY <1>1, <1>2, <1>3, OtherJob

LEMMA ControlEmptied ==
  ASSUME CInv, NInv, EInv, update_control_block
  PROVE  EInv'
<1>1. /\ file \in File /\ ctrl_block \in control_block /\ exec \in exec_type
      /\ ~ Down /\ Updating /\ exec.pc = "update_control_block"
      /\ file' = [file EXCEPT ![0] = ctrl_block]
      /\ exec' = [exec EXCEPT !.pc = exec.ret]
  BY Unfold DEF CInv, update_control_block, Down, Updating
<1>2. ctrl_block.nodes = file[0].nodes /\ file[0].type = "CONTROL"
  BY <1>1 DEF CInv, IInv, ControlBlock, ControlCoherent
<1>3. \A kind \in CellKind : ChainsKept(file, file', kind)
  BY <1>1, <1>2, ControlRewritten DEF Untouched
<1>4. exec'.pc = exec.ret /\ exec.ret \notin UpdatingPCs /\ Place = exec.ret
  BY <1>1 DEF CInv, RetOK, Place, exec_type
<1>5. Place' = Place  BY <1>4 DEF Place, Updating, UpdatingPCs
<1>6. /\ exec'.jobs = exec.jobs /\ exec'.matched = exec.matched /\ exec'.left = exec.left
      /\ exec'.node = exec.node /\ exec'.current = exec.current
      /\ exec'.following = exec.following /\ exec'.lost_place = exec.lost_place
  BY <1>1 DEF exec_type
<1> QED  BY <1>1, <1>3, <1>5, <1>6, StillEmptied

LEMMA WriteValueEmptied ==
  ASSUME CInv, NInv, EInv, write_value
  PROVE  EInv'
<1> DEFINE kind == "ATTRIBUTE"
           p == exec.current
           new == [CellAt(file, p) EXCEPT !.value = exec.strings[1]]
<1>1. /\ exec.pc = "write_value" /\ ~ Down /\ Place = "write_value"
      /\ exec \in exec_type /\ file \in File /\ kind \in CellKind /\ p \in cell_ptr
  BY Unfold DEF write_value, Down, Updating, Place, CInv, CellKind, exec_type
<1>2. CASE Wild
  <2>1. Down'  BY <1>1, <1>2 DEF Wild, Down, exec_type
  <2> QED  BY <2>1, NoDeletion
<1>3. CASE ~ Wild
  <2>1. /\ IsCell(file, kind, p) /\ file' = WriteCell(file, p, new)
        /\ exec' = [exec EXCEPT !.pc = "next"]
    BY <1>3 DEF write_value
  <2>2. 1 \in 1 .. Len(exec.strings) /\ exec.strings \in Seq(cell_ptr)
    <3>1. Len(exec.strings) >= 1 /\ exec.strings \in Seq(cell_ptr)
      BY <1>1 DEF CInv, IInv, ExecOK, InOp, exec_type
    <3> QED  BY <3>1
  <2>3. new \in cell
    <3>1. CellAt(file, p) \in cell /\ exec.strings[1] \in cell_ptr
      BY <1>1, <2>1, <2>2, CellAtType
    <3> QED  BY <3>1 DEF cell
  <2> HIDE DEF kind, new
  <2>4. \A k \in CellKind : ChainsKept(file, file', k)
    BY <1>1, <2>1, <2>3, CellWritten
  <2>5. /\ exec'.jobs = exec.jobs /\ exec'.matched = exec.matched /\ exec'.left = exec.left
        /\ exec'.node = exec.node /\ exec'.current = exec.current
        /\ exec'.following = exec.following /\ exec'.lost_place = exec.lost_place
        /\ exec'.pc = "next"
    BY <1>1, <2>1 DEF exec_type
  <2>6. Place' = "next"  BY <2>5 DEF Place, Updating
  <2> QED  BY <1>1, <2>4, <2>5, <2>6, StillEmptied DEF RemovingPCs
<1> QED  BY <1>2, <1>3

-----------------------------------------------------------------------------
(* The loops of the deletion.                                              *)
LEMMA NextNodeEmptied ==
  ASSUME CInv, NInv, EInv, next_node
  PROVE  EInv'
<1>1. /\ exec \in exec_type /\ exec.jobs \in Seq(Job) /\ exec.pc = "next" /\ ~ Down /\ file' = file
      /\ Place = "next"
  BY Unfold DEF CInv, exec_type, next_node, Down, ReadOnly, Place, Updating
<1>2. PICK p \in exec.left :
        \/ exec' = [exec EXCEPT !.pc = "wild"]
        \/ exec' = [exec EXCEPT
             !.pc = Entry(job.op), !.left = @ \ {p}, !.node = p, !.prev = p,
             !.texts = IF job.op = "add" THEN Texts(job) ELSE << >>,
             !.strings = IF job.op = "relate" THEN @ ELSE << >>,
             !.following = Null, !.has_changed = FALSE,
             !.others = exec.seconds, !.lost_place = FALSE,
             !.current = IF job.op \in {"put", "remove"}
                         THEN NodeAt(file, p).last[job.kind] ELSE Null]
  BY DEF next_node
<1>3. CASE exec'.pc = "wild"
  BY <1>3, NoDeletion DEF Down
<1>4. CASE exec'.pc # "wild"
  <2> DEFINE texts == IF job.op = "add" THEN Texts(job) ELSE << >>
             strings == IF job.op = "relate" THEN exec.strings ELSE << >>
             current == IF job.op \in {"put", "remove"} THEN NodeAt(file, p).last[job.kind] ELSE Null
             entry == Entry(job.op)
  <2>7. exec' # [exec EXCEPT !.pc = "wild"]  BY <1>1, <1>4 DEF exec_type
  <2>8. exec' = [exec EXCEPT
             !.pc = entry, !.left = @ \ {p}, !.node = p, !.prev = p,
             !.texts = texts, !.strings = strings,
             !.following = Null, !.has_changed = FALSE,
             !.others = exec.seconds, !.lost_place = FALSE, !.current = current]
    BY <1>2, <2>7
  <2>9. job.op = "remove" => current = LastOf(file, job.kind, p)  BY DEF LastOf
  <2> HIDE DEF texts, strings, current, entry
  <2>10. /\ exec'.pc = entry /\ exec'.jobs = exec.jobs /\ exec'.matched = exec.matched
         /\ exec'.left = exec.left \ {p} /\ exec'.node = p /\ exec'.current = current
    BY <1>1, <2>8 DEF exec_type
  <2>1. /\ exec'.pc = Entry(job.op) /\ exec'.jobs = exec.jobs /\ exec'.matched = exec.matched
        /\ exec'.left = exec.left \ {p} /\ exec'.node = p
        /\ job.op = "remove" => exec'.current = LastOf(file, job.kind, p)
    BY <2>9, <2>10 DEF entry
  <2> SUFFICES ASSUME Deletes(exec.jobs)  PROVE EInv'
    BY <2>1, NoDeletion
  <2>2. job.op \in {"remove", "free"} /\ job' = job  BY <1>1, <2>1, DeleteJob DEF job
  <2>3. exec'.pc = IF job.op = "remove" THEN "remove" ELSE "free_node"
    BY <2>1, <2>2 DEF Entry
  <2>4. Place' = exec'.pc  BY <2>3 DEF Place, Updating
  <2>5. Walk'  BY <1>1, <2>1, <2>2, <2>3, <2>4 DEF Walk
  <2>6. ASSUME NEW kind \in CellKind, NEW n \in exec.matched  PROVE Emptied(kind, n)'
    <3>1. Emptied(kind, n)  BY <1>1, <2>6 DEF EInv
    <3>2. job = AllOf("remove", kind) => job.op = "remove"  BY DEF AllOf
    <3> QED  BY <1>1, <2>1, <2>2, <2>3, <2>4, <3>1, <3>2 DEF Emptied, RemovingPCs
  <2> QED  BY <1>1, <2>1, <2>2, <2>3, <2>4, <2>5, <2>6 DEF EInv, RemovingPCs
<1> QED  BY <1>3, <1>4

LEMMA SomeLeft ==
  ASSUME NEW k \in Nat, NEW m, m = k - 1, NEW j \in 1 .. m
  PROVE  m # 0 /\ k >= 2 /\ 1 \in 1 .. m
OBVIOUS

LEMMA NextJobEmptied ==
  ASSUME CInv, NInv, EInv, next_job
  PROVE  EInv'
<1>1. /\ exec \in exec_type /\ exec.jobs \in Seq(Job) /\ exec.pc = "next" /\ ~ Down /\ file' = file
      /\ Place = "next" /\ exec.jobs # << >> /\ exec.left = {}
      /\ exec'.jobs = Tail(exec.jobs) /\ exec'.left = exec.matched
      /\ exec'.matched = exec.matched /\ exec'.pc = "next"
  BY Unfold DEF CInv, exec_type, next_job, Down, Place, Updating
<1>2. /\ Len(exec'.jobs) = Len(exec.jobs) - 1 /\ Len(exec.jobs) \in Nat
      /\ \A i \in 1 .. Len(exec'.jobs) : exec'.jobs[i] = exec.jobs[i + 1]
  BY <1>1
<1>3. Place' = "next"  BY <1>1 DEF Place, Updating
<1> SUFFICES ASSUME Deletes(exec'.jobs)  PROVE EInv'
  BY NoDeletion
<1>4. PICK j \in 1 .. Len(exec'.jobs) : exec'.jobs[j].op = "free"  BY DEF Deletes
<1>5. Deletes(exec.jobs)  BY <1>2, <1>4 DEF Deletes
<1>6. job = exec.jobs[1] /\ job.op = "remove"
  <2>1. job = exec.jobs[1] /\ job.op \in {"remove", "free"}  BY <1>1, <1>5, DeleteJob
  <2>2. j + 1 \in 1 .. Len(exec.jobs) /\ 1 \in 1 .. Len(exec.jobs) /\ 1 < j + 1
    <3>1. Len(exec'.jobs) = Len(exec.jobs) - 1 /\ Len(exec.jobs) \in Nat  BY <1>2
    <3> QED  BY <3>1
  <2>3. exec.jobs[1].op # "free"  BY <2>2 DEF NInv, InOrder
  <2> QED  BY <2>1, <2>3
<1>7. job' = exec.jobs[2] /\ Len(exec.jobs) >= 2
  <2>1. Len(exec'.jobs) = Len(exec.jobs) - 1 /\ Len(exec.jobs) \in Nat  BY <1>2
  <2>2. Len(exec'.jobs) # 0 /\ Len(exec.jobs) >= 2 /\ 1 \in 1 .. Len(exec'.jobs)  BY <2>1, SomeLeft
  <2>3. exec'.jobs # << >>
    <3>1. exec'.jobs \in Seq(Job)  BY <1>1
    <3> QED  BY <3>1, <2>2
  <2>4. job' = exec'.jobs[1]  BY <2>3 DEF job
  <2>5. exec'.jobs[1] = exec.jobs[1 + 1]  BY <1>2, <2>2
  <2> QED  BY <2>2, <2>4, <2>5
<1>8. ASSUME NEW kind \in CellKind, NEW n \in exec.matched  PROVE Emptied(kind, n)'
  <2>1. Emptied(kind, n)  BY <1>1, <1>5, <1>8 DEF EInv
  <2>2. CASE LastOf(file, kind, n) = Null  BY <1>1, <2>2 DEF Emptied
  <2>3. ASSUME NEW i \in 2 .. Len(exec.jobs), exec.jobs[i] = AllOf("remove", kind)
        PROVE  Emptied(kind, n)'
    <3>1. CASE i = 2  BY <1>1, <1>7, <2>3, <3>1 DEF Emptied
    <3>2. CASE i # 2
      <4>1. i - 1 \in 2 .. Len(exec'.jobs) /\ i - 1 \in 1 .. Len(exec'.jobs) /\ (i - 1) + 1 = i
        BY <1>2, <3>2
      <4>2. exec'.jobs[i - 1] = AllOf("remove", kind)  BY <1>2, <2>3, <4>1
      <4> QED  BY <4>1, <4>2 DEF Emptied
    <3> QED  BY <3>1, <3>2
  <2> QED  BY <1>1, <1>6, <2>1, <2>2, <2>3 DEF Emptied, RemovingPCs
<1>9. \A i \in 1 .. Len(exec'.jobs) : exec'.jobs[i] \in DeleteJobs
  <2>1. \A i \in 1 .. Len(exec'.jobs) : i + 1 \in 1 .. Len(exec.jobs)  BY <1>2
  <2> QED  BY <1>1, <1>2, <1>5, <2>1 DEF EInv
<1> QED  BY <1>1, <1>3, <1>8, <1>9 DEF EInv, Walk, RemovingPCs

LEMMA RespondEmptied ==
  ASSUME respond
  PROVE  EInv'
<1>1. exec'.jobs = << >>  BY DEF respond, Idle
<1> QED  BY <1>1, NoDeletion

-----------------------------------------------------------------------------
(* The removal of a cell, and of a node.                                   *)
LEMMA FreeCellEmptied ==
  ASSUME CInv, NInv, EInv, free_cell
  PROVE  EInv'
<1> DEFINE kind == job.kind
           p == exec.current
           freed == [prev |-> ctrl_block.head[kind], name |-> Null,
                     value |-> IF kind = "RELATION" THEN CellAt(file, p).value ELSE Null]
<1>1. /\ exec.pc = "free_cell" /\ ~ Down /\ Place = "free_cell" /\ exec.jobs # << >>
      /\ exec \in exec_type /\ exec.jobs \in Seq(Job) /\ file \in File /\ p \in cell_ptr
      /\ exec.matched \subseteq cell_ptr /\ exec.node \in cell_ptr
      /\ \A k \in CellKind : ctrl_block.head[k] \in cell_ptr
  BY Unfold DEF free_cell, Down, Updating, Place, CInv, Pool, exec_type, IInv, ExecOK, InOp, JobPCs
<1>2. kind \in CellKind  BY <1>1, JobType DEF job
<1>3. CASE Wild
  <2>1. Down'  BY <1>1, <1>3 DEF Wild, Down, exec_type
  <2> QED  BY <2>1, NoDeletion
<1>4. CASE ~ Wild
  <2>1. /\ IsCell(file, kind, p) /\ file' = WriteCell(file, p, freed)
        /\ exec'.jobs = exec.jobs /\ exec'.matched = exec.matched /\ exec'.left = exec.left
        /\ exec'.node = exec.node /\ exec'.current = exec.following
        /\ exec'.lost_place = exec.lost_place
        /\ exec'.pc = "update_control_block" /\ exec'.ret = "remove"
    BY <1>1, <1>4, ZenonT(40) DEF free_cell, exec_type
  <2>2. freed \in cell
    <3>1. CellAt(file, p) \in cell  BY <1>1, <1>2, <2>1, CellAtType
    <3>2. CellAt(file, p).value \in cell_ptr  BY <3>1 DEF cell
    <3> QED  BY <1>1, <1>2, <3>2, ZeroTypes DEF cell
  <2> HIDE DEF kind, freed
  <2>3. \A k \in CellKind : ChainsKept(file, file', k)
    BY <1>1, <1>2, <2>1, <2>2, CellWritten
  <2>4. Place' = "remove" /\ job' = job  BY <2>1 DEF Place, Updating, job
  <2> SUFFICES ASSUME Deletes(exec.jobs)  PROVE EInv'
    BY <2>1, NoDeletion
  <2>5. \A k \in CellKind : \A n \in exec.matched : Emptied(k, n)'
    BY <1>1, <2>1, <2>3, <2>4, StillToEmpty DEF EInv, ChainsKept, RemovingPCs
  <2>6. InUse(file, exec.node)  BY <1>1 DEF NInv, NodesHeld, AtNode, NodePCs
  <2>7. LastOf(file', kind, exec.node) = LastOf(file, kind, exec.node)
    BY <1>1, <1>2, <2>3, <2>6 DEF ChainsKept, ChainKept
  <2>8. Walk'  BY <1>1, <2>1, <2>4, <2>7 DEF EInv, Walk, kind
  <2> QED  BY <1>1, <2>1, <2>4, <2>5, <2>8 DEF EInv, RemovingPCs
<1> QED  BY <1>3, <1>4

LEMMA FreeNodeEmptied ==
  ASSUME CInv, NInv, EInv, free_node
  PROVE  EInv'
<1> DEFINE n == exec.node
           freed == [NodeAt(file, n) EXCEPT !.is_empty = 0,
                                            !.last["LABEL"] = ctrl_block.head["NODE"]]
<1>1. /\ exec.pc = "free_node" /\ ~ Down /\ Place = "free_node" /\ exec.jobs # << >>
      /\ exec \in exec_type /\ exec.jobs \in Seq(Job) /\ file \in File /\ n \in cell_ptr
      /\ exec.matched \subseteq cell_ptr /\ ctrl_block.head["NODE"] \in cell_ptr
  BY Unfold DEF free_node, Down, Updating, Place, CInv, Pool, exec_type, IInv, ExecOK, InOp, JobPCs
<1>2. job.op = "free" /\ n \notin exec.left  BY <1>1 DEF NInv, NodesHeld
<1>3. CASE Wild
  <2>1. Down'  BY <1>1, <1>3 DEF Wild, Down, exec_type
  <2> QED  BY <2>1, NoDeletion
<1>4. CASE ~ Wild
  <2>1. /\ IsNode(file, n) /\ file' = WriteNode(file, n, freed)
        /\ exec'.jobs = exec.jobs /\ exec'.matched = exec.matched /\ exec'.left = exec.left
        /\ exec'.node = n /\ exec'.pc = "update_control_block" /\ exec'.ret = "next"
    BY <1>1, <1>4 DEF free_node, exec_type
  <2>2. freed \in node_cell
    BY <1>1, <2>1, NodeAtType DEF node_cell, CellKind
  <2> HIDE DEF freed
  <2>3. Place' = "next" /\ job' = job  BY <2>1 DEF Place, Updating, job
  <2>4. \A k \in CellKind : \A m \in cell_ptr : m # n => ChainKept(file, file', k, m)
    BY <1>1, <2>1, <2>2, NodeRewritten
  <2> HIDE DEF n
  <2> SUFFICES ASSUME Deletes(exec.jobs)  PROVE EInv'
    BY <2>1, NoDeletion
  <2>5. ASSUME NEW k \in CellKind, NEW m \in exec.matched  PROVE Emptied(k, m)'
    <3>1. CASE m = n
      BY <1>2, <2>1, <2>3, <3>1 DEF Emptied
    <3>2. CASE m # n
      BY <1>1, <2>1, <2>3, <2>4, <2>5, <3>2, StillToEmpty DEF EInv, RemovingPCs, n
    <3> QED  BY <3>1, <3>2
  <2> QED  BY <1>1, <2>1, <2>3, <2>5 DEF EInv, Walk, RemovingPCs
<1> QED  BY <1>3, <1>4

(* At its turn, the chains of a node to be freed are empty.                *)
LEMMA EmptyWhenFreed ==
  ASSUME CInv, NInv, EInv, free_node
  PROVE  \A kind \in CellKind : LastOf(file, kind, exec.node) = Null
<1>1. /\ exec.pc = "free_node" /\ ~ Down /\ Place = "free_node" /\ exec.jobs # << >>
      /\ exec.jobs \in Seq(Job)
  BY Unfold DEF free_node, Down, Updating, Place, CInv, exec_type, IInv, ExecOK, InOp, JobPCs
<1>2. job.op = "free"  BY <1>1 DEF NInv, NodesHeld
<1>3. job = exec.jobs[1] /\ Len(exec.jobs) \in Nat /\ 1 \in 1 .. Len(exec.jobs)
  BY <1>1 DEF job
<1>4. Deletes(exec.jobs)  BY <1>2, <1>3 DEF Deletes
<1>5. \A i \in 2 .. Len(exec.jobs) : FALSE
  <2>1. \A i \in 2 .. Len(exec.jobs) : i \in 1 .. Len(exec.jobs) /\ 1 < i  BY <1>3
  <2> QED  BY <1>2, <1>3, <2>1 DEF NInv, InOrder
<1>6. \A kind : job # AllOf("remove", kind)  BY <1>2 DEF AllOf
<1>7. exec.node \in exec.matched  BY <1>1, <1>4 DEF EInv
<1> QED  BY <1>1, <1>4, <1>5, <1>6, <1>7 DEF EInv, Emptied

-----------------------------------------------------------------------------
(* What the walk of a deletion leaves of the node's chain.                 *)
LEMMA RemoveCellEmptied ==
  ASSUME CInv, NInv, KInv, EInv, NEW kind \in CellKind, remove_cell(kind), OneCellEach'
  PROVE  EInv'
<1> DEFINE n == exec.node
           q == exec.prev
           p == exec.current
           old == CellAt(file, p)
           node == [NodeAt(file, n) EXCEPT !.last[kind] = old.prev]
           prev_cell == [CellAt(file, q) EXCEPT !.prev = old.prev]
           lost == exec.lost_place \/ (kind = "RELATION" /\ Named(old))
<1>1. /\ exec.pc = "remove" /\ ~ Down /\ ~ Updating /\ Place = "remove"
      /\ exec.jobs # << >> /\ job.kind = kind
  BY DEF remove_cell, Down, Updating, Place, CInv, IInv, ExecOK, InOp, JobPCs
<1>2. /\ exec \in exec_type /\ file \in File /\ exec.jobs \in Seq(Job)
      /\ n \in cell_ptr /\ p \in cell_ptr /\ q \in cell_ptr /\ exec.matched \subseteq cell_ptr
  BY Unfold DEF CInv, exec_type
<1>3. InUse(file, n) /\ n # NoRoom /\ n # Nobody
  <2>1. InUse(file, n)  BY <1>1 DEF NInv, NodesHeld, AtNode, NodePCs
  <2> QED  BY <2>1, NodePlace DEF InUse
<1>4. PICK o \in Owners : Held(kind, o)  BY <1>1 DEF KInv, MemCells, AllHeld
<1>5. /\ ChainsApart(file, kind, o) /\ OfItsNode(o, p)
      /\ ~ exec.has_changed => LedFrom(kind, o)
  BY <1>1, <1>4 DEF Held, Shared, InHands
<1>6. CASE Wild
  <2>1. Down'  BY <1>2, <1>6 DEF Wild, Down, exec_type
  <2> QED  BY <2>1, NoDeletion
<1>7. CASE Stop
  <2>1. exec'.jobs = << >>  BY <1>7 DEF Stop, Idle
  <2> QED  BY <2>1, NoDeletion
<1>8. ASSUME Deletes(exec.jobs)
      PROVE  /\ job.op = "remove" /\ job.name = ALL /\ job = AllOf("remove", kind)
             /\ n \in exec.matched /\ exec.left \subseteq exec.matched
             /\ exec.lost_place \/ LastOf(file, kind, n) = p
  <2>1. /\ job.op = "remove" /\ n \in exec.matched /\ exec.left \subseteq exec.matched
        /\ exec.lost_place \/ LastOf(file, kind, n) = p
    BY <1>1, <1>8 DEF EInv, RemovingPCs, Walk
  <2> QED  BY <1>1, <1>2, <1>8, <2>1, DeleteJob
<1>9. ASSUME exec'.jobs = exec.jobs, exec'.matched = exec.matched, exec'.left = exec.left,
             exec'.node = n, Place' \in RemovingPCs, Deletes(exec.jobs), Walk',
             \A k \in CellKind : \A m \in cell_ptr :
               k # kind \/ m # n => ChainKept(file, file', k, m)
      PROVE  EInv'
  <2>1. job' = job  BY <1>9 DEF job
  <2>2. ASSUME NEW k \in CellKind, NEW m \in exec.matched  PROVE Emptied(k, m)'
    <3>1. CASE k = kind /\ m = n
      BY <1>8, <1>9, <2>1, <3>1 DEF Emptied
    <3>2. CASE k # kind \/ m # n
      <4>1. Place' # "free_node"  BY <1>9 DEF RemovingPCs
      <4> QED  BY <1>1, <1>2, <1>9, <2>2, <3>2, <4>1, StillToEmpty DEF EInv
    <3> QED  BY <3>1, <3>2
  <2> QED  BY <1>1, <1>8, <1>9, <2>1, <2>2 DEF EInv
<1>10. CASE p.block_num = 0 /\ ~ exec.lost_place /\ exec' = [exec EXCEPT !.pc = "next"] /\ ReadOnly
  <2>1. /\ exec'.jobs = exec.jobs /\ exec'.matched = exec.matched /\ exec'.left = exec.left
        /\ exec'.node = n /\ exec'.pc = "next" /\ file' = file
    BY <1>2, <1>10 DEF exec_type, ReadOnly
  <2>2. Place' = "next" /\ job' = job  BY <2>1 DEF Place, Updating, job
  <2> SUFFICES ASSUME Deletes(exec.jobs)  PROVE EInv'
    BY <2>1, NoDeletion
  <2>3. p = Null
    <3> SUFFICES ASSUME p # Null  PROVE FALSE
      OBVIOUS
    <3>1. o[p] = n  BY <1>5 DEF OfItsNode
    <3>2. IsCell(file, kind, p)  BY <1>2, <1>3, <1>5, <3>1, PrevOfNodes
    <3>3. file[0].type = "CONTROL"  BY <1>1 DEF CInv, IInv, ControlBlock
    <3> QED  BY <1>10, <3>2, <3>3 DEF IsCell, CellKind
  <2>4. LastOf(file, kind, n) = Null  BY <1>8, <1>10, <2>3
  <2>5. ASSUME NEW k \in CellKind, NEW m \in exec.matched  PROVE Emptied(k, m)'
    <3>1. Emptied(k, m)  BY <1>1, <2>5 DEF EInv
    <3>2. CASE k = kind /\ m = n  BY <2>1, <2>4, <3>2 DEF Emptied
    <3>3. CASE k # kind \/ m # n
      <4>1. job = AllOf("remove", k) => k = kind  BY <1>1 DEF AllOf
      <4> QED  BY <1>8, <2>1, <2>2, <3>1, <3>3, <4>1 DEF Emptied
    <3> QED  BY <3>2, <3>3
  <2> QED  BY <1>1, <2>1, <2>2, <2>5 DEF EInv, Walk, RemovingPCs
<1>11. CASE /\ p.block_num # 0 /\ ~ Wanted(old) /\ ReadOnly
            /\ exec' = [exec EXCEPT !.prev = p, !.current = old.prev, !.lost_place = lost]
  <2> HIDE DEF lost
  <2>1. /\ exec'.jobs = exec.jobs /\ exec'.matched = exec.matched /\ exec'.left = exec.left
        /\ exec'.node = n /\ exec'.pc = "remove" /\ exec'.lost_place = lost /\ file' = file
    BY <1>1, <1>2, <1>11 DEF exec_type, ReadOnly
  <2>2. Place' = "remove" /\ job' = job  BY <2>1 DEF Place, Updating, job
  <2> SUFFICES ASSUME Deletes(exec.jobs)  PROVE EInv'
    BY <2>1, NoDeletion
  <2>3. lost
    <3>1. Named(old)  BY <1>8 DEF Named
    <3>2. kind = "RELATION"  BY <1>1, <1>8, <1>11, <3>1 DEF Wanted
    <3> QED  BY <3>1, <3>2 DEF lost
  <2>4. Walk'  BY <2>1, <2>2, <2>3 DEF Walk
  <2>5. \A k \in CellKind : \A m \in cell_ptr : ChainKept(file, file', k, m)
    BY <2>1 DEF ChainKept
  <2> QED  BY <1>9, <2>1, <2>2, <2>4, <2>5 DEF RemovingPCs
<1>12. ASSUME p.block_num # 0, IsCell(file, kind, p), IsNode(file, n),
              IsNode(file, q) \/ IsCell(file, kind, q),
              exec' = [exec EXCEPT !.pc = "free_cell", !.following = old.prev,
                                   !.lost_place = lost],
              IF q.block_num = 0
              THEN /\ file' = WriteNode(file, n, node)
                   /\ ctrl_block' = file'[0]
                   /\ AllFlushed
              ELSE /\ file' = IF IsNode(file, q) THEN WriteNode(file, n, node)
                              ELSE WriteCell(file, q, prev_cell)
                   /\ UNCHANGED ctrl_block
                   /\ LastWriteUnflushed
       PROVE  EInv'
  <2>1. /\ exec'.jobs = exec.jobs /\ exec'.matched = exec.matched /\ exec'.left = exec.left
        /\ exec'.node = n /\ exec'.pc = "free_cell" /\ exec'.following = PrevOf(file, p)
        /\ exec'.has_changed = exec.has_changed /\ (exec.lost_place => exec'.lost_place)
    <3> HIDE DEF lost
    <3>1. exec.lost_place => lost  BY DEF lost
    <3> QED  BY <1>2, <1>12, <3>1 DEF exec_type, PrevOf
  <2>2. Place' = "free_cell" /\ job' = job  BY <2>1 DEF Place, Updating, job
  <2> SUFFICES ASSUME Deletes(exec.jobs)  PROVE EInv'
    BY <2>1, NoDeletion
  <2>3. p # Null  BY <1>12 DEF Null, Ptr
  <2>4. o[p] = n /\ LedFrom(kind, o)
    <3>1. ~ exec.has_changed  BY <2>1 DEF OneCellEach
    <3> QED  BY <1>5, <2>3, <3>1 DEF OfItsNode
  <2>5. PrevOf(file, p) \in cell_ptr  BY <1>2, <1>12, PrevType
  <2>6. CASE IsNode(file, q)
    <3>1. file' = WriteNode(file, n, node)  BY <1>12, <2>6
    <3>2. /\ node \in node_cell /\ node.is_empty = 1 /\ node.last[kind] = PrevOf(file, p)
          /\ \A k \in CellKind \ {kind} : node.last[k] = NodeAt(file, n).last[k]
      <4>1. NodeAt(file, n) \in node_cell /\ NodeAt(file, n).is_empty = 1
        BY <1>2, <1>3, NodeAtType DEF InUse
      <4> QED  BY <2>5, <4>1 DEF node_cell, PrevOf
    <3> HIDE DEF node
    <3>3. /\ \A k \in CellKind : \A m \in cell_ptr : m # n => ChainKept(file, file', k, m)
          /\ IsNode(file', n) /\ NodeAt(file', n) = node
      BY <1>2, <1>12, <3>1, <3>2, NodeRewritten
    <3>4. InUse(file', n) /\ LastOf(file', kind, n) = PrevOf(file, p)
      BY <3>2, <3>3 DEF InUse, LastOf
    <3>5. \A k \in CellKind \ {kind} : ChainKept(file, file', k, n)
      BY <1>3, <3>2, <3>3, <3>4 DEF ChainKept, LastOf
    <3>6. Walk'  BY <1>1, <2>1, <2>2, <3>4 DEF Walk
    <3> HIDE DEF n
    <3>7. \A k \in CellKind : \A m \in cell_ptr :
            k # kind \/ m # n => ChainKept(file, file', k, m)
      BY <1>2, <3>3, <3>5
    <3> QED  BY <1>9, <2>1, <2>2, <3>6, <3>7 DEF RemovingPCs, n
  <2>7. CASE ~ IsNode(file, q)
    <3>1. o[q] = n /\ PrevOf(file, q) = p /\ IsCell(file, kind, q)
      BY <1>12, <2>4, <2>7 DEF LedFrom
    <3>2. q.block_num # 0
      <4>1. file[0].type = "CONTROL"  BY <1>1 DEF CInv, IInv, ControlBlock
      <4> QED  BY <3>1, <4>1 DEF IsCell, CellKind
    <3>3. file' = WriteCell(file, q, prev_cell)  BY <1>12, <2>7, <3>2
    <3>4. prev_cell \in cell
      <4>1. CellAt(file, q) \in cell  BY <1>2, <3>1, CellAtType
      <4> QED  BY <2>5, <4>1 DEF cell, PrevOf
    <3> HIDE DEF prev_cell
    <3>5. \A k \in CellKind : ChainsKept(file, file', k)
      BY <1>2, <3>1, <3>3, <3>4, CellWritten
    <3>6. LastOf(file, kind, n) # p
      BY <1>2, <1>3, <1>5, <2>3, <3>1 DEF ChainsApart, ChainGoesOn, OfNode
    <3>7. exec'.lost_place  BY <1>8, <2>1, <3>6
    <3>8. Walk'  BY <2>2, <3>7 DEF Walk
    <3>9. \A k \in CellKind : \A m \in cell_ptr : ChainKept(file, file', k, m)
      BY <3>5 DEF ChainsKept
    <3> QED  BY <1>9, <2>1, <2>2, <3>8, <3>9 DEF RemovingPCs
  <2> QED  BY <2>6, <2>7
<1> QED  BY <1>6, <1>7, <1>10, <1>11, <1>12 DEF remove_cell

-----------------------------------------------------------------------------
(* A command that frees nodes is the deletion of nodes, from its beginning. *)
LEMMA DeletesNodes ==
  ASSUME NEW info \in Commands, Deletes(Jobs(info))
  PROVE  Jobs(info) = delete_nodes /\ info.command_type # "create"
<1>1. /\ info.labels \in Seq(String) /\ info.props \in Seq(property)
      /\ info.changed_labels \in Seq(String) /\ info.changed_props \in Seq(property)
  BY CommandsAssumption DEF query_info
<1> DEFINE W == [op : {"add", "put", "remove"}, kind : {"LABEL", "ATTRIBUTE"},
                 name : String, value : String \cup {ALL}]
<1>2. ASSUME NEW a \in {"add", "put", "remove"}, NEW b \in {"add", "put", "remove"},
             NEW ls \in Seq(String), NEW ps \in Seq(property),
             Jobs(info) = LabelJobs(a, ls) \o PropJobs(b, ps)
      PROVE  FALSE
  <2> DEFINE s == LabelJobs(a, ls)
             t == PropJobs(b, ps)
  <2>1. s \in Seq(W)  BY DEF LabelJobs, LabelJob
  <2>2. t \in Seq(W)
    <3>1. \A p \in property : PropJob(b, p) \in W  BY DEF PropJob, property
    <3> QED  BY <1>1, <3>1 DEF PropJobs
  <2>3. \A w \in W : w.op # "free"  OBVIOUS
  <2> HIDE DEF s, t, W
  <2>4. s \o t \in Seq(W)  BY <2>1, <2>2
  <2>5. \A i \in 1 .. Len(s \o t) : (s \o t)[i] \in W  BY <2>4
  <2> QED  BY <1>2, <2>3, <2>5 DEF Deletes, s, t
<1>3. ASSUME NEW op \in {"relate", "remove"}, Jobs(info) = << RelationJob(op, info.rel_name) >>
      PROVE  FALSE
  <2> DEFINE r == RelationJob(op, info.rel_name)
  <2>1. r.op # "free"  BY DEF RelationJob
  <2> HIDE DEF r
  <2>2. Len(<< r >>) = 1 /\ << r >>[1] = r  OBVIOUS
  <2>3. \A i \in 1 .. 1 : i = 1  OBVIOUS
  <2> QED  BY <1>3, <2>1, <2>2, <2>3 DEF Deletes, r
<1> QED
  <2>1. CASE info.command_type = "create"  BY <1>1, <1>2, <1>3, <2>1 DEF Jobs
  <2>2. CASE info.command_type \in {"set", "remove"}  BY <1>1, <1>2, <2>2 DEF Jobs
  <2>3. CASE info.command_type \notin {"create", "set", "remove"}  BY <1>3, <2>3 DEF Jobs
  <2> QED  BY <2>1, <2>2, <2>3

LEMMA ExecutingEmptied ==
  ASSUME Execute
  PROVE  EInv'
<1>1. PICK info \in Commands : Begun(info)  BY Begins
<1> SUFFICES ASSUME exec'.jobs # << >>, Deletes(exec'.jobs)  PROVE EInv'
  BY NoDeletion
<1>2. exec'.jobs = Jobs(info)  BY <1>1 DEF Begun
<1>3. Jobs(info) = delete_nodes /\ info.command_type # "create"  BY <1>2, DeletesNodes
<1>4. exec'.pc = "next" /\ exec'.left = exec'.matched  BY <1>1, <1>3 DEF Begun
<1>5. Place' = "next"  BY <1>4 DEF Place, Updating
<1> DEFINE all(kind) == AllOf("remove", kind)
           last == AllOf("free", "LABEL")
<1>6. delete_nodes = << all("LABEL"), all("ATTRIBUTE"), all("RELATION"), last >>
  BY DEF delete_nodes
<1> HIDE DEF all, last
<1>7. /\ Len(exec'.jobs) = 4 /\ job' = all("LABEL")
      /\ exec'.jobs[1] = all("LABEL") /\ exec'.jobs[2] = all("ATTRIBUTE")
      /\ exec'.jobs[3] = all("RELATION") /\ exec'.jobs[4] = last
  BY <1>2, <1>3, <1>6 DEF job
<1>8. \A i \in 1 .. 4 : i \in {1, 2, 3, 4}  OBVIOUS
<1>9. {all("LABEL"), all("ATTRIBUTE"), all("RELATION"), last} \subseteq DeleteJobs
  BY DEF DeleteJobs, CellKind, all, last
<1>10. \A i \in 1 .. Len(exec'.jobs) : exec'.jobs[i] \in DeleteJobs
  BY <1>7, <1>8, <1>9
<1>11. ASSUME NEW kind \in CellKind, NEW n \in exec'.matched  PROVE Emptied(kind, n)'
  <2>1. CASE kind = "LABEL"  BY <1>4, <1>7, <2>1 DEF Emptied, all
  <2>2. 2 \in 2 .. Len(exec'.jobs) /\ 3 \in 2 .. Len(exec'.jobs)  BY <1>7
  <2>3. CASE kind \in {"ATTRIBUTE", "RELATION"}  BY <1>7, <2>2, <2>3 DEF Emptied, all
  <2> QED  BY <2>1, <2>3 DEF CellKind
<1> QED  BY <1>4, <1>5, <1>10, <1>11 DEF EInv, Walk, RemovingPCs

LEMMA StartOrStopEmptied ==
  ASSUME init_data \/ kill \/ quit
  PROVE  EInv'
<1>1. exec'.jobs = << >>  BY DEF init_data, kill, quit, Stop, Idle
<1> QED  BY <1>1, NoDeletion

LEMMA InductiveLost ==
  ASSUME NoLossPoints
  PROVE  /\ Init => LInv /\ EInv
         /\ CInv /\ RelateInv /\ BInv /\ NInv /\ KInv /\ LInv /\ EInv
              /\ OneCellEach' /\ [Next]_vars => (LInv /\ EInv)'
<1>1. Init => EInv
  <2>1. Len(<< >>) = 0  OBVIOUS
  <2> QED  BY <2>1 DEF Init, Idle, EInv, Deletes
<1>2. ASSUME CInv, RelateInv, BInv, NInv, KInv, LInv, EInv, OneCellEach', [Next]_vars
      PROVE  LInv' /\ EInv'
  <2>1. CASE Step
    <3>1. ASSUME NEW kind \in CellKind, create_cell(kind)  PROVE LInv' /\ EInv'
      BY <1>2, <3>1, CreateCellLost, CreatingEmptied
    <3>2. ASSUME NEW kind \in CellKind, update_node(kind)  PROVE LInv' /\ EInv'
      BY <1>2, <3>2, UpdateNodeLost, CreatingEmptied
    <3>3. ASSUME NEW kind \in CellKind, remove_cell(kind)  PROVE LInv' /\ EInv'
      BY <1>2, <3>3, RemoveCellLost, RemoveCellEmptied
    <3>4. CASE create_label_cell \/ create_attribute_cell \/ create_relation_cell
      BY <3>1, <3>4 DEF create_label_cell, create_attribute_cell, create_relation_cell, CellKind
    <3>5. CASE update_node_labels \/ update_node_attributes \/ update_node_relations
      BY <3>2, <3>5 DEF update_node_labels, update_node_attributes, update_node_relations, CellKind
    <3>6. CASE remove_labels \/ remove_attributes \/ delete_relations
      BY <3>3, <3>6 DEF remove_labels, remove_attributes, delete_relations, CellKind
    <3>7. CASE chain_node_block \/ chain_update_control
      BY <1>2, <3>7, ChainLost, CreatingEmptied
    <3>8. CASE create_node_cell  BY <1>2, <3>8, CreateNodeLost, CreatingEmptied
    <3>9. CASE create_string_cell \/ string_in_new_block
      BY <1>2, <3>9, CreateStringLost, CreatingEmptied
    <3>10. CASE next_second \/ find_node_attribute
      BY <1>2, <3>10, LoopLost, CreatingEmptied
    <3>11. CASE next_node \/ next_job \/ respond
      BY <1>2, <3>11, LoopLost, NextNodeEmptied, NextJobEmptied, RespondEmptied
    <3>12. CASE update_control_block  BY <1>2, <3>12, ControlLost, ControlEmptied
    <3>13. CASE write_value  BY <1>2, <3>13, WriteValueLost, WriteValueEmptied
    <3>14. CASE free_cell  BY <1>2, <3>14, FreeCellLost, FreeCellEmptied
    <3>15. CASE free_node
      BY <1>2, <3>15, FreeNodeLost, FreeNodeEmptied, EmptyWhenFreed
    <3> QED
      BY <2>1, <3>4, <3>5, <3>6, <3>7, <3>8, <3>9, <3>10, <3>11, <3>12, <3>13, <3>14, <3>15
      DEF Step
  <2>2. CASE Execute  BY <1>2, <2>2, ExecutingLost, ExecutingEmptied
  <2>3. CASE init_data \/ kill \/ quit  BY <1>2, <2>3, StartOrStopLost, StartOrStopEmptied
  <2>4. CASE UNCHANGED vars
    <3>1. UNCHANGED <<file, disk, ctrl_block, exec>>  BY <2>4 DEF vars
    <3>2. UNCHANGED <<Place, job, Down>>
      BY <3>1 DEF Place, Updating, job, Down
    <3>3. LInv'
      BY <1>2, <3>1, <3>2 DEF LInv, NoneLostOf, InHand, AllPlaced
    <3>4. EInv'
      BY <1>2, <3>1, <3>2 DEF EInv, Emptied, Walk
    <3> QED  BY <3>3, <3>4
  <2> QED  BY <1>2, <2>1, <2>2, <2>3, <2>4 DEF Next
<1> QED  BY <1>1, <1>2, InitiallyNoneLost

-----------------------------------------------------------------------------
(* At rest.  What a node's pointer leads to is in its chain as it is read, *)
(* what the head of a pool leads to is what will be handed out.            *)
LEMMA CellAmong ==
  ASSUME NEW f, f[0].type = "CONTROL", NEW kind \in CellKind, NEW p \in cell_ptr, IsCell(f, kind, p)
  PROVE  p \in Cells(f, kind)
<1>1. p = Ptr(p.block_num, p.offset)  BY DEF cell_ptr, Ptr
<1>2. p.block_num \in Block \ {0} /\ p.offset \in 0 .. CellsIn(kind) - 1
  BY DEF IsCell, CellKind
<1>3. p \in CellPtr(kind)  BY <1>1, <1>2 DEF CellPtr
<1> QED  BY <1>3 DEF Cells

LEMMA ChainHas ==
  ASSUME NEW f \in File, NEW kind \in CellKind, NEW o, ChainsApart(f, kind, o),
         NEW n \in cell_ptr, InUse(f, n), NEW p, IsCell(f, kind, p),
         ChainLeads(f, kind, LastOf(f, kind, n), p)
  PROVE  p \in ChainSet(f, kind, LastOf(f, kind, n))
<1> DEFINE l == LastOf(f, kind, n)
           s == ChainOf(f, kind, n)
<1>1. ReadFrom(f, kind, l, s) /\ NextRead(f, l, s) = Null  BY ChainOfNode
<1>2. ChainSet(f, kind, l) = {s[i] : i \in DOMAIN s}
  BY DEF ChainSet, ChainOf, LastOf
<1> HIDE DEF l, s
<1>3. s \in Seq(cell_ptr) /\ DOMAIN s = 1 .. Len(s) /\ Len(s) \in Nat  BY <1>1 DEF ReadFrom
<1> DEFINE S == {s[i] : i \in 1 .. Len(s)} \cup {Null}
<1>4. ~ IsCell(f, kind, Null)  BY DEF ChainsApart
<1>5. S \in SUBSET cell_ptr  BY <1>3, ZeroTypes
<1>6. l \in S
  <2>1. CASE s = << >>  BY <1>1, <2>1 DEF NextRead
  <2>2. CASE s # << >>
    <3>1. 1 \in 1 .. Len(s)  BY <1>3, <2>2
    <3> QED  BY <1>1, <3>1, ReadCell
  <2> QED  BY <2>1, <2>2
<1>7. ASSUME NEW q \in S, IsCell(f, kind, q)  PROVE PrevOf(f, q) \in S
  <2>1. PICK i \in 1 .. Len(s) : q = s[i]  BY <1>4, <1>7
  <2>2. CASE i = Len(s)
    <3>1. s # << >>  BY <1>3, <2>1
    <3> QED  BY <1>1, <2>1, <2>2, <3>1 DEF NextRead
  <2>3. CASE i # Len(s)
    <3>1. i + 1 \in 1 .. Len(s) /\ i + 1 # 1 /\ (i + 1) - 1 = i  BY <1>3, <2>3
    <3>2. s[i + 1] = PrevOf(f, s[i])  BY <1>1, <3>1 DEF ReadFrom
    <3> QED  BY <2>1, <3>1, <3>2
  <2> QED  BY <2>2, <2>3
<1>8. ChainClosed(f, kind, S)  BY <1>7 DEF ChainClosed
<1> HIDE DEF S
<1>9. p \in S  BY <1>5, <1>6, <1>8 DEF ChainLeads, l
<1> QED  BY <1>2, <1>3, <1>4, <1>9 DEF S, l

LEMMA PoolReadOnce ==
  ASSUME NEW f, NEW kind, NEW h \in cell_ptr, NEW o, PoolApart(f, kind, h, o),
         ~ IsCell(f, kind, Null), NEW s, ReadFrom(f, kind, h, s)
  PROVE  \A i, j \in 1 .. Len(s) : s[i] = s[j] => i = j
<1>1. \A i \in 1 .. Len(s) : /\ s[i] # Null /\ s[i] # NoRoom /\ s[i] \in cell_ptr
                             /\ o[s[i]] = NoRoom
  BY ReadCell, ReadOfPool, CellPlace
<1>2. ASSUME NEW i \in 1 .. Len(s), i # 1
      PROVE  /\ i - 1 \in 1 .. Len(s) /\ s[i] = PrevOf(f, s[i - 1])
             /\ Listed(f, o, s[i - 1]) /\ PoolGoesOn(f, h, o, s[i - 1])
  <2>1. i - 1 \in 1 .. Len(s) /\ s[i] = PrevOf(f, s[i - 1])  BY <1>2, ReadCell
  <2>2. Listed(f, o, s[i - 1])  BY <1>1, <2>1 DEF Listed
  <2> QED  BY <1>1, <2>1, <2>2 DEF PoolApart
<1> DEFINE S == {i \in Nat : i \in 1 .. Len(s) /\ \E j \in 1 .. Len(s) : i < j /\ s[i] = s[j]}
<1>3. S = {}
  <2>1. SUFFICES ASSUME S # {}  PROVE FALSE  OBVIOUS
  <2>2. PICK i \in S : \A j \in S : i <= j  BY <2>1, LeastNumber, Zenon
  <2>3. PICK j \in 1 .. Len(s) : i < j /\ s[i] = s[j]  BY <2>2
  <2>4. j # 1 /\ i \in 1 .. Len(s)  BY <2>2, <2>3
  <2>5. /\ j - 1 \in 1 .. Len(s) /\ s[j] = PrevOf(f, s[j - 1])
        /\ PoolGoesOn(f, h, o, s[j - 1])
    BY <1>2, <2>4
  <2>6. s[j] # h
    BY <1>1, <2>5 DEF PoolGoesOn
  <2>7. CASE i = 1
    <3>1. s[i] = h  BY <2>4, <2>7, ReadCell
    <3> QED  BY <2>3, <2>6, <3>1
  <2>8. CASE i # 1
    <3>1. i - 1 \in 1 .. Len(s) /\ s[i] = PrevOf(f, s[i - 1]) /\ Listed(f, o, s[i - 1])
      BY <1>2, <2>4, <2>8
    <3>2. s[i - 1] = s[j - 1]
      BY <1>1, <2>3, <2>5, <3>1 DEF PoolGoesOn
    <3>3. i - 1 \in Nat /\ i - 1 \notin S  BY <2>2, <2>8
    <3>4. i - 1 < j - 1  BY <2>3, <2>4
    <3> QED  BY <2>5, <3>1, <3>2, <3>3, <3>4
  <2> QED  BY <2>7, <2>8
<1>4. ASSUME NEW i \in 1 .. Len(s), NEW j \in 1 .. Len(s), s[i] = s[j], i < j  PROVE FALSE
  <2>1. i \in Nat  OBVIOUS
  <2>2. i \in S  BY <1>4, <2>1
  <2> QED  BY <1>3, <2>2
<1> QED  BY <1>4

(* What comes after a place that is not the last one. *)
LEMMA PlaceAfter ==
  ASSUME NEW m \in Nat, NEW i \in 1 .. m, i # m
  PROVE  i + 1 \in 1 .. m /\ i + 1 # 1 /\ (i + 1) - 1 = i
OBVIOUS

LEMMA HandoutsHas ==
  ASSUME NEW f \in File, f[0].type = "CONTROL", NEW kind \in CellKind, NEW o,
         f[0].head[kind] \in cell_ptr, PoolApart(f, kind, f[0].head[kind], o),
         ~ IsCell(f, kind, Null), NEW p, p # NoRoom, PoolLeads(f, kind, f[0].head[kind], p)
  PROVE  p \in Handouts(f, kind)
<1> DEFINE h == f[0].head[kind]
           s == Chain(f, kind, h)
           list == ChainSet(f, kind, h)
           Follows(q, x) == /\ CellAt(f, q).prev = Null
                            /\ q.block_num = x.block_num /\ q.offset < x.offset
           rest == {x \in Cells(f, kind) : \E q \in list : Follows(q, x)}
           S == list \cup rest \cup {NoRoom}
<1>1. IsChain(f, kind, h, MaxChain(kind) + 1, s)  BY ChainIs
<1>2. list = {s[i] : i \in DOMAIN s} /\ Handouts(f, kind) = list \cup rest
  BY DEF ChainSet, Handouts
<1>3. PoolApart(f, kind, h, o) /\ h \in cell_ptr  OBVIOUS
<1> HIDE DEF h, s, list
<1>4. ReadFrom(f, kind, h, s) /\ s \in Seq(cell_ptr) /\ DOMAIN s = 1 .. Len(s) /\ Len(s) \in Nat
  BY <1>1 DEF IsChain, ReadFrom
<1>5. ~ IsCell(f, kind, NextRead(f, h, s))
  <2>1. \A i, j \in 1 .. Len(s) : s[i] = s[j] => i = j  BY <1>3, <1>4, PoolReadOnce
  <2>2. Len(s) <= MaxChain(kind)  BY <1>4, <2>1, ReadCell, FewCells
  <2>3. MaxChain(kind) \in Nat  BY LayoutAssumption DEF MaxChain, CellsIn
  <2> QED  BY <1>1, <1>4, <2>2, <2>3 DEF IsChain
<1>6. \A i \in 1 .. Len(s) : o[s[i]] = NoRoom /\ s[i] \in cell_ptr /\ IsCell(f, kind, s[i])
  BY <1>3, <1>4, ReadOfPool, ReadCell
<1>7. \A x \in rest : x \in cell_ptr  BY PtrOfCell DEF Cells
<1>8. S \in SUBSET cell_ptr  BY <1>2, <1>4, <1>6, <1>7, ZeroTypes
<1>9. h \in S
  <2>1. CASE s = << >>
    <3>1. ~ IsCell(f, kind, h)  BY <1>5, <2>1 DEF NextRead
    <3> QED  BY <1>3, <3>1 DEF PoolApart, Ready, Listed, NeverWritten
  <2>2. CASE s # << >>
    <3>1. 1 \in 1 .. Len(s)  BY <1>4, <2>2
    <3>2. s[1] = h  BY <1>4, <3>1, ReadCell
    <3> QED  BY <1>2, <1>4, <3>1, <3>2
  <2> QED  BY <2>1, <2>2
<1>10. ASSUME NEW q \in cell_ptr, IsCell(f, kind, q), PrevOf(f, q) = Null,
              q \in list \/ \E x \in list : Follows(x, q)
       PROVE  AfterTaken(f, kind, q) \in S
  <2>1. CASE q.offset + 1 > CellsIn(kind) - 1
    BY <1>10, <2>1 DEF AfterTaken, HeadAfter
  <2>2. CASE ~ (q.offset + 1 > CellsIn(kind) - 1)
    <3> DEFINE r == Ptr(q.block_num, q.offset + 1)
    <3>1. AfterTaken(f, kind, q) = r  BY <1>10, <2>2 DEF AfterTaken, HeadAfter
    <3>2. r \in cell_ptr /\ r.block_num = q.block_num /\ r.offset = q.offset + 1 /\ q.offset \in Nat
      BY DEF cell_ptr, Ptr
    <3> HIDE DEF r
    <3>3. CellsIn(kind) \in Nat  BY LayoutAssumption DEF CellsIn
    <3>4. IsCell(f, kind, r)  BY <1>10, <2>2, <3>2, <3>3 DEF IsCell
    <3>5. r \in Cells(f, kind)  BY <3>2, <3>4, CellAmong
    <3>6. \E x \in list : Follows(x, r)
      <4>1. CASE q \in list
        BY <1>10, <3>2, <4>1 DEF PrevOf
      <4>2. ASSUME NEW x \in list, Follows(x, q)  PROVE Follows(x, r)
        <5>1. x \in cell_ptr  BY <1>2, <1>4, <1>6
        <5>2. x.offset \in Nat  BY <5>1 DEF cell_ptr
        <5> QED  BY <3>2, <4>2, <5>2
      <4> QED  BY <1>10, <4>1, <4>2
    <3> QED  BY <3>1, <3>5, <3>6
  <2> QED  BY <2>1, <2>2
<1>11. ASSUME NEW q \in S, IsCell(f, kind, q)  PROVE AfterTaken(f, kind, q) \in S
  <2>1. q \in cell_ptr /\ q # NoRoom  BY <1>8, <1>11, CellPlace
  <2>2. ASSUME NEW i \in 1 .. Len(s), q = s[i], PrevOf(f, q) # Null
        PROVE  AfterTaken(f, kind, q) \in S
    <3>1. AfterTaken(f, kind, q) = PrevOf(f, q)  BY <2>2 DEF AfterTaken, HeadAfter
    <3>2. CASE i = Len(s)
      <4>1. s # << >>  BY <1>4, <2>2
      <4>2. ~ IsCell(f, kind, PrevOf(f, q))  BY <1>5, <2>2, <3>2, <4>1 DEF NextRead
      <4>3. Listed(f, o, q)  BY <1>6, <2>2 DEF Listed
      <4>4. Ready(f, o, PrevOf(f, q))  BY <1>3, <2>1, <4>3 DEF PoolApart, PoolGoesOn
      <4>5. PrevOf(f, q) \in cell_ptr  BY <1>11, PrevType
      <4>6. PrevOf(f, q) = NoRoom
        BY <1>3, <4>2, <4>4, <4>5 DEF PoolApart, Ready, Listed, NeverWritten
      <4> QED  BY <3>1, <4>6
    <3>3. CASE i # Len(s)
      <4>1. i + 1 \in 1 .. Len(s) /\ i + 1 # 1 /\ (i + 1) - 1 = i
        <5>1. Len(s) \in Nat  BY <1>4
        <5> QED  BY <5>1, <2>2, <3>3, PlaceAfter
      <4>2. s[i + 1] = PrevOf(f, s[i])  BY <1>4, <4>1 DEF ReadFrom
      <4> QED  BY <1>2, <1>4, <2>2, <3>1, <4>1, <4>2
    <3> QED  BY <3>2, <3>3
  <2>3. CASE q \in list /\ PrevOf(f, q) # Null
    <3>1. PICK i \in 1 .. Len(s) : q = s[i]  BY <1>2, <1>4, <2>3
    <3> QED  BY <2>2, <2>3, <3>1
  <2>4. CASE q \in list /\ PrevOf(f, q) = Null  BY <1>10, <1>11, <2>1, <2>4
  <2>5. CASE q \in rest
    <3>1. PICK x \in list : Follows(x, q)  BY <2>5
    <3>2. o[x] = NoRoom /\ x \in cell_ptr  BY <1>2, <1>4, <1>6
    <3>3. NeverWritten(f, o, x) /\ Precedes(x, q)
      BY <3>1, <3>2 DEF NeverWritten, PrevOf, Precedes
    <3>4. NeverWritten(f, o, q)  BY <1>3, <1>11, <2>1, <3>2, <3>3 DEF PoolApart
    <3>5. PrevOf(f, q) = Null  BY <3>4 DEF NeverWritten
    <3> QED  BY <1>10, <1>11, <2>1, <3>1, <3>5
  <2> QED  BY <1>11, <2>1, <2>3, <2>4, <2>5
<1>12. PoolClosed(f, kind, S)  BY <1>11 DEF PoolClosed
<1> HIDE DEF S
<1>13. p \in S  BY <1>8, <1>9, <1>12 DEF PoolLeads, h
<1> QED  BY <1>2, <1>13 DEF S

LEMMA NoneLostAtRest == CInv /\ KInv /\ LInv => NoCellLost
<1> SUFFICES ASSUME CInv, KInv, LInv, AtRest, NEW kind \in CellKind
             PROVE  Cells(file, kind) = LiveCells(file, kind) \cup Handouts(file, kind)
  BY DEF NoCellLost
<1>1. ~ Down /\ ~ Updating /\ Place = "idle"  BY DEF AtRest, Down, Updating, Place
<1>2. /\ file \in File /\ ctrl_block = file[0] /\ ctrl_block.head[kind] \in cell_ptr
      /\ file[0].type = "CONTROL"
  BY <1>1, Unfold DEF CInv, ControlCoherent, Pool, IInv, ControlBlock
<1>3. PICK o \in Owners : Held(kind, o)  BY <1>1 DEF KInv, MemCells, AllHeld
<1>4. /\ ChainsApart(file, kind, o) /\ PoolApart(file, kind, file[0].head[kind], o)
      /\ ~ IsCell(file, kind, Null)
  BY <1>2, <1>3 DEF Held, Shared, ChainsApart
<1>5. ASSUME NEW p \in Cells(file, kind)
      PROVE  p \in LiveCells(file, kind) \cup Handouts(file, kind)
  <2>1. p \in cell_ptr /\ IsCell(file, kind, p) /\ p # NoRoom
    BY <1>5, PtrOfCell, CellPlace DEF Cells
  <2>2. ~ InHand(kind, p)  BY <1>1 DEF InHand, HeldPCs
  <2>3. Placed(file, kind, file[0].head[kind], p)
    BY <1>1, <1>2, <2>1, <2>2 DEF LInv, NoneLostOf
  <2>4. CASE PoolLeads(file, kind, file[0].head[kind], p)
    BY <1>2, <1>4, <2>1, <2>4, HandoutsHas
  <2>5. CASE InSomeChain(file, kind, p)
    <3>1. PICK n \in cell_ptr : InUse(file, n) /\ ChainLeads(file, kind, LastOf(file, kind, n), p)
      BY <2>5 DEF InSomeChain
    <3>2. p \in ChainSet(file, kind, LastOf(file, kind, n))
      BY <1>2, <1>4, <2>1, <3>1, ChainHas
    <3>3. n \in NodesInUse(file)  BY <1>2, <3>1, PtrOfNode DEF NodesInUse, InUse
    <3> QED  BY <3>2, <3>3 DEF LiveCells, LastOf
  <2> QED  BY <2>3, <2>4, <2>5 DEF Placed
<1>6. ASSUME NEW q \in cell_ptr, NEW p \in ChainSet(file, kind, q)
      PROVE  p \in Cells(file, kind)
  <2> DEFINE s == Chain(file, kind, q)
  <2>1. IsChain(file, kind, q, MaxChain(kind) + 1, s)  BY <1>2, ChainIs
  <2>2. ChainSet(file, kind, q) = {s[i] : i \in DOMAIN s}  BY DEF ChainSet
  <2> HIDE DEF s
  <2>3. ReadFrom(file, kind, q, s) /\ DOMAIN s = 1 .. Len(s)
    BY <2>1 DEF IsChain, ReadFrom
  <2>4. p \in cell_ptr /\ IsCell(file, kind, p)  BY <1>6, <2>2, <2>3, ReadCell
  <2> QED  BY <1>2, <2>4, CellAmong
<1>7. ASSUME NEW p \in LiveCells(file, kind)  PROVE p \in Cells(file, kind)
  <2>1. PICK n \in NodesInUse(file) : p \in ChainSet(file, kind, LastOf(file, kind, n))
    BY <1>7 DEF LiveCells, LastOf
  <2>2. LastOf(file, kind, n) \in cell_ptr
    BY <1>2, LastType DEF NodesInUse
  <2> QED  BY <1>6, <2>1, <2>2
<1>8. ASSUME NEW p \in Handouts(file, kind)  PROVE p \in Cells(file, kind)
  BY <1>2, <1>6, <1>8 DEF Handouts
<1> QED  BY <1>5, <1>7, <1>8

(* No cell is lost: what no node uses will be handed out again, for every  *)
(* size of the file and every command (create_X_cell and update_node_X,    *)
(* which link a cell they took, remove_X and free_X_cell, which give it    *)
(* back, delete_nodes, which empties the chains of a node before it frees  *)
(* it), when nobody kills the process and it is not stopped with a cell    *)
(* in its hands, as long as the first node of the file stays and no        *)
(* command takes two cells out of one chain.                               *)
THEOREM NoCellLostHolds ==
  ASSUME NoLossPoints
  PROVE  Spec /\ []FirstNodeStays /\ []OneCellEach => []NoCellLost
<1>1. CellSafePoints  BY DEF NoLossPoints, CellSafePoints
<1>2. Spec /\ []FirstNodeStays /\ []OneCellEach => [](CInv /\ BInv /\ NInv /\ KInv)
  BY <1>1, CellsInvariant
<1>3. Init => CInv /\ RelateInv  BY InitiallyCoherent
<1>4. CInv /\ RelateInv /\ [Next]_vars => (CInv /\ RelateInv)'  BY InductiveCoherent
<1>5. /\ Init => LInv /\ EInv
      /\ CInv /\ RelateInv /\ BInv /\ NInv /\ KInv /\ LInv /\ EInv
           /\ OneCellEach' /\ [Next]_vars => (LInv /\ EInv)'
  BY InductiveLost
<1> QED  BY <1>2, <1>3, <1>4, <1>5, NoneLostAtRest, PTL DEF Spec
=============================================================================
