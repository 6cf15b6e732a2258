------------------------------- MODULE Layout -------------------------------
(***************************************************************************)
(* The contents of the data file: cells.h and blocks.h.                    *)
(*                                                                         *)
(* The file is an array of blocks of BLOCK_SIZE bytes.  Block 0 is the     *)
(* control block; every other block that was allocated holds node cells,   *)
(* label cells, attribute cells, relation cells or strings, as its type    *)
(* says.  A cell is addressed by its block and its offset in the block.    *)
(* How many cells fit in a block is a parameter here (the sizeof           *)
(* arithmetic of blocks.h gives 51, 53, 85, 56 and 56).                    *)
(***************************************************************************)
EXTENDS Integers, Sequences

CONSTANTS
  MAX_BLOCKS,              \* bound: the blocks the modelled file can grow to
  NODES_IN_CONTROL_BLOCK,
  NODES_IN_BLOCK,
  LABELS_IN_BLOCK,
  ATTRIBUTES_IN_BLOCK,
  RELATIONS_IN_BLOCK,
  STRING_DATA,             \* the bytes of str_block.data (1020 in blocks.h)
  String,                  \* the strings clients use
  strlen,                  \* their lengths
  Unwritten                \* string data that was never written

ASSUME LayoutAssumption ==
  /\ MAX_BLOCKS \in Nat \ {0}
  /\ NODES_IN_CONTROL_BLOCK \in Nat \ {0}
  /\ NODES_IN_BLOCK \in Nat \ {0}
  /\ LABELS_IN_BLOCK \in Nat \ {0}
  /\ ATTRIBUTES_IN_BLOCK \in Nat \ {0}
  /\ RELATIONS_IN_BLOCK \in Nat \ {0}
  /\ STRING_DATA \in Nat \ {0}
  /\ strlen \in [String -> Nat]
  /\ Unwritten \notin String

Block == 0 .. MAX_BLOCKS - 1

(* cell_ptr.  A zeroed pointer means "none"; block -1 ends a free list.    *)
cell_ptr == [block_num : -1 .. MAX_BLOCKS - 1, offset : Nat]
Ptr(b, o) == [block_num |-> b, offset |-> o]
Null == Ptr(0, 0)
NoRoom == Ptr(-1, 0)

(* The three kinds of cell a node chains, and the five kinds of block that *)
(* allocate_new_block hands out.                                           *)
CellKind == {"LABEL", "ATTRIBUTE", "RELATION"}
Pool == CellKind \cup {"NODE", "STRING"}

(* label_cell, attribute_cell and relation_cell share a form: prev links   *)
(* the chain; name is the label's name, the attribute's key or the         *)
(* relation's name; value is the attribute's value or the relation's       *)
(* node_b, and stays zero in a label.                                      *)
cell == [prev : cell_ptr, name : cell_ptr, value : cell_ptr]
ZeroCell == [prev |-> Null, name |-> Null, value |-> Null]

(* node_cell.  is_empty is 1 in a node that is in USE: the field's name in *)
(* cells.h says the opposite of what node.c:16 and node.c:117 store.       *)
node_cell == [is_empty : {0, 1}, last : [CellKind -> cell_ptr]]
ZeroNode == [is_empty |-> 0, last |-> [k \in CellKind |-> Null]]

CellsIn(kind) == CASE kind = "LABEL"     -> LABELS_IN_BLOCK
                   [] kind = "ATTRIBUTE" -> ATTRIBUTES_IN_BLOCK
                   [] OTHER              -> RELATIONS_IN_BLOCK
NodesIn(b) == IF b = 0 THEN NODES_IN_CONTROL_BLOCK ELSE NODES_IN_BLOCK

(* The block types.  A control block pairs, for each pool, the fields      *)
(* fragmented_X_block and empty_X_number (empty_string_offset): head[X] is *)
(* the next cell of X to hand out.                                         *)
control_block ==
  [type : {"CONTROL"}, prev_node_block : Block, empty_block : 1 .. MAX_BLOCKS,
   head : [Pool -> cell_ptr], nodes : [0 .. NODES_IN_CONTROL_BLOCK - 1 -> node_cell]]
node_block ==
  [type : {"NODE"}, prev_block : Block, nodes : [0 .. NODES_IN_BLOCK - 1 -> node_cell]]
cell_block(kind) ==
  [type : {kind}, cells : [0 .. CellsIn(kind) - 1 -> cell]]
str_block ==
  [type : {"STRING"}, data : [0 .. STRING_DATA - 1 -> String \cup {Unwritten}]]
absent_block == [type : {"ABSENT"}]
Absent == [type |-> "ABSENT"]

block == control_block \cup node_block \cup str_block \cup absent_block
           \cup cell_block("LABEL") \cup cell_block("ATTRIBUTE") \cup cell_block("RELATION")

(* A zeroed block of the given type, as allocate_new_block writes it.      *)
ZeroBlock(type) ==
  CASE type = "NODE"   -> [type |-> "NODE", prev_block |-> 0,
                           nodes |-> [o \in 0 .. NODES_IN_BLOCK - 1 |-> ZeroNode]]
    [] type = "STRING" -> [type |-> "STRING",
                           data |-> [o \in 0 .. STRING_DATA - 1 |-> Unwritten]]
    [] OTHER           -> [type |-> type,
                           cells |-> [o \in 0 .. CellsIn(type) - 1 |-> ZeroCell]]

(* What a pointer has to be for the code to dereference it as a node, a    *)
(* cell or a string: the code never checks, it reads whatever bytes are    *)
(* there.                                                                  *)
IsNode(f, p) ==
  /\ p.block_num \in Block
  /\ f[p.block_num].type \in {"CONTROL", "NODE"}
  /\ p.offset \in 0 .. NodesIn(p.block_num) - 1
  /\ f[p.block_num].type = "CONTROL" <=> p.block_num = 0
IsCell(f, kind, p) ==
  /\ p.block_num \in Block
  /\ f[p.block_num].type = kind
  /\ p.offset \in 0 .. CellsIn(kind) - 1
IsString(f, p) ==
  /\ p.block_num \in Block
  /\ f[p.block_num].type = "STRING"
  /\ p.offset \in 0 .. STRING_DATA - 1
  /\ f[p.block_num].data[p.offset] # Unwritten

(* What is read there; bytes that are not a string read as Unwritten.      *)
NodeAt(f, p) == f[p.block_num].nodes[p.offset]
CellAt(f, p) == f[p.block_num].cells[p.offset]
StringAt(f, p) == IF IsString(f, p) THEN f[p.block_num].data[p.offset] ELSE Unwritten

(* fill_block, memcpy of one cell, update_data_block.                      *)
WriteNode(f, p, n) == [f EXCEPT ![p.block_num].nodes[p.offset] = n]
WriteCell(f, p, c) == [f EXCEPT ![p.block_num].cells[p.offset] = c]
WriteString(f, p, s) == [f EXCEPT ![p.block_num].data[p.offset] = s]

(* Every address a node or a cell can have, whatever the block holds.      *)
NodePtr == {Ptr(b, o) : b \in {0}, o \in 0 .. NODES_IN_CONTROL_BLOCK - 1}
             \cup {Ptr(b, o) : b \in Block \ {0}, o \in 0 .. NODES_IN_BLOCK - 1}
CellPtr(kind) == {Ptr(b, o) : b \in Block \ {0}, o \in 0 .. CellsIn(kind) - 1}
=============================================================================
