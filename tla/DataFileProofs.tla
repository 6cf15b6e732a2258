--------------------------- MODULE DataFileProofs ---------------------------
(***************************************************************************)
(* Theorems about DataFile for every size of the blocks and of the file,   *)
(* every set of strings and of commands, and every point of a kill.        *)
(***************************************************************************)
EXTENDS DataFile, FiniteSetTheorems, TLAPS

-----------------------------------------------------------------------------
(* Reading and writing one node, cell or string of a file.                 *)
File == [Block -> block]

(* The type of a block tells its form.                                     *)
LEMMA BlockForm ==
  ASSUME NEW b \in block
  PROVE  /\ b.type = "CONTROL" => b \in control_block
         /\ b.type = "NODE" => b \in node_block
         /\ b.type = "STRING" => b \in str_block
         /\ \A kind \in CellKind : b.type = kind => b \in cell_block(kind)
BY DEF block, control_block, node_block, str_block, absent_block, cell_block, CellKind

LEMMA BlockKinds ==
  /\ control_block \subseteq block
  /\ node_block \subseteq block
  /\ str_block \subseteq block
  /\ \A kind \in CellKind : cell_block(kind) \subseteq block
BY DEF block, CellKind

LEMMA NodeAtType ==
  ASSUME NEW f \in File, NEW p, IsNode(f, p)
  PROVE  NodeAt(f, p) \in node_cell
<1>1. f[p.block_num] \in block  BY DEF File, IsNode
<1>2. CASE p.block_num = 0
  <2>1. f[0] \in control_block  BY <1>1, <1>2, BlockForm DEF IsNode
  <2>2. p.offset \in 0 .. NODES_IN_CONTROL_BLOCK - 1  BY <1>2 DEF IsNode, NodesIn
  <2> QED  BY <1>2, <2>1, <2>2 DEF NodeAt, control_block
<1>3. CASE p.block_num # 0
  <2>1. f[p.block_num] \in node_block  BY <1>1, <1>3, BlockForm DEF IsNode
  <2>2. p.offset \in 0 .. NODES_IN_BLOCK - 1  BY <1>3 DEF IsNode, NodesIn
  <2> QED  BY <2>1, <2>2 DEF NodeAt, node_block
<1> QED  BY <1>2, <1>3

LEMMA CellAtType ==
  ASSUME NEW f \in File, NEW kind \in CellKind, NEW p, IsCell(f, kind, p)
  PROVE  CellAt(f, p) \in cell
<1>1. f[p.block_num] \in cell_block(kind)  BY BlockForm DEF File, IsCell
<1> QED  BY <1>1 DEF IsCell, CellAt, cell_block

LEMMA StringAtType ==
  ASSUME NEW f \in File, NEW p, IsString(f, p)
  PROVE  StringAt(f, p) \in String
<1>1. f[p.block_num] \in str_block  BY BlockForm DEF File, IsString
<1> QED  BY <1>1 DEF IsString, StringAt, str_block

(* A write changes one block, whose type it keeps.                         *)
WritesBlock(f, g, n) ==
  /\ g \in File
  /\ \A b \in Block : g[b].type = f[b].type
  /\ \A b \in Block : b # n => g[b] = f[b]

LEMMA WriteNodeType ==
  ASSUME NEW f \in File, NEW p, IsNode(f, p), NEW n \in node_cell
  PROVE  WritesBlock(f, WriteNode(f, p, n), p.block_num)
<1> DEFINE b == p.block_num
           old == f[b]
           new == [old EXCEPT !.nodes[p.offset] = n]
<1>1. b \in Block /\ old \in block  BY DEF File, IsNode
<1>2. WriteNode(f, p, n) = [f EXCEPT ![b] = new]  BY <1>1 DEF WriteNode, File
<1>3. new \in block /\ new.type = old.type
  <2>1. CASE b = 0
    <3>1. old \in control_block  BY <1>1, <2>1, BlockForm DEF IsNode
    <3>2. p.offset \in 0 .. NODES_IN_CONTROL_BLOCK - 1  BY <2>1 DEF IsNode, NodesIn
    <3>3. new \in control_block /\ new.type = old.type  BY <3>1, <3>2 DEF control_block
    <3> QED  BY <3>3, BlockKinds
  <2>2. CASE b # 0
    <3>1. old \in node_block  BY <1>1, <2>2, BlockForm DEF IsNode
    <3>2. p.offset \in 0 .. NODES_IN_BLOCK - 1  BY <2>2 DEF IsNode, NodesIn
    <3>3. new \in node_block /\ new.type = old.type  BY <3>1, <3>2 DEF node_block
    <3> QED  BY <3>3, BlockKinds
  <2> QED  BY <2>1, <2>2
<1> HIDE DEF old, new
<1> QED  BY <1>1, <1>2, <1>3 DEF WritesBlock, File, old

LEMMA WriteCellType ==
  ASSUME NEW f \in File, NEW kind \in CellKind, NEW p, IsCell(f, kind, p), NEW c \in cell
  PROVE  WritesBlock(f, WriteCell(f, p, c), p.block_num)
<1> DEFINE b == p.block_num
           old == f[b]
           new == [old EXCEPT !.cells[p.offset] = c]
<1>1. b \in Block /\ old \in block  BY DEF File, IsCell
<1>2. WriteCell(f, p, c) = [f EXCEPT ![b] = new]  BY <1>1 DEF WriteCell, File
<1>3. new \in block /\ new.type = old.type
  <2>1. old \in cell_block(kind)  BY <1>1, BlockForm DEF IsCell
  <2>2. new \in cell_block(kind) /\ new.type = old.type  BY <2>1 DEF cell_block, IsCell
  <2> QED  BY <2>2, BlockKinds
<1> HIDE DEF old, new
<1> QED  BY <1>1, <1>2, <1>3 DEF WritesBlock, File, old

LEMMA WriteStringType ==
  ASSUME NEW f \in File, NEW p, p.block_num \in Block, f[p.block_num].type = "STRING",
         NEW s \in String
  PROVE  WritesBlock(f, WriteString(f, p, s), p.block_num)
<1> DEFINE b == p.block_num
           old == f[b]
           new == [old EXCEPT !.data[p.offset] = s]
<1>1. b \in Block /\ old \in block  BY DEF File
<1>2. WriteString(f, p, s) = [f EXCEPT ![b] = new]  BY <1>1 DEF WriteString, File
<1>3. new \in block /\ new.type = old.type
  <2>1. old \in str_block  BY <1>1, BlockForm
  <2>2. new \in str_block /\ new.type = old.type  BY <2>1 DEF str_block
  <2> QED  BY <2>2, BlockKinds
<1> HIDE DEF old, new
<1> QED  BY <1>1, <1>2, <1>3 DEF WritesBlock, File, old

LEMMA ZeroTypes == Null \in cell_ptr /\ NoRoom \in cell_ptr /\ ZeroCell \in cell /\ ZeroNode \in node_cell
BY LayoutAssumption DEF Null, NoRoom, Ptr, ZeroCell, ZeroNode, cell, node_cell, cell_ptr

LEMMA ZeroBlockType ==
  ASSUME NEW type \in Pool
  PROVE  ZeroBlock(type) \in block
<1>1. CASE type = "NODE"
  BY <1>1, ZeroTypes, BlockKinds, LayoutAssumption DEF ZeroBlock, node_block, Block
<1>2. CASE type = "STRING"
  BY <1>2, BlockKinds DEF ZeroBlock, str_block
<1>3. CASE type \in CellKind
  BY <1>3, ZeroTypes, BlockKinds DEF ZeroBlock, cell_block, CellKind
<1> QED  BY <1>1, <1>2, <1>3 DEF Pool

-----------------------------------------------------------------------------
(* Pieces of the executor's state.                                         *)
LEMMA JobType ==
  ASSUME NEW jobs \in Seq(Job), jobs # << >>
  PROVE  /\ Head(jobs) \in Job
         /\ Tail(jobs) \in Seq(Job)
         /\ Head(jobs).kind \in CellKind
         /\ Head(jobs).op \in {"add", "put", "relate", "remove", "free"}
         /\ Head(jobs).op \in {"add", "put"} =>
              /\ Texts(Head(jobs)) \in Seq(String)
              /\ Len(Texts(Head(jobs))) = IF Head(jobs).kind = "LABEL" THEN 1 ELSE 2
         /\ Head(jobs).op = "put" =>
              /\ Head(jobs).kind = "ATTRIBUTE"
              /\ Head(jobs).value \in String
         /\ Head(jobs).op \in {"add", "put"} => Head(jobs).kind \in {"LABEL", "ATTRIBUTE"}
         /\ Head(jobs).op = "relate" => Head(jobs).kind = "RELATION"
<1>1. Head(jobs) \in Job /\ Tail(jobs) \in Seq(Job)  OBVIOUS
<1> DEFINE j == Head(jobs)
<1>2. j \in Job  BY <1>1
<1> HIDE DEF j
<1>3. /\ j.kind \in CellKind
      /\ j.op \in {"add", "put", "relate", "remove", "free"}
      /\ j.op \in {"add", "put"} => j.kind \in {"LABEL", "ATTRIBUTE"}
      /\ j.op = "relate" => j.kind = "RELATION"
      /\ j.op \in {"add", "put"} => j.name \in String /\ (j.kind = "ATTRIBUTE" => j.value \in String)
      /\ j.op = "put" => j.kind = "ATTRIBUTE" /\ j.value \in String
  BY <1>2 DEF Job, CellKind
<1>4. j.op \in {"add", "put"} =>
        /\ Texts(j) \in Seq(String)
        /\ Len(Texts(j)) = IF j.kind = "LABEL" THEN 1 ELSE 2
  BY <1>3 DEF Texts
<1> QED  BY <1>1, <1>3, <1>4 DEF j

LEMMA JobsType ==
  ASSUME NEW info \in Commands
  PROVE  Jobs(info) \in Seq(Job)
<1>1. info \in query_info  BY CommandsAssumption
<1>2. ASSUME NEW op \in {"add", "remove"}, NEW ls \in Seq(String)
      PROVE  LabelJobs(op, ls) \in Seq(Job)
  BY <1>2 DEF LabelJobs, LabelJob, Job, CellKind
<1>3. ASSUME NEW op \in {"add", "put", "remove"}, NEW ps \in Seq(property)
      PROVE  PropJobs(op, ps) \in Seq(Job)
  <2>1. ASSUME NEW p \in property  PROVE PropJob(op, p) \in Job
    <3>1. p.key \in String /\ p.value \in String  BY DEF property
    <3>2. CASE op = "remove"  BY <3>1, <3>2 DEF PropJob, Job, CellKind
    <3>3. CASE op # "remove"  BY <1>3, <3>1, <3>3 DEF PropJob, Job
    <3> QED  BY <3>2, <3>3
  <2> QED  BY <2>1 DEF PropJobs
<1>4. delete_nodes \in Seq(Job)  BY DEF delete_nodes, AllOf, Job, CellKind
<1>5. /\ info.labels \in Seq(String) /\ info.props \in Seq(property)
      /\ info.changed_labels \in Seq(String) /\ info.changed_props \in Seq(property)
      /\ info.rel_name \in String
  BY <1>1 DEF query_info
<1>6. \A s, t \in Seq(Job) : s \o t \in Seq(Job)  OBVIOUS
<1>7. \A op \in {"relate", "remove"} : RelationJob(op, info.rel_name) \in Job
  BY <1>5 DEF RelationJob, Job, CellKind
<1>8. CASE info.command_type = "create"
  <2>1. CASE info.has_relation
    BY <1>7, <1>8, <2>1 DEF Jobs
  <2>2. CASE ~ info.has_relation
    <3>1. LabelJobs("add", info.labels) \in Seq(Job) /\ PropJobs("add", info.props) \in Seq(Job)
      BY <1>2, <1>3, <1>5
    <3> QED  BY <1>6, <1>8, <2>2, <3>1 DEF Jobs
  <2> QED  BY <2>1, <2>2
<1>9. CASE info.command_type = "set"
  <2>1. /\ LabelJobs("add", info.changed_labels) \in Seq(Job)
        /\ PropJobs("put", info.changed_props) \in Seq(Job)
    BY <1>2, <1>3, <1>5
  <2> QED  BY <1>6, <1>9, <2>1 DEF Jobs
<1>10. CASE info.command_type = "remove"
  <2>1. /\ LabelJobs("remove", info.changed_labels) \in Seq(Job)
        /\ PropJobs("remove", info.changed_props) \in Seq(Job)
    BY <1>2, <1>3, <1>5
  <2> QED  BY <1>6, <1>10, <2>1 DEF Jobs
<1>11. CASE info.command_type \notin {"create", "set", "remove"}
  <2>1. Jobs(info) = IF info.has_relation THEN << RelationJob("remove", info.rel_name) >>
                     ELSE delete_nodes
    BY <1>11 DEF Jobs
  <2> QED  BY <1>4, <1>7, <2>1
<1> QED  BY <1>8, <1>9, <1>10, <1>11

(* The next cell a pool hands out has an address of the right type.        *)
LEMMA HeadAfterType ==
  ASSUME NEW h \in cell_ptr, NEW link \in cell_ptr, NEW capacity \in Nat
  PROVE  HeadAfter(h, link, capacity) \in cell_ptr
BY ZeroTypes, LayoutAssumption DEF HeadAfter, cell_ptr, Ptr

LEMMA PtrTypes ==
  /\ NodePtr \subseteq cell_ptr
  /\ IsFiniteSet(NodePtr)
<1> DEFINE S == Block \X (0 .. NODES_IN_CONTROL_BLOCK + NODES_IN_BLOCK)
           to == [x \in S |-> Ptr(x[1], x[2])]
           T == {to[x] : x \in S}
<1>1. NodePtr \subseteq cell_ptr
  BY LayoutAssumption DEF NodePtr, cell_ptr, Ptr, Block
<1>2. IsFiniteSet(S)
  <2>1. IsFiniteSet(Block)  BY FS_Interval, LayoutAssumption DEF Block
  <2>2. IsFiniteSet(0 .. NODES_IN_CONTROL_BLOCK + NODES_IN_BLOCK)
    BY FS_Interval, LayoutAssumption
  <2> QED  BY <2>1, <2>2, FS_Product
<1>3. to \in Surjection(S, T)  BY DEF Surjection
<1>4. IsFiniteSet(T)  BY <1>2, <1>3, FS_Surjection
<1>5. NodePtr \subseteq T
  <2> SUFFICES ASSUME NEW p \in NodePtr  PROVE p \in T
    OBVIOUS
  <2>1. PICK b \in Block, o \in 0 .. NODES_IN_CONTROL_BLOCK + NODES_IN_BLOCK : p = Ptr(b, o)
    BY LayoutAssumption DEF NodePtr, Block
  <2>2. <<b, o>> \in S /\ to[<<b, o>>] = p  BY <2>1
  <2> QED  BY <2>2
<1> QED  BY <1>1, <1>4, <1>5, FS_Subset

LEMMA MatchedType ==
  ASSUME NEW info
  PROVE  \A nodes \in {Matched(file, info), Like(file, info.labels, info.props),
                        Seconds(file, info)} :
           nodes \subseteq cell_ptr /\ Cardinality(nodes) \in Nat
<1>1. /\ Matched(file, info) \subseteq NodePtr
      /\ Like(file, info.labels, info.props) \subseteq NodePtr
      /\ Seconds(file, info) \subseteq NodePtr
  BY DEF Matched, Like, Seconds, ScannedNodes
<1> QED  BY <1>1, PtrTypes, FS_Subset, FS_CardinalityType

-----------------------------------------------------------------------------
(* The inductive invariant: the types, that block 0 of a running program   *)
(* is the control block, and what each program counter says of the         *)
(* executor.  InOp(pcs) holds at the steps pcs and at the writes of the    *)
(* control block that return to one of them.                               *)
InOp(pcs) == exec.pc \in pcs \/ (Updating /\ exec.ret \in pcs)
StringPCs == {"create_string_cell", "string_in_new_block"}
JobPCs == StringPCs \cup {"create_cell", "update_node", "find_node_attribute", "write_value",
                          "next_second", "remove", "free_cell", "free_node"}
CellTexts == IF job.kind = "ATTRIBUTE" THEN 2 ELSE 1

ControlBlock == ~ Down => file[0].type = "CONTROL"
ExecOK ==
  /\ InOp(JobPCs) => exec.jobs # << >>
  /\ InOp({"find_node_attribute"}) => job.op = "put"
  /\ InOp(StringPCs) =>
       /\ exec.texts # << >>
       /\ exec.current = Null => Len(exec.strings) + Len(exec.texts) >= CellTexts
  /\ InOp({"create_cell"}) => Len(exec.strings) >= CellTexts
  /\ InOp({"write_value"}) => Len(exec.strings) >= 1
IInv == TypeOK /\ ControlBlock /\ ExecOK

(* The name of the relations to create is stored once, before the loops    *)
(* over the nodes, and is there whenever a relation's cell is written.     *)
Place == IF Updating THEN exec.ret ELSE exec.pc
RelateInv ==
  /\ \A i \in 2 .. Len(exec.jobs) : exec.jobs[i].op # "relate"
  /\ Place = "next_second" => job.op = "relate"
  /\ Place \in StringPCs \cup {"create_cell", "update_node"} => job.op \in {"add", "put", "relate"}
  /\ exec.jobs # << >> /\ job.op = "relate" /\ ~ Down /\ Place \notin StringPCs =>
       Len(exec.strings) >= 1

-----------------------------------------------------------------------------
(* Every step preserves IInv: first those of the allocator.                *)

(* What IInv says of the variables, unfolded once for all.                 *)
LEMMA Unfold ==
  ASSUME IInv
  PROVE  /\ file \in File /\ disk \in File /\ ctrl_block \in control_block
         /\ exec \in exec_type
         /\ \A pool \in Pool : ctrl_block.head[pool] \in cell_ptr
         /\ ctrl_block.empty_block \in 1 .. MAX_BLOCKS
         /\ ctrl_block.prev_node_block \in Block
BY DEF IInv, TypeOK, File, control_block

(* A step that leaves the file and the memory copy of block 0 alone, or    *)
(* flushes them, has only the executor to show for.                        *)
LEMMA ReadOnlyStep ==
  ASSUME IInv, exec' \in exec_type, ~ Down, ExecOK', UNCHANGED <<file, ctrl_block>>,
         disk' \in {disk, file}
  PROVE  IInv'
BY DEF IInv, TypeOK, ControlBlock

LEMMA WildStep ==
  ASSUME IInv, Wild
  PROVE  IInv'
<1>1. exec' \in exec_type  BY Unfold DEF Wild, exec_type, PC
<1>2. exec'.pc = "wild"  BY Unfold DEF Wild, exec_type
<1> QED  BY <1>1, <1>2 DEF IInv, TypeOK, ControlBlock, ExecOK, Wild, Down, InOp, Updating,
              JobPCs, StringPCs

(* A step that writes one block of the file, keeping its type.             *)
LEMMA WriteStep ==
  ASSUME IInv, ~ Down, NEW n, WritesBlock(file, file', n), ctrl_block' \in control_block,
         disk' \in {file, file'}, exec' \in exec_type, ExecOK'
  PROVE  IInv'
<1>1. 0 \in Block  BY LayoutAssumption DEF Block
<1> QED  BY <1>1, Unfold DEF IInv, TypeOK, ControlBlock, WritesBlock, File

(* ExecOK depends on the program counter through InOp alone.               *)
SamePlace(ret) == \A pcs \in {JobPCs, StringPCs, {"find_node_attribute"}, {"create_cell"},
                              {"write_value"}} : ret \in pcs => InOp(pcs)
SameData == exec' = [exec EXCEPT !.pc = exec'.pc, !.ret = exec'.ret]

LEMMA ExecKept ==
  ASSUME IInv, SameData, NEW ret, SamePlace(ret),
         exec'.ret = ret, exec'.pc = ret \/ Updating'
  PROVE  ExecOK'
<1>1. /\ exec'.jobs = exec.jobs /\ exec'.texts = exec.texts
      /\ exec'.strings = exec.strings /\ exec'.current = exec.current
  BY Unfold DEF SameData, exec_type
<1>2. Updating' => exec'.pc \notin JobPCs
  BY DEF Updating, JobPCs, StringPCs
<1>3. \A pcs \in {JobPCs, StringPCs, {"find_node_attribute"}, {"create_cell"}, {"write_value"}} :
        InOp(pcs)' => InOp(pcs)
  <2>1. ASSUME NEW pcs, pcs \subseteq JobPCs, InOp(pcs)'  PROVE ret \in pcs
    BY <1>2, <2>1 DEF InOp
  <2>2. \A pcs \in {JobPCs, StringPCs, {"find_node_attribute"}, {"create_cell"}, {"write_value"}} :
          pcs \subseteq JobPCs
    BY DEF JobPCs, StringPCs
  <2> QED  BY <2>1, <2>2 DEF SamePlace
<1> QED  BY <1>1, <1>3 DEF IInv, ExecOK, CellTexts, job

LEMMA UpdateControlBlock ==
  ASSUME IInv, update_control_block
  PROVE  IInv'
<1>1. exec' \in exec_type /\ SameData /\ exec'.pc = exec.ret /\ exec'.ret = exec.ret
  BY Unfold DEF update_control_block, exec_type, SameData
<1>2. file' \in File /\ file'[0].type = "CONTROL"
  BY Unfold, BlockKinds, LayoutAssumption DEF update_control_block, File, Block, control_block
<1>3. ExecOK'
  <2>1. SamePlace(exec.ret)  BY DEF SamePlace, InOp, Updating, update_control_block
  <2> QED  BY <1>1, <2>1, ExecKept
<1> QED
  BY <1>1, <1>2, <1>3, Unfold
  DEF update_control_block, LastWriteUnflushed, IInv, TypeOK, ControlBlock, File

LEMMA AllocateNewBlock ==
  ASSUME IInv, ~ Down, NEW type \in Pool, NEW ret \in PC, allocate_new_block(type, ret),
         SamePlace(ret)
  PROVE  IInv'
<1> DEFINE b == ctrl_block.empty_block
           h == Ptr(b, ctrl_block.head[type].offset)
<1>1. b \in Block /\ b # 0 /\ b + 1 \in 1 .. MAX_BLOCKS /\ h \in cell_ptr
  BY Unfold, LayoutAssumption DEF allocate_new_block, Block, cell_ptr, Ptr
<1>2. file' \in File /\ file'[0] = file[0]
  BY <1>1, Unfold, ZeroBlockType DEF allocate_new_block, File
<1>3. ctrl_block' \in control_block
  <2>1. [ctrl_block EXCEPT !.head[type] = h] \in control_block
    BY <1>1, Unfold DEF control_block
  <2>2. [ctrl_block EXCEPT !.head[type] = h, !.empty_block = b + 1,
           !.prev_node_block = IF type = "NODE" THEN b ELSE @] \in control_block
    BY <1>1, Unfold DEF control_block
  <2> QED  BY <2>1, <2>2 DEF allocate_new_block
<1>4. exec' \in exec_type /\ SameData /\ exec'.ret = ret /\ Updating'
  <2>1. PICK pc \in {"chain_node_block", "update_control_block"} :
          exec' = [exec EXCEPT !.pc = pc, !.ret = ret]
    BY DEF allocate_new_block, UpdateControlThen
  <2> QED  BY <2>1, Unfold DEF exec_type, SameData, Updating, PC
<1>5. ExecOK'  BY <1>4, ExecKept
<1>6. disk' = file  BY DEF allocate_new_block, LastWriteUnflushed
<1> QED
  BY <1>2, <1>3, <1>4, <1>5, <1>6, Unfold DEF IInv, TypeOK, ControlBlock, File

LEMMA ChainNodeBlock ==
  ASSUME IInv, chain_node_block
  PROVE  IInv'
<1> DEFINE b == ctrl_block.empty_block
           new == [ZeroBlock("NODE") EXCEPT !.prev_block = ctrl_block.prev_node_block]
<1>1. b \in Block /\ b # 0
  BY Unfold, LayoutAssumption DEF chain_node_block, Block
<1>2. new \in block
  <2>1. ZeroBlock("NODE") \in node_block
    BY ZeroTypes, LayoutAssumption DEF ZeroBlock, node_block, Block
  <2>2. new \in node_block  BY <2>1, Unfold DEF node_block
  <2> QED  BY <2>2, BlockKinds
<1>3. file' \in File /\ file'[0] = file[0]
  BY <1>1, <1>2, Unfold DEF chain_node_block, File
<1>4. ctrl_block' \in control_block
  BY <1>1, Unfold DEF chain_node_block, control_block
<1>5. exec' \in exec_type /\ SameData /\ exec'.ret = exec.ret /\ Updating' /\ ~ Down
  BY Unfold DEF chain_node_block, exec_type, SameData, Updating, PC, Down
<1>6. ExecOK'
  <2>1. SamePlace(exec.ret)  BY DEF SamePlace, InOp, Updating, chain_node_block
  <2> QED  BY <1>5, <2>1, ExecKept
<1> QED
  BY <1>3, <1>4, <1>5, <1>6, Unfold
  DEF chain_node_block, LastWriteUnflushed, IInv, TypeOK, ControlBlock, File

LEMMA ChainUpdateControl ==
  ASSUME IInv, chain_update_control
  PROVE  IInv'
<1>1. exec' \in exec_type /\ SameData /\ exec'.ret = exec.ret /\ Updating'
  BY Unfold DEF chain_update_control, UpdateControlThen, exec_type, SameData, Updating, PC
<1>2. file' \in File /\ file'[0].type = "CONTROL"
  BY Unfold, BlockKinds, LayoutAssumption, SMTT(40)
  DEF chain_update_control, File, Block, control_block
<1>3. ctrl_block' \in control_block
  BY Unfold, LayoutAssumption DEF chain_update_control, control_block
<1>4. ExecOK'
  <2>1. SamePlace(exec.ret)  BY DEF SamePlace, InOp, Updating, chain_update_control
  <2> QED  BY <1>1, <2>1, ExecKept
<1> QED
  BY <1>1, <1>2, <1>3, <1>4, Unfold
  DEF chain_update_control, LastWriteUnflushed, IInv, TypeOK, ControlBlock, File

(* Nodes: created, linked to a new cell, freed.                            *)
LEMMA NextPlace ==
  ASSUME exec'.pc = "update_control_block", exec'.ret = "next"
  PROVE  ExecOK'
BY DEF ExecOK, InOp, Updating, JobPCs, StringPCs

LEMMA CreateNodeCell ==
  ASSUME IInv, create_node_cell
  PROVE  IInv'
<1> DEFINE h == ctrl_block.head["NODE"]
           new == [ZeroNode EXCEPT !.is_empty = 1]
           after == HeadAfter(h, NodeAt(file, h).last["LABEL"], NodesIn(h.block_num))
<1>1. exec.pc = "create_node_cell" /\ ~ Down  BY DEF create_node_cell, Down
<1>2. CASE h.block_num = -1
  <2>1. allocate_new_block("NODE", "create_node_cell")
    BY <1>2 DEF create_node_cell
  <2>2. SamePlace("create_node_cell")  BY DEF SamePlace, JobPCs, StringPCs
  <2> QED  BY <1>1, <2>1, <2>2, AllocateNewBlock DEF Pool, PC
<1>3. CASE Wild  BY <1>3, WildStep
<1>4. CASE h.block_num # -1 /\ IsNode(file, h) /\ ~ Wild
  <2>1. h \in cell_ptr  BY Unfold DEF Pool
  <2>2. new \in node_cell  BY ZeroTypes DEF node_cell
  <2>3. after \in cell_ptr
    <3>1. NodeAt(file, h).last["LABEL"] \in cell_ptr
      BY <1>4, NodeAtType, Unfold DEF node_cell, CellKind
    <3>2. NodesIn(h.block_num) \in Nat  BY LayoutAssumption DEF NodesIn
    <3> QED  BY <2>1, <3>1, <3>2, HeadAfterType
  <2>4. WritesBlock(file, file', h.block_num)
    BY <1>4, <2>2, Unfold, WriteNodeType DEF create_node_cell
  <2>5. ctrl_block' \in control_block
    <3>1. h.block_num = 0 => file'[0] \in control_block
      <4>1. HAVE h.block_num = 0
      <4>2. file'[0] \in block /\ file'[0].type = "CONTROL"
        BY <4>1, <2>4, <1>4 DEF WritesBlock, File, IsNode
      <4> QED  BY <4>2, BlockForm
    <3>2. \E c \in control_block : ctrl_block' = [c EXCEPT !.head["NODE"] = after]
      BY <1>4, <3>1, Unfold DEF create_node_cell
    <3> HIDE DEF after
    <3> QED  BY <3>2, <2>3 DEF control_block
  <2>6. disk' \in {file, file'}
    BY <1>4 DEF create_node_cell, AllFlushed, LastWriteUnflushed
  <2>7. exec' = [exec EXCEPT !.pc = "update_control_block", !.ret = "next",
                             !.matched = {h}, !.left = {h}]
    BY <1>4 DEF create_node_cell
  <2>8. exec' \in exec_type /\ exec'.pc = "update_control_block" /\ exec'.ret = "next"
    BY <2>1, <2>7, Unfold DEF exec_type, PC
  <2> QED  BY <1>1, <2>4, <2>5, <2>6, <2>8, NextPlace, WriteStep
<1> QED  BY <1>2, <1>3, <1>4 DEF create_node_cell

LEMMA UpdateNode ==
  ASSUME IInv, NEW kind \in CellKind, update_node(kind)
  PROVE  IInv'
<1>1. exec.pc = "update_node" /\ ~ Down  BY DEF update_node, Down
<1>2. CASE Wild  BY <1>2, WildStep
<1>3. CASE IsNode(file, exec.node) /\ ~ Wild
  <2> DEFINE p == exec.node
             new == [NodeAt(file, p) EXCEPT !.last[kind] = exec.current]
  <2>1. new \in node_cell
    <3>1. exec.current \in cell_ptr  BY Unfold DEF exec_type
    <3>2. NodeAt(file, p) \in node_cell  BY <1>3, NodeAtType, Unfold
    <3> QED  BY <3>1, <3>2 DEF node_cell
  <2>2. WritesBlock(file, file', p.block_num)
    BY <1>3, <2>1, Unfold, WriteNodeType DEF update_node
  <2>3. ctrl_block' \in control_block
    <3>1. file'[0] \in block /\ file'[0].type = "CONTROL"
      BY <1>1, <2>2, LayoutAssumption DEF WritesBlock, File, Block, IInv, ControlBlock
    <3> QED  BY <1>3, <3>1, BlockForm DEF update_node
  <2>4. PICK pc \in {"next", "next_second"} : exec' = [exec EXCEPT !.pc = pc]
    BY <1>3 DEF update_node
  <2>5. disk' = file'  BY <1>3 DEF update_node, AllFlushed
  <2>6. exec' \in exec_type /\ ExecOK'
    <3>1. exec' \in exec_type /\ exec'.pc = pc /\ exec'.jobs = exec.jobs
      BY <2>4, Unfold DEF exec_type, PC
    <3>2. exec.jobs # << >>  BY <1>1 DEF IInv, ExecOK, InOp, JobPCs
    <3> QED  BY <3>1, <3>2 DEF ExecOK, InOp, Updating, StringPCs, JobPCs
  <2> QED  BY <1>1, <2>2, <2>3, <2>4, <2>5, <2>6, WriteStep
<1> QED  BY <1>2, <1>3 DEF update_node

LEMMA FreeNode ==
  ASSUME IInv, free_node
  PROVE  IInv'
<1> DEFINE p == exec.node
           freed == [NodeAt(file, p) EXCEPT !.is_empty = 0,
                                            !.last["LABEL"] = ctrl_block.head["NODE"]]
<1>1. exec.pc = "free_node" /\ ~ Down  BY DEF free_node, Down
<1>2. CASE Wild  BY <1>2, WildStep
<1>3. CASE IsNode(file, p) /\ ~ Wild
  <2>1. freed \in node_cell
    BY <1>3, NodeAtType, Unfold DEF node_cell, Pool, CellKind
  <2>2. WritesBlock(file, file', p.block_num)
    BY <1>3, <2>1, Unfold, WriteNodeType DEF free_node
  <2>3. ctrl_block' \in control_block
    <3>1. file'[0] \in block /\ file'[0].type = "CONTROL"
      BY <1>1, <2>2, LayoutAssumption DEF WritesBlock, File, Block, IInv, ControlBlock
    <3>2. file'[0] \in control_block  BY <3>1, BlockForm
    <3>3. ctrl_block' = [file'[0] EXCEPT !.head["NODE"] = p]
      BY <1>3 DEF free_node
    <3> QED  BY <3>2, <3>3, Unfold DEF control_block, exec_type
  <2>4. exec' \in exec_type /\ exec'.pc = "update_control_block" /\ exec'.ret = "next"
    <3>1. exec' = [exec EXCEPT !.pc = "update_control_block", !.ret = "next"]
      BY <1>3 DEF free_node
    <3> QED  BY <3>1, Unfold DEF exec_type, PC
  <2>5. disk' = file'  BY <1>3 DEF free_node, AllFlushed
  <2> QED  BY <1>1, <2>2, <2>3, <2>4, <2>5, NextPlace, WriteStep
<1> QED  BY <1>2, <1>3 DEF free_node

(* Strings and cells.                                                      *)
JobsAtHand == exec.jobs # << >> /\ exec.jobs \in Seq(Job)

LEMMA AtHand ==
  ASSUME IInv, exec.pc \in JobPCs
  PROVE  JobsAtHand
BY Unfold DEF IInv, ExecOK, InOp, JobsAtHand, exec_type

(* The string just stored at p joins the addresses of the stored ones.     *)
LEMMA StringStored ==
  ASSUME IInv, exec.pc \in StringPCs, NEW p \in cell_ptr, StringDone(p)
  PROVE  exec' \in exec_type /\ ExecOK'
<1> DEFINE ret == IF Len(exec.texts) > 1 THEN "create_string_cell"
                  ELSE IF job.op = "relate" THEN "next"
                  ELSE IF exec.current # Null THEN "write_value" ELSE "create_cell"
<1>1. /\ exec.texts # << >>
      /\ exec.current = Null => Len(exec.strings) + Len(exec.texts) >= CellTexts
  BY DEF IInv, ExecOK, InOp
<1>2. JobsAtHand  BY AtHand DEF JobPCs
<1>3. /\ exec.texts \in Seq(String) /\ exec.strings \in Seq(cell_ptr)
      /\ Len(exec.texts) \in Nat \ {0} /\ Len(exec.strings) \in Nat
  BY <1>1, Unfold DEF exec_type
<1>4. exec' = [exec EXCEPT !.pc = "update_control_block", !.strings = Append(@, p),
                           !.texts = Tail(@), !.ret = ret]
  BY DEF StringDone
<1>5. exec' \in exec_type
  <2>1. Append(exec.strings, p) \in Seq(cell_ptr) /\ Tail(exec.texts) \in Seq(String)
    BY <1>1, <1>3
  <2>2. ret \in PC  BY DEF PC
  <2> HIDE DEF ret
  <2> QED  BY <1>4, <2>1, <2>2, Unfold DEF exec_type, PC
<1>6. /\ exec'.pc = "update_control_block" /\ exec'.ret = ret
      /\ exec'.jobs = exec.jobs /\ exec'.current = exec.current
      /\ exec'.strings = Append(exec.strings, p) /\ exec'.texts = Tail(exec.texts)
  BY <1>4, Unfold DEF exec_type
<1> DEFINE stored == Len(exec.strings)
           wanted == Len(exec.texts)
           stored_then == Len(exec'.strings)
           wanted_then == Len(exec'.texts)
<1>7. /\ stored \in Nat /\ wanted \in Nat \ {0}
      /\ stored_then = stored + 1 /\ wanted_then = wanted - 1
      /\ wanted_then # 0 => exec'.texts # << >>
  <2>1. stored \in Nat /\ wanted \in Nat \ {0}  BY <1>3
  <2>2. stored_then = stored + 1  BY <1>3, <1>6
  <2>3. wanted_then = wanted - 1  BY <1>1, <1>3, <1>6
  <2>4. wanted_then # 0 => exec'.texts # << >>  OBVIOUS
  <2> QED  BY <2>1, <2>2, <2>3, <2>4
<1>8. CellTexts' = CellTexts /\ CellTexts \in {1, 2}  BY <1>6 DEF CellTexts, job
<1>9. exec'.current = Null => stored + wanted >= CellTexts  BY <1>1, <1>6
<1>10. ASSUME exec'.ret \in StringPCs => /\ exec'.texts # << >>
                                         /\ exec'.current = Null =>
                                              stored_then + wanted_then >= CellTexts',
              exec'.ret = "create_cell" => stored_then >= CellTexts',
              exec'.ret = "write_value" => stored_then >= 1
       PROVE  ExecOK'
  <2>1. exec'.jobs # << >>  BY <1>2, <1>6 DEF JobsAtHand
  <2>2. exec'.pc \notin JobPCs /\ exec'.pc \notin StringPCs
    BY <1>6 DEF JobPCs, StringPCs
  <2>3. exec'.ret # "find_node_attribute" /\ exec'.pc = "update_control_block"  BY <1>6
  <2> QED  BY <1>10, <2>1, <2>2, <2>3 DEF ExecOK, InOp
<1> HIDE DEF stored, wanted, stored_then, wanted_then
<1>11. CASE wanted > 1
  <2>1. ret = "create_string_cell"  BY <1>11 DEF wanted
  <2>2. wanted_then # 0 /\ stored_then + wanted_then = stored + wanted
    BY <1>7, <1>11
  <2> QED  BY <1>5, <1>6, <1>7, <1>8, <1>9, <1>10, <2>1, <2>2
<1>12. CASE wanted = 1
  <2>1. /\ ret \in {"next", "write_value", "create_cell"}
        /\ ret = "create_cell" => exec.current = Null
    BY <1>12 DEF wanted
  <2>2. stored_then >= 1 /\ stored_then = stored + wanted  BY <1>7, <1>12
  <2>3. ret \notin StringPCs  BY <2>1 DEF StringPCs
  <2> HIDE DEF ret
  <2> QED  BY <1>5, <1>6, <1>8, <1>9, <1>10, <2>1, <2>2, <2>3
<1>13. wanted > 1 \/ wanted = 1  BY <1>7
<1> QED  BY <1>11, <1>12, <1>13

LEMMA StoreString ==
  ASSUME IInv, exec.pc \in StringPCs, NEW p \in cell_ptr, p.block_num \in Block,
         file[p.block_num].type = "STRING", file' = WriteString(file, p, Head(exec.texts)),
         ctrl_block' \in control_block, StringDone(p), LastWriteUnflushed
  PROVE  IInv'
<1>1. exec' \in exec_type /\ ExecOK'  BY StringStored
<1>2. Head(exec.texts) \in String
  <2>1. exec.texts # << >> /\ exec.texts \in Seq(String)
    BY Unfold DEF IInv, ExecOK, InOp, exec_type
  <2> QED  BY <2>1
<1>3. WritesBlock(file, file', p.block_num)  BY <1>2, Unfold, WriteStringType
<1>4. ~ Down  BY DEF Down, StringPCs
<1> QED  BY <1>1, <1>3, <1>4, WriteStep DEF LastWriteUnflushed

LEMMA CreateStringCell ==
  ASSUME IInv, create_string_cell
  PROVE  IInv'
<1> DEFINE h == ctrl_block.head["STRING"]
           str_length == strlen[Head(exec.texts)]
<1>1. exec.pc = "create_string_cell" /\ exec.pc \in StringPCs /\ ~ Down
  BY DEF create_string_cell, StringPCs, Down
<1>2. \/ allocate_new_block("STRING", "create_string_cell")
      \/ allocate_new_block("STRING", "string_in_new_block")
      \/ Wild
      \/ /\ Fits(h, str_length)
         /\ file' = WriteString(file, h, Head(exec.texts))
         /\ ctrl_block' = [ctrl_block EXCEPT !.head["STRING"].offset = @ + str_length + 2]
         /\ StringDone(h)
         /\ LastWriteUnflushed
  BY DEF create_string_cell
<1>3. ASSUME NEW ret \in StringPCs, allocate_new_block("STRING", ret)  PROVE IInv'
  <2>1. SamePlace(ret)  BY <1>1 DEF SamePlace, StringPCs, JobPCs, InOp
  <2> QED  BY <1>1, <1>3, <2>1, AllocateNewBlock DEF Pool, PC, StringPCs
<1>4. CASE Wild  BY <1>4, WildStep
<1>5. ASSUME Fits(h, str_length),
             file' = WriteString(file, h, Head(exec.texts)),
             ctrl_block' = [ctrl_block EXCEPT !.head["STRING"].offset = @ + str_length + 2],
             StringDone(h), LastWriteUnflushed
      PROVE  IInv'
  <2>1. h \in cell_ptr  BY Unfold DEF Pool
  <2>2. h.block_num \in Block /\ file[h.block_num].type = "STRING"  BY <1>5 DEF Fits
  <2>3. str_length \in Nat
    <3>1. exec.texts # << >> /\ exec.texts \in Seq(String)
      BY <1>1, Unfold DEF IInv, ExecOK, InOp, exec_type
    <3> QED  BY <3>1, LayoutAssumption
  <2>4. ctrl_block' \in control_block
    <3> HIDE DEF str_length
    <3>1. [h EXCEPT !.offset = @ + str_length + 2] \in cell_ptr  BY <2>1, <2>3 DEF cell_ptr
    <3>2. ctrl_block' = [ctrl_block EXCEPT
                           !.head["STRING"] = [h EXCEPT !.offset = @ + str_length + 2]]
      BY <1>5
    <3> QED  BY <3>1, <3>2, Unfold DEF control_block
  <2> QED  BY <1>1, <1>5, <2>1, <2>2, <2>4, StoreString
<1> QED  BY <1>2, <1>3, <1>4, <1>5 DEF StringPCs

LEMMA StringInNewBlock ==
  ASSUME IInv, string_in_new_block
  PROVE  IInv'
<1> DEFINE h == ctrl_block.head["STRING"]
           p == Ptr(h.block_num, 0)
           str_length == strlen[Head(exec.texts)]
<1>1. exec.pc \in StringPCs /\ ~ Down
  BY DEF string_in_new_block, StringPCs, Down
<1>2. \/ Wild
      \/ /\ Fits(p, str_length)
         /\ file' = WriteString(file, p, Head(exec.texts))
         /\ ctrl_block' = [ctrl_block EXCEPT !.head["STRING"].offset = str_length + 2]
         /\ StringDone(p)
         /\ LastWriteUnflushed
  BY DEF string_in_new_block
<1>3. CASE Wild  BY <1>3, WildStep
<1>4. ASSUME Fits(p, str_length),
             file' = WriteString(file, p, Head(exec.texts)),
             ctrl_block' = [ctrl_block EXCEPT !.head["STRING"].offset = str_length + 2],
             StringDone(p), LastWriteUnflushed
      PROVE  IInv'
  <2>1. h \in cell_ptr /\ p \in cell_ptr /\ p.block_num = h.block_num
    BY Unfold DEF Pool, cell_ptr, Ptr
  <2>2. str_length \in Nat
    <3>1. exec.texts # << >> /\ exec.texts \in Seq(String)
      BY <1>1, Unfold DEF IInv, ExecOK, InOp, exec_type
    <3> QED  BY <3>1, LayoutAssumption
  <2>3. ctrl_block' \in control_block
    <3> HIDE DEF str_length
    <3>1. [h EXCEPT !.offset = str_length + 2] \in cell_ptr  BY <2>1, <2>2 DEF cell_ptr
    <3>2. ctrl_block' = [ctrl_block EXCEPT !.head["STRING"] = [h EXCEPT !.offset = str_length + 2]]
      BY <1>4
    <3> QED  BY <3>1, <3>2, Unfold DEF control_block
  <2>4. p.block_num \in Block /\ file[p.block_num].type = "STRING"  BY <1>4 DEF Fits
  <2> QED  BY <1>1, <1>4, <2>1, <2>3, <2>4, StoreString
<1> QED  BY <1>2, <1>3, <1>4

LEMMA CreateCell ==
  ASSUME IInv, NEW kind \in CellKind, create_cell(kind)
  PROVE  IInv'
<1> DEFINE h == ctrl_block.head[kind]
           new == [prev  |-> NodeAt(file, exec.node).last[kind],
                   name  |-> exec.strings[1],
                   value |-> CASE kind = "ATTRIBUTE" -> exec.strings[2]
                               [] kind = "RELATION"  -> exec.second
                               [] OTHER              -> Null]
           after == HeadAfter(h, CellAt(file, h).prev, CellsIn(kind))
<1>1. exec.pc = "create_cell" /\ ~ Down /\ kind = job.kind /\ kind \in CellKind /\ kind \in Pool
  BY DEF create_cell, Down, CellKind, Pool
<1>2. \/ h.block_num = -1 /\ allocate_new_block(kind, "create_cell")
      \/ Wild
      \/ /\ IsCell(file, kind, h) /\ IsNode(file, exec.node)
         /\ file' = WriteCell(file, h, new)
         /\ ctrl_block' = [ctrl_block EXCEPT !.head[kind] = after]
         /\ exec' = [exec EXCEPT !.pc = "update_control_block", !.ret = "update_node",
                                 !.current = h]
         /\ LastWriteUnflushed
  BY DEF create_cell
<1>3. CASE allocate_new_block(kind, "create_cell")
  <2>1. SamePlace("create_cell")  BY <1>1 DEF SamePlace, JobPCs, StringPCs, InOp
  <2> QED  BY <1>1, <1>3, <2>1, AllocateNewBlock DEF PC
<1>4. CASE Wild  BY <1>4, WildStep
<1>5. ASSUME IsCell(file, kind, h), IsNode(file, exec.node),
             file' = WriteCell(file, h, new),
             ctrl_block' = [ctrl_block EXCEPT !.head[kind] = after],
             exec' = [exec EXCEPT !.pc = "update_control_block", !.ret = "update_node",
                                  !.current = h],
             LastWriteUnflushed
      PROVE  IInv'
  <2>1. new \in cell
    <3>1. NodeAt(file, exec.node).last[kind] \in cell_ptr
      BY <1>1, <1>5, NodeAtType, Unfold DEF node_cell
    <3>2. exec.strings \in Seq(cell_ptr) /\ Len(exec.strings) >= CellTexts
      BY <1>1, Unfold DEF exec_type, IInv, ExecOK, InOp
    <3>3. exec.strings[1] \in cell_ptr /\ (kind = "ATTRIBUTE" => exec.strings[2] \in cell_ptr)
      BY <1>1, <3>2 DEF CellTexts
    <3>4. exec.second \in cell_ptr  BY Unfold DEF exec_type
    <3> QED  BY <3>1, <3>3, <3>4, ZeroTypes DEF cell
  <2>2. after \in cell_ptr
    <3>1. h \in cell_ptr  BY <1>1, Unfold
    <3>2. CellAt(file, h).prev \in cell_ptr
      BY <1>1, <1>5, CellAtType, Unfold DEF cell
    <3>3. CellsIn(kind) \in Nat  BY LayoutAssumption DEF CellsIn
    <3> QED  BY <3>1, <3>2, <3>3, HeadAfterType
  <2>3. WritesBlock(file, file', h.block_num)
    BY <1>1, <1>5, <2>1, Unfold, WriteCellType
  <2>4. ctrl_block' \in control_block
    <3> HIDE DEF after
    <3> QED  BY <1>1, <1>5, <2>2, Unfold DEF control_block
  <2>5. exec' \in exec_type  BY <1>1, <1>5, Unfold DEF exec_type, PC
  <2>6. ExecOK'
    <3>1. exec.jobs # << >>  BY <1>1 DEF IInv, ExecOK, InOp, JobPCs
    <3>2. /\ exec'.pc = "update_control_block" /\ exec'.ret = "update_node"
          /\ exec'.jobs = exec.jobs
      BY <1>5, Unfold DEF exec_type
    <3> QED  BY <3>1, <3>2 DEF ExecOK, InOp, StringPCs
  <2> QED  BY <1>1, <1>5, <2>3, <2>4, <2>5, <2>6, WriteStep DEF LastWriteUnflushed
<1> QED  BY <1>2, <1>3, <1>4, <1>5

LEMMA FindNodeAttribute ==
  ASSUME IInv, find_node_attribute
  PROVE  IInv'
<1> DEFINE c == CellAt(file, exec.current)
<1>1. exec.pc = "find_node_attribute" /\ ~ Down /\ ReadOnly
  BY DEF find_node_attribute, Down
<1>2. /\ exec.jobs # << >> /\ exec.jobs \in Seq(Job) /\ job.op = "put"
      /\ exec.current \in cell_ptr
  BY <1>1, Unfold DEF IInv, ExecOK, InOp, JobPCs, exec_type
<1>3. /\ job.kind = "ATTRIBUTE" /\ job.value \in String
      /\ Texts(job) \in Seq(String) /\ Len(Texts(job)) = 2
  BY <1>2, JobType DEF job
<1>4. \/ exec' = [exec EXCEPT !.pc = "create_string_cell", !.texts = Texts(job), !.current = Null]
      \/ exec' = [exec EXCEPT !.pc = "wild"]
      \/ /\ exec.current.block_num # 0
         /\ exec' = [exec EXCEPT !.pc = "create_string_cell", !.texts = << job.value >>]
      \/ /\ IsCell(file, "ATTRIBUTE", exec.current)
         /\ exec' = [exec EXCEPT !.current = c.prev]
  BY DEF find_node_attribute
<1>5. exec' \in exec_type /\ ExecOK'
  <2>1. CASE exec' = [exec EXCEPT !.pc = "create_string_cell", !.texts = Texts(job),
                                  !.current = Null]
    <3>1. exec' \in exec_type  BY <1>3, <2>1, Unfold, ZeroTypes DEF exec_type, PC
    <3>2. /\ exec'.pc = "create_string_cell" /\ exec'.jobs = exec.jobs
          /\ exec'.texts = Texts(job) /\ exec'.strings = exec.strings
      BY <2>1, Unfold DEF exec_type
    <3>3. Len(exec'.strings) \in Nat /\ Len(exec'.texts) = 2
      BY <1>3, <3>2, Unfold DEF exec_type
    <3>4. exec'.texts # << >> /\ Len(exec'.strings) + Len(exec'.texts) >= 2
      BY <3>3
    <3>5. Len(exec'.strings) + Len(exec'.texts) >= CellTexts'
      BY <3>3 DEF CellTexts
    <3> QED  BY <1>2, <3>1, <3>2, <3>4, <3>5 DEF ExecOK, InOp, Updating, StringPCs
  <2>2. CASE exec' = [exec EXCEPT !.pc = "wild"]
    <3>1. exec' \in exec_type /\ exec'.pc = "wild"  BY <2>2, Unfold DEF exec_type, PC
    <3> QED  BY <3>1 DEF ExecOK, InOp, Updating, JobPCs, StringPCs
  <2>3. ASSUME exec.current.block_num # 0,
               exec' = [exec EXCEPT !.pc = "create_string_cell", !.texts = << job.value >>]
        PROVE  exec' \in exec_type /\ ExecOK'
    <3>1. exec' \in exec_type
      <4>1. << job.value >> \in Seq(String)  BY <1>3
      <4> QED  BY <2>3, <4>1, Unfold DEF exec_type, PC
    <3>2. /\ exec'.pc = "create_string_cell" /\ exec'.jobs = exec.jobs
          /\ exec'.texts = << job.value >> /\ exec'.current = exec.current
      BY <2>3, Unfold DEF exec_type
    <3>3. exec'.current # Null /\ exec'.texts # << >>
      BY <2>3, <3>2 DEF Null, Ptr
    <3> QED  BY <1>2, <3>1, <3>2, <3>3 DEF ExecOK, InOp, Updating
  <2>4. ASSUME IsCell(file, "ATTRIBUTE", exec.current), exec' = [exec EXCEPT !.current = c.prev]
        PROVE  exec' \in exec_type /\ ExecOK'
    <3>1. c.prev \in cell_ptr  BY <2>4, CellAtType, Unfold DEF CellKind, cell
    <3>2. exec' \in exec_type  BY <2>4, <3>1, Unfold DEF exec_type
    <3>3. exec'.pc = "find_node_attribute" /\ exec'.jobs = exec.jobs
      BY <1>1, <2>4, Unfold DEF exec_type
    <3> QED  BY <1>2, <3>2, <3>3 DEF ExecOK, InOp, Updating, StringPCs, job
  <2> QED  BY <1>4, <2>1, <2>2, <2>3, <2>4
<1> QED  BY <1>1, <1>5, ReadOnlyStep DEF ReadOnly

LEMMA WriteValue ==
  ASSUME IInv, write_value
  PROVE  IInv'
<1> DEFINE p == exec.current
           new == [CellAt(file, p) EXCEPT !.value = exec.strings[1]]
<1>1. exec.pc = "write_value" /\ ~ Down  BY DEF write_value, Down
<1>2. CASE Wild  BY <1>2, WildStep
<1>3. CASE IsCell(file, "ATTRIBUTE", p) /\ ~ Wild
  <2>1. new \in cell
    <3>1. exec.strings \in Seq(cell_ptr) /\ Len(exec.strings) >= 1
      BY <1>1, Unfold DEF exec_type, IInv, ExecOK, InOp
    <3>2. exec.strings[1] \in cell_ptr  BY <3>1
    <3> QED  BY <1>3, <3>2, CellAtType, Unfold DEF CellKind, cell
  <2>2. WritesBlock(file, file', p.block_num)
    BY <1>3, <2>1, Unfold, WriteCellType DEF write_value, CellKind
  <2>3. exec' \in exec_type /\ exec'.pc = "next"
    <3>1. exec' = [exec EXCEPT !.pc = "next"]  BY <1>3 DEF write_value
    <3> QED  BY <3>1, Unfold DEF exec_type, PC
  <2>4. disk' = file /\ ctrl_block' = ctrl_block  BY <1>3 DEF write_value, LastWriteUnflushed
  <2>5. ExecOK'  BY <2>3 DEF ExecOK, InOp, Updating, JobPCs, StringPCs
  <2> QED  BY <1>1, <2>2, <2>3, <2>4, <2>5, Unfold, WriteStep
<1> QED  BY <1>2, <1>3 DEF write_value

(* The loops over the jobs and the matched nodes.                          *)
LEMMA NextNode ==
  ASSUME IInv, next_node
  PROVE  IInv'
<1>1. exec.pc = "next" /\ ~ Down /\ ReadOnly /\ exec.jobs # << >>
  BY DEF next_node, Down
<1>2. /\ exec.jobs \in Seq(Job) /\ job \in Job
      /\ job.kind \in CellKind /\ job.op \in {"add", "put", "relate", "remove", "free"}
      /\ job.op \in {"add", "put"} =>
           /\ Texts(job) \in Seq(String)
           /\ Len(Texts(job)) = IF job.kind = "LABEL" THEN 1 ELSE 2
           /\ job.kind \in {"LABEL", "ATTRIBUTE"}
  BY <1>1, Unfold, JobType DEF job, exec_type
<1> DEFINE texts == IF job.op = "add" THEN Texts(job) ELSE << >>
           strings == IF job.op = "relate" THEN exec.strings ELSE << >>
<1>3. texts \in Seq(String) /\ strings \in Seq(cell_ptr) /\ Len(strings) \in Nat
  BY <1>2, Unfold DEF exec_type
<1>4. ASSUME exec' = [exec EXCEPT !.pc = "wild"]  PROVE exec' \in exec_type /\ ExecOK'
  <2>1. exec' \in exec_type /\ exec'.pc = "wild"  BY <1>4, Unfold DEF exec_type, PC
  <2> QED  BY <2>1 DEF ExecOK, InOp, Updating, JobPCs, StringPCs
<1>5. ASSUME NEW p \in exec.left, IsNode(file, p),
             NEW current, current \in {NodeAt(file, p).last[job.kind], Null},
             exec' = [exec EXCEPT
                 !.pc = Entry(job.op), !.left = @ \ {p}, !.node = p, !.prev = p,
                 !.texts = texts,
                 !.strings = strings, !.following = Null, !.has_changed = FALSE,
                 !.others = exec.seconds, !.lost_place = FALSE, !.current = current]
      PROVE  exec' \in exec_type /\ ExecOK'
  <2>1. p \in cell_ptr /\ exec.left \in SUBSET cell_ptr  BY Unfold DEF exec_type
  <2>2. current \in cell_ptr
    BY <1>2, <1>5, NodeAtType, Unfold, ZeroTypes DEF node_cell, CellKind
  <2>3. Entry(job.op) \in {"create_string_cell", "find_node_attribute", "next_second",
                           "remove", "free_node"}
    BY <1>2 DEF Entry
  <2> HIDE DEF texts, strings
  <2>4. exec' \in exec_type
    BY <1>3, <1>5, <2>1, <2>2, <2>3, Unfold, ZeroTypes DEF exec_type, PC
  <2>5. /\ exec'.pc = Entry(job.op) /\ exec'.jobs = exec.jobs
        /\ exec'.texts = texts /\ exec'.strings = strings
    BY <1>5, Unfold DEF exec_type
  <2>6. job.op = "add" => exec'.texts # << >> /\ Len(exec'.strings) + Len(exec'.texts) >= CellTexts'
    <3>1. HAVE job.op = "add"
    <3>2. exec'.texts = Texts(job)  BY <2>5, <3>1 DEF texts
    <3>3. Len(exec'.strings) \in Nat /\ Len(exec'.texts) = IF job.kind = "LABEL" THEN 1 ELSE 2
      BY <1>2, <1>3, <2>5, <3>1, <3>2
    <3>4. CellTexts' = IF job.kind = "LABEL" THEN 1 ELSE 2
      BY <1>2, <2>5, <3>1 DEF CellTexts, job
    <3>5. exec'.texts # << >>  BY <3>3
    <3>6. \A m \in Nat, n \in {1, 2} : m + n >= n  OBVIOUS
    <3>7. Len(exec'.texts) \in {1, 2} /\ CellTexts' = Len(exec'.texts)  BY <3>3, <3>4
    <3> QED  BY <3>3, <3>5, <3>6, <3>7
  <2>7. exec'.pc = "create_string_cell" => job.op = "add"
    BY <1>2, <2>5 DEF Entry
  <2>8. exec'.pc = "find_node_attribute" => job.op = "put"
    BY <1>2, <2>5 DEF Entry
  <2> QED  BY <1>1, <2>3, <2>4, <2>5, <2>6, <2>7, <2>8
      DEF ExecOK, InOp, Updating, StringPCs, job
<1>6. exec' \in exec_type /\ ExecOK'
  <2>1. PICK p \in exec.left :
          IF IsNode(file, p)
          THEN exec' = [exec EXCEPT
                 !.pc = Entry(job.op), !.left = @ \ {p}, !.node = p, !.prev = p,
                 !.texts = texts,
                 !.strings = strings, !.following = Null, !.has_changed = FALSE,
                 !.others = exec.seconds, !.lost_place = FALSE,
                 !.current = IF job.op \in {"put", "remove"}
                             THEN NodeAt(file, p).last[job.kind] ELSE Null]
          ELSE exec' = [exec EXCEPT !.pc = "wild"]
    BY DEF next_node
  <2> DEFINE current == IF job.op \in {"put", "remove"}
                        THEN NodeAt(file, p).last[job.kind] ELSE Null
  <2>2. current \in {NodeAt(file, p).last[job.kind], Null}  OBVIOUS
  <2> HIDE DEF texts, strings
  <2> QED  BY <1>4, <1>5, <2>1, <2>2
<1> QED  BY <1>1, <1>6, ReadOnlyStep DEF ReadOnly

LEMMA NextSecond ==
  ASSUME IInv, RelateInv, next_second
  PROVE  IInv'
<1>1. exec.pc = "next_second" /\ ~ Down /\ UNCHANGED <<file, disk, ctrl_block>>
  BY DEF next_second, Down
<1>2. exec.jobs # << >> /\ exec.jobs \in Seq(Job) /\ job.op = "relate" /\ Len(exec.strings) >= 1
  BY <1>1, Unfold DEF IInv, ExecOK, RelateInv, Place, InOp, Updating, JobPCs, StringPCs, exec_type
<1>3. CellTexts = 1  BY <1>2, JobType DEF CellTexts, job
<1>4. \/ exec' = [exec EXCEPT !.pc = "next"]
      \/ \E p \in exec.others :
           exec' = [exec EXCEPT !.pc = "create_cell", !.others = @ \ {p}, !.second = p]
  BY DEF next_second
<1>5. /\ exec' \in exec_type /\ exec'.pc \in {"next", "create_cell"}
      /\ exec'.jobs = exec.jobs /\ exec'.strings = exec.strings
  <2>1. CASE exec' = [exec EXCEPT !.pc = "next"]  BY <2>1, Unfold DEF exec_type, PC
  <2>2. ASSUME NEW p \in exec.others,
               exec' = [exec EXCEPT !.pc = "create_cell", !.others = @ \ {p}, !.second = p]
        PROVE  /\ exec' \in exec_type /\ exec'.pc = "create_cell"
               /\ exec'.jobs = exec.jobs /\ exec'.strings = exec.strings
    <3>1. p \in cell_ptr /\ exec.others \ {p} \in SUBSET cell_ptr  BY Unfold DEF exec_type
    <3> QED  BY <2>2, <3>1, Unfold DEF exec_type, PC
  <2> QED  BY <1>4, <2>1, <2>2
<1>6. CellTexts' = 1  BY <1>3, <1>5 DEF CellTexts, job
<1>7. ExecOK'  BY <1>2, <1>5, <1>6 DEF ExecOK, InOp, Updating, JobPCs, StringPCs
<1> QED  BY <1>1, <1>5, <1>7, ReadOnlyStep

LEMMA NextJobOrRespond ==
  ASSUME IInv, next_job \/ respond
  PROVE  IInv'
<1>1. exec.pc = "next" /\ ~ Down /\ UNCHANGED <<file, disk, ctrl_block>>
  BY DEF next_job, respond, Down
<1>2. CASE next_job
  <2>1. Tail(exec.jobs) \in Seq(Job)  BY <1>2, Unfold DEF next_job, exec_type
  <2>2. exec' = [exec EXCEPT !.jobs = Tail(@), !.left = exec.matched]  BY <1>2 DEF next_job
  <2>3. exec' \in exec_type /\ exec'.pc = "next"  BY <1>1, <2>1, <2>2, Unfold DEF exec_type
  <2>4. ExecOK'  BY <2>3 DEF ExecOK, InOp, Updating, JobPCs, StringPCs
  <2> QED  BY <1>1, <2>3, <2>4, ReadOnlyStep
<1>3. CASE respond
  <2>1. Idle \in exec_type  BY ZeroTypes DEF Idle, exec_type, PC
  <2>2. exec' = [Idle EXCEPT !.number = exec.number]  BY <1>3 DEF respond
  <2>3. exec' \in exec_type /\ exec'.pc = "idle"
    BY <2>1, <2>2, Unfold DEF exec_type, Idle
  <2>4. ExecOK'  BY <2>3 DEF ExecOK, InOp, Updating, JobPCs, StringPCs
  <2> QED  BY <1>1, <2>3, <2>4, ReadOnlyStep
<1> QED  BY <1>2, <1>3

(* The process ends, by itself or not.                                     *)
LEMMA IdleType == Idle \in exec_type /\ Idle.pc = "idle"
BY ZeroTypes DEF Idle, exec_type, PC

LEMMA NewControlType == NewControl \in control_block
<1>1. [pool \in Pool |-> IF pool = "NODE" THEN Null ELSE NoRoom] \in [Pool -> cell_ptr]
  BY ZeroTypes
<1>2. 0 \in Block /\ 1 \in 1 .. MAX_BLOCKS  BY LayoutAssumption DEF Block
<1> QED  BY <1>1, <1>2, ZeroTypes DEF NewControl, control_block

LEMMA StopStep ==
  ASSUME IInv, Stop, file' \in {file, disk}, disk' \in {file, disk}
  PROVE  IInv'
<1>1. exec' \in exec_type /\ exec'.pc = "down"
  BY IdleType DEF Stop, exec_type, PC
<1>2. ExecOK' /\ ControlBlock'
  BY <1>1 DEF ExecOK, InOp, Updating, JobPCs, StringPCs, ControlBlock, Down
<1> QED  BY <1>1, <1>2, Unfold, NewControlType DEF Stop, IInv, TypeOK, File

(* Cells taken out of their chain and freed.                               *)
LEMMA RemovePlace ==
  ASSUME exec'.jobs # << >>,
         \/ exec'.pc \in {"next", "remove", "free_cell"}
         \/ exec'.pc = "update_control_block" /\ exec'.ret = "remove"
  PROVE  ExecOK'
BY DEF ExecOK, InOp, Updating, StringPCs

LEMMA RemoveCell ==
  ASSUME IInv, NEW kind \in CellKind, remove_cell(kind)
  PROVE  IInv'
<1> DEFINE p == exec.current
           old == CellAt(file, p)
           node == [NodeAt(file, exec.node) EXCEPT !.last[kind] = old.prev]
           prev_cell == [CellAt(file, exec.prev) EXCEPT !.prev = old.prev]
           sound == /\ IsCell(file, kind, p) /\ IsString(file, old.name)
                    /\ IsNode(file, exec.node)
                    /\ IsNode(file, exec.prev) \/ IsCell(file, kind, exec.prev)
           lost == exec.lost_place \/ (kind = "RELATION" /\ Named(old))
<1>1. exec.pc = "remove" /\ ~ Down /\ kind \in CellKind
  BY DEF remove_cell, Down, CellKind
<1>2. exec.jobs # << >>  BY <1>1 DEF IInv, ExecOK, InOp, JobPCs
<1>3. CASE exec' = [exec EXCEPT !.pc = "next"] /\ ReadOnly
  <2>1. exec' \in exec_type /\ exec'.pc = "next" /\ exec'.jobs = exec.jobs
    BY <1>3, Unfold DEF exec_type, PC
  <2> QED  BY <1>1, <1>2, <1>3, <2>1, RemovePlace, ReadOnlyStep DEF ReadOnly
<1>4. CASE Wild  BY <1>4, WildStep
<1>5. ASSUME sound  PROVE old.prev \in cell_ptr
  BY <1>1, <1>5, CellAtType, Unfold DEF cell
<1>6. CASE sound /\ ReadOnly /\ exec' = [exec EXCEPT !.prev = p, !.current = old.prev, !.lost_place = lost]
  <2>1. exec' \in exec_type /\ exec'.pc = "remove" /\ exec'.jobs = exec.jobs
    <3>1. lost \in BOOLEAN  BY Unfold DEF exec_type
    <3> HIDE DEF lost
    <3> QED  BY <1>1, <1>5, <1>6, <3>1, Unfold DEF exec_type
  <2> QED  BY <1>1, <1>2, <1>6, <2>1, RemovePlace, ReadOnlyStep DEF ReadOnly
<1>7. ASSUME sound, exec' = [exec EXCEPT !.pc = "free_cell", !.following = old.prev,
                                  !.lost_place = lost],
             IF exec.prev.block_num = 0
             THEN /\ file' = WriteNode(file, exec.node, node)
                  /\ ctrl_block' = file'[0]
                  /\ AllFlushed
             ELSE /\ file' = IF IsNode(file, exec.prev) THEN WriteNode(file, exec.node, node)
                             ELSE WriteCell(file, exec.prev, prev_cell)
                  /\ UNCHANGED ctrl_block
                  /\ LastWriteUnflushed
      PROVE  IInv'
  <2>1. exec' \in exec_type /\ exec'.pc = "free_cell" /\ exec'.jobs = exec.jobs
    <3>1. lost \in BOOLEAN  BY Unfold DEF exec_type
    <3> HIDE DEF lost
    <3> QED  BY <1>5, <1>7, <3>1, Unfold DEF exec_type, PC
  <2>2. node \in node_cell
    BY <1>1, <1>5, <1>7, NodeAtType, Unfold DEF node_cell
  <2>3. IsCell(file, kind, exec.prev) => prev_cell \in cell
    BY <1>1, <1>5, <1>7, CellAtType, Unfold DEF cell
  <2> HIDE DEF node, prev_cell
  <2>4. \/ file' = WriteNode(file, exec.node, node)
        \/ IsCell(file, kind, exec.prev) /\ file' = WriteCell(file, exec.prev, prev_cell)
    BY <1>7
  <2>5. PICK n : WritesBlock(file, file', n)
    BY <1>1, <1>7, <2>2, <2>3, <2>4, Unfold, WriteNodeType, WriteCellType
  <2>6. ctrl_block' \in control_block
    <3>1. file'[0] \in block /\ file'[0].type = "CONTROL"
      BY <1>1, <2>5, LayoutAssumption DEF WritesBlock, File, Block, IInv, ControlBlock
    <3> QED  BY <1>7, <3>1, BlockForm, Unfold
  <2>7. disk' \in {file, file'}  BY <1>7 DEF AllFlushed, LastWriteUnflushed
  <2>8. ExecOK'  BY <1>2, <2>1, RemovePlace
  <2> QED  BY <1>1, <2>1, <2>5, <2>6, <2>7, <2>8, WriteStep
<1>8. CASE disk' = file /\ UNCHANGED file /\ Stop  BY <1>8, StopStep
<1> QED  BY <1>3, <1>4, <1>6, <1>7, <1>8 DEF remove_cell

LEMMA FreeOneCell ==
  ASSUME IInv, free_cell
  PROVE  IInv'
<1> DEFINE kind == job.kind
           p == exec.current
           new == [prev |-> ctrl_block.head[kind], name |-> Null,
                   value |-> IF kind = "RELATION" THEN CellAt(file, p).value ELSE Null]
           counted == kind # "RELATION" /\ job.name # ALL /\ ~ exec.has_changed
<1>1. exec.pc = "free_cell" /\ ~ Down /\ exec.jobs # << >>
  BY DEF free_cell, Down, IInv, ExecOK, InOp, JobPCs
<1>2. kind \in CellKind /\ kind \in Pool
  BY <1>1, JobType, Unfold DEF exec_type, CellKind, Pool, job
<1> HIDE DEF kind
<1>3. CASE Wild  BY <1>3, WildStep
<1>4. CASE IsCell(file, kind, p) /\ ~ Wild
  <2>1. new \in cell
    <3>1. CellAt(file, p) \in cell  BY <1>2, <1>4, CellAtType, Unfold
    <3> QED  BY <1>2, <3>1, ZeroTypes, Unfold DEF cell
  <2>2. /\ file' = WriteCell(file, p, new)
        /\ ctrl_block' = [ctrl_block EXCEPT !.head[kind] = p]
        /\ LastWriteUnflushed
    BY <1>4 DEF free_cell, kind
  <2>3. WritesBlock(file, file', p.block_num)
    BY <1>2, <1>4, <2>1, <2>2, Unfold, WriteCellType
  <2>4. p \in cell_ptr  BY Unfold DEF exec_type
  <2>5. ctrl_block' \in control_block
    BY <1>2, <2>2, <2>4, Unfold DEF control_block
  <2>6. PICK number \in Nat :
          exec' = [exec EXCEPT
                 !.pc = "update_control_block", !.ret = "remove",
                 !.prev = p, !.current = exec.following, !.has_changed = TRUE,
                 !.number = number]
    <3>1. exec.number \in Nat  BY Unfold DEF exec_type
    <3>2. (IF counted THEN exec.number + 1 ELSE exec.number) \in Nat
      BY <3>1
    <3> QED  BY <1>4, <3>2 DEF free_cell, kind
  <2>7. exec' \in exec_type  BY <2>4, <2>6, Unfold DEF exec_type, PC
  <2>8. /\ exec'.pc = "update_control_block" /\ exec'.ret = "remove"
        /\ exec'.jobs = exec.jobs
    BY <2>6, Unfold DEF exec_type
  <2>9. ExecOK'  BY <1>1, <2>8, RemovePlace
  <2> QED  BY <1>1, <2>2, <2>3, <2>5, <2>7, <2>9, WriteStep DEF LastWriteUnflushed
<1> QED  BY <1>3, <1>4 DEF free_cell, kind

(* Commands begin, and the process starts and stops.                       *)
LEMMA Executing ==
  ASSUME IInv, Execute
  PROVE  IInv'
<1>1. PICK info \in Commands : \/ execute_match(info) \/ execute_create(info)
                               \/ execute_create_relation(info)
                               \/ execute_set(info) \/ execute_remove(info)
                               \/ execute_delete(info)
  BY DEF Execute
<1>2. exec.pc = "idle" /\ ~ Down /\ ReadOnly
  BY <1>1 DEF execute_match, execute_create, execute_create_relation, execute_set,
              execute_remove, execute_delete, OnMatched, Starting, Down
<1>3. Jobs(info) \in Seq(Job) /\ info.rel_name \in String
  BY JobsType, CommandsAssumption DEF query_info
<1> DEFINE nodes == Matched(file, info)
           firsts == Like(file, info.labels, info.props)
           others == Seconds(file, info)
           related == Cardinality(firsts) * (Cardinality(others) % UINT16)
<1>4. \/ exec' = [Idle EXCEPT !.number = Cardinality(nodes)]
      \/ exec' = [Idle EXCEPT !.pc = "wild"]
      \/ exec' = [Idle EXCEPT !.pc = "create_node_cell", !.jobs = Jobs(info), !.number = 1]
      \/ \E number \in {Cardinality(nodes), 0} :
           exec' = [Idle EXCEPT !.pc = "next", !.jobs = Jobs(info), !.matched = nodes,
                                !.left = nodes, !.seconds = others, !.number = number]
      \/ /\ info.command_type = "create" /\ info.has_relation
         /\ exec' = [Idle EXCEPT
              !.pc = "create_string_cell", !.jobs = Jobs(info), !.texts = << info.rel_name >>,
              !.matched = firsts, !.left = firsts, !.seconds = others, !.number = related]
  <2>1. CASE execute_match(info)  BY <2>1 DEF execute_match, OnMatched, Respond
  <2>2. CASE execute_create(info)  BY <2>2 DEF execute_create
  <2>3. CASE execute_set(info)  BY <2>3 DEF execute_set, OnMatched, Run
  <2>4. CASE execute_remove(info)  BY <2>4 DEF execute_remove, OnMatched, Run
  <2>5. CASE execute_delete(info)  BY <2>5 DEF execute_delete, OnMatched, Run
  <2>6. CASE execute_create_relation(info)
    BY <2>6 DEF execute_create_relation, Starting
  <2> QED  BY <1>1, <2>1, <2>2, <2>3, <2>4, <2>5, <2>6
<1>5. /\ Cardinality(nodes) \in Nat /\ Cardinality(firsts) \in Nat /\ Cardinality(others) \in Nat
      /\ nodes \in SUBSET cell_ptr /\ firsts \in SUBSET cell_ptr /\ others \in SUBSET cell_ptr
  BY MatchedType
<1>6. related \in Nat
  <2>1. Cardinality(others) % UINT16 \in Nat  BY <1>5, CommandsAssumption
  <2> DEFINE n == Cardinality(others) % UINT16
  <2> HIDE DEF n
  <2>2. Cardinality(firsts) * n \in Nat  BY <1>5, <2>1 DEF n
  <2> QED  BY <2>2 DEF n
<1> HIDE DEF nodes, firsts, others, related
<1>7. exec' \in exec_type /\ ExecOK'
  <2> USE IdleType DEF exec_type, PC
  <2>1. CASE exec' = [Idle EXCEPT !.number = Cardinality(nodes)]
    <3>1. exec' \in exec_type /\ exec'.pc = "idle"  BY <1>5, <2>1
    <3> QED  BY <3>1 DEF ExecOK, InOp, Updating, JobPCs, StringPCs
  <2>2. CASE exec' = [Idle EXCEPT !.pc = "wild"]
    <3>1. exec' \in exec_type /\ exec'.pc = "wild"  BY <2>2
    <3> QED  BY <3>1 DEF ExecOK, InOp, Updating, JobPCs, StringPCs
  <2>3. CASE exec' = [Idle EXCEPT !.pc = "create_node_cell", !.jobs = Jobs(info), !.number = 1]
    <3>1. exec' \in exec_type /\ exec'.pc = "create_node_cell"  BY <1>3, <2>3
    <3> QED  BY <3>1 DEF ExecOK, InOp, Updating, JobPCs, StringPCs
  <2>4. ASSUME NEW number \in {Cardinality(nodes), 0},
               exec' = [Idle EXCEPT !.pc = "next", !.jobs = Jobs(info), !.matched = nodes,
                                    !.left = nodes, !.seconds = others, !.number = number]
        PROVE  exec' \in exec_type /\ ExecOK'
    <3>1. number \in Nat  BY <1>5
    <3>2. exec' \in exec_type /\ exec'.pc = "next"  BY <1>3, <1>5, <2>4, <3>1
    <3> QED  BY <3>2 DEF ExecOK, InOp, Updating, JobPCs, StringPCs
  <2>5. CASE /\ info.command_type = "create" /\ info.has_relation
             /\ exec' = [Idle EXCEPT
                  !.pc = "create_string_cell", !.jobs = Jobs(info), !.texts = << info.rel_name >>,
                  !.matched = firsts, !.left = firsts, !.seconds = others, !.number = related]
    <3> DEFINE texts == << info.rel_name >>
    <3>1. texts \in Seq(String) /\ texts # << >> /\ Len(texts) = 1  BY <1>3
    <3>2. Jobs(info) = << RelationJob("relate", info.rel_name) >>  BY <2>5 DEF Jobs
    <3> HIDE DEF texts
    <3>3. exec' \in exec_type  BY <1>3, <1>5, <1>6, <2>5, <3>1 DEF texts
    <3>4. /\ exec'.pc = "create_string_cell" /\ exec'.jobs = Jobs(info) /\ exec'.texts = texts
          /\ exec'.strings = Idle.strings
      BY <2>5 DEF texts
    <3>5. Len(exec'.strings) \in Nat  BY <3>3
    <3>6. CellTexts' = 1
      <4>1. job' = RelationJob("relate", info.rel_name)  BY <3>2, <3>4 DEF job
      <4> QED  BY <4>1 DEF CellTexts, RelationJob
    <3>7. exec'.jobs # << >>  BY <3>2, <3>4
    <3>8. Len(exec'.strings) + Len(exec'.texts) >= CellTexts'  BY <3>1, <3>4, <3>5, <3>6
    <3> QED  BY <3>1, <3>3, <3>4, <3>7, <3>8 DEF ExecOK, InOp, Updating, StringPCs
  <2> QED  BY <1>4, <2>1, <2>2, <2>3, <2>4, <2>5
<1> QED  BY <1>2, <1>7, ReadOnlyStep DEF ReadOnly

LEMMA Initially == Init => IInv /\ RelateInv
<1> SUFFICES ASSUME Init  PROVE IInv /\ RelateInv
  OBVIOUS
<1>1. EmptyFile \in File  BY DEF EmptyFile, File, block, absent_block, Absent
<1>2. file \in File /\ file[0] = NewControl
  BY <1>1, NewControlType, BlockKinds, LayoutAssumption DEF Init, File, Block, EmptyFile
<1>3. exec \in exec_type /\ exec.pc = "idle"
  BY ZeroTypes DEF Init, Idle, exec_type, PC
<1>4. ExecOK  BY <1>3 DEF ExecOK, InOp, Updating, JobPCs, StringPCs
<1>5. RelateInv  BY DEF Init, Idle, RelateInv, Place, Updating, StringPCs
<1> QED  BY <1>1, <1>2, <1>3, <1>4, <1>5, NewControlType
    DEF Init, IInv, TypeOK, ControlBlock, File, NewControl

LEMMA StartOrStop ==
  ASSUME IInv, init_data \/ kill \/ quit
  PROVE  IInv'
<1>1. Idle \in exec_type /\ Idle.pc = "idle"  BY IdleType
<1>2. CASE init_data
  <2>1. exec' = Idle \/ exec' = [Idle EXCEPT !.pc = "wild"]  BY <1>2 DEF init_data
  <2>2. exec' \in exec_type /\ exec'.pc \in {"idle", "wild"}
    BY <1>1, <2>1 DEF exec_type, PC
  <2>3. ctrl_block' \in control_block
    <3>1. file[0] \in block  BY Unfold, LayoutAssumption DEF File, Block
    <3> QED  BY <1>2, <3>1, BlockForm, Unfold DEF init_data
  <2>4. ControlBlock'
    <3>1. CASE file[0].type = "CONTROL"  BY <1>2, <3>1 DEF init_data, ControlBlock
    <3>2. CASE file[0].type # "CONTROL"
      <4>1. exec'.pc = "wild"  BY <1>1, <1>2, <3>2 DEF init_data, exec_type
      <4> QED  BY <4>1 DEF ControlBlock, Down
    <3> QED  BY <3>1, <3>2
  <2>5. ExecOK'  BY <2>2 DEF ExecOK, InOp, Updating, JobPCs, StringPCs
  <2>6. UNCHANGED <<file, disk>>  BY <1>2 DEF init_data
  <2> QED  BY <2>2, <2>3, <2>4, <2>5, <2>6, Unfold DEF IInv, TypeOK, File
<1>3. CASE kill \/ quit
  BY <1>3, StopStep DEF kill, quit, AllFlushed
<1> QED  BY <1>2, <1>3

(* RelateInv is kept too: by every step that leaves the jobs alone,        *)
(* because of where it leads, and by those that give new ones.             *)
OfCells == StringPCs \cup {"create_cell", "update_node"}

LEMMA RelateKept ==
  ASSUME RelateInv, ~ Down, exec'.jobs = exec.jobs, exec'.strings = exec.strings,
         Place' = "next_second" => job.op = "relate",
         Place' \in OfCells => job.op \in {"add", "put", "relate"},
         Place \in StringPCs /\ Place' \notin StringPCs => job.op # "relate"
  PROVE  RelateInv'
BY DEF RelateInv, OfCells, job

LEMMA RelateElsewhere ==
  ASSUME RelateInv, ~ Down, exec'.jobs = exec.jobs, exec'.strings = exec.strings,
         Place \notin StringPCs, Place' \notin OfCells, Place' # "next_second"
  PROVE  RelateInv'
BY RelateKept

LEMMA RelateOver ==
  ASSUME IInv, RelateInv, exec'.jobs \in {exec.jobs, << >>}, Down'
  PROVE  RelateInv'
<1>1. Place' \in {"down", "wild"}  BY DEF Place, Down, Updating
<1>2. \A i \in 2 .. Len(exec'.jobs) : exec'.jobs[i].op # "relate"
  BY DEF RelateInv
<1> QED  BY <1>1, <1>2 DEF RelateInv, StringPCs

LEMMA RelateWild ==
  ASSUME IInv, RelateInv, Wild
  PROVE  RelateInv'
BY RelateOver, Unfold DEF Wild, exec_type, Down

LEMMA RelateStop ==
  ASSUME IInv, RelateInv, Stop
  PROVE  RelateInv'
BY RelateOver DEF Stop, Idle, Down

LEMMA RelateAllocated ==
  ASSUME IInv, RelateInv, ~ Down, NEW type \in Pool, NEW ret \in OfCells \cup {"create_node_cell"},
         allocate_new_block(type, ret), ret \in OfCells => Place \in OfCells,
         Place \in StringPCs => ret \in StringPCs
  PROVE  RelateInv'
<1>1. PICK pc \in {"chain_node_block", "update_control_block"} :
        exec' = [exec EXCEPT !.pc = pc, !.ret = ret]
  BY DEF allocate_new_block, UpdateControlThen
<1>2. /\ exec'.jobs = exec.jobs /\ exec'.strings = exec.strings
      /\ exec'.pc = pc /\ exec'.ret = ret
  BY <1>1, Unfold DEF exec_type
<1>3. Place' = ret  BY <1>2 DEF Place, Updating
<1>4. Place \in OfCells => job.op \in {"add", "put", "relate"}  BY DEF RelateInv, OfCells
<1>5. ret # "next_second"  BY DEF OfCells, StringPCs
<1> QED  BY <1>2, <1>3, <1>4, <1>5, RelateKept

LEMMA RelateWritten ==
  ASSUME IInv, RelateInv, update_control_block \/ chain_node_block \/ chain_update_control
  PROVE  RelateInv'
<1>1. /\ exec'.jobs = exec.jobs /\ exec'.strings = exec.strings /\ exec'.ret = exec.ret
      /\ exec'.pc \in {exec.ret, "chain_update_control", "update_control_block"}
  BY Unfold
  DEF update_control_block, chain_node_block, chain_update_control, UpdateControlThen, exec_type
<1>2. ~ Down /\ Place = exec.ret /\ Place' = exec.ret
  BY <1>1 DEF update_control_block, chain_node_block, chain_update_control, Down, Place, Updating
<1>3. /\ Place = "next_second" => job.op = "relate"
      /\ Place \in OfCells => job.op \in {"add", "put", "relate"}
  BY DEF RelateInv, OfCells
<1> QED  BY <1>1, <1>2, <1>3, RelateKept

LEMMA RelateNodes ==
  ASSUME IInv, RelateInv, create_node_cell \/ free_node \/ write_value
  PROVE  RelateInv'
<1>1. ~ Down /\ Place \notin OfCells
  BY DEF create_node_cell, free_node, write_value, Down, Place, Updating, OfCells, StringPCs
<1>2. CASE Wild  BY <1>2, RelateWild
<1>3. CASE allocate_new_block("NODE", "create_node_cell")
  <2>1. "create_node_cell" \notin OfCells /\ Place \notin StringPCs
    BY <1>1 DEF OfCells, StringPCs
  <2> QED  BY <1>1, <1>3, <2>1, RelateAllocated DEF Pool
<1>4. ASSUME ~ Wild, ~ allocate_new_block("NODE", "create_node_cell")  PROVE RelateInv'
  <2>1. /\ exec'.jobs = exec.jobs /\ exec'.strings = exec.strings
        /\ \/ exec'.pc = "next"
           \/ exec'.pc = "update_control_block" /\ exec'.ret = "next"
    BY <1>4, Unfold DEF create_node_cell, free_node, write_value, exec_type
  <2>2. Place' = "next"  BY <2>1 DEF Place, Updating
  <2>3. Place \notin StringPCs /\ "next" \notin OfCells  BY <1>1 DEF OfCells, StringPCs
  <2> QED  BY <1>1, <2>1, <2>2, <2>3, RelateElsewhere
<1> QED  BY <1>2, <1>3, <1>4

LEMMA RelateStrings ==
  ASSUME IInv, RelateInv, create_string_cell \/ string_in_new_block
  PROVE  RelateInv'
<1>1. ~ Down /\ Place \in StringPCs /\ Place \in OfCells
  BY DEF create_string_cell, string_in_new_block, Down, Place, Updating, OfCells, StringPCs
<1>2. CASE Wild  BY <1>2, RelateWild
<1>3. ASSUME NEW ret \in StringPCs, allocate_new_block("STRING", ret)  PROVE RelateInv'
  BY <1>1, <1>3, RelateAllocated DEF Pool, OfCells
<1>4. ASSUME NEW p, StringDone(p)  PROVE RelateInv'
  <2> DEFINE ret == IF Len(exec.texts) > 1 THEN "create_string_cell"
                    ELSE IF job.op = "relate" THEN "next"
                    ELSE IF exec.current # Null THEN "write_value" ELSE "create_cell"
  <2>1. /\ exec'.jobs = exec.jobs /\ exec'.strings = Append(exec.strings, p)
        /\ exec'.pc = "update_control_block" /\ exec'.ret = ret
    BY <1>4, Unfold DEF StringDone, exec_type
  <2>2. Place' = ret /\ ret # "next_second"  BY <2>1 DEF Place, Updating
  <2>3. Len(exec'.strings) >= 1
    <3>1. exec.strings \in Seq(cell_ptr)  BY Unfold DEF exec_type
    <3> QED  BY <2>1, <3>1
  <2>4. job.op \in {"add", "put", "relate"}  BY <1>1 DEF RelateInv, OfCells
  <2> QED  BY <2>1, <2>2, <2>3, <2>4 DEF RelateInv, job
<1>5. \/ Wild
      \/ \E ret \in StringPCs : allocate_new_block("STRING", ret)
      \/ \E p : StringDone(p)
  BY DEF create_string_cell, string_in_new_block, StringPCs
<1> QED  BY <1>2, <1>3, <1>4, <1>5

LEMMA RelateCells ==
  ASSUME IInv, RelateInv, NEW kind \in CellKind, create_cell(kind) \/ update_node(kind)
  PROVE  RelateInv'
<1>1. /\ ~ Down /\ Place \in OfCells /\ Place \notin StringPCs
      /\ exec.pc \in JobPCs /\ job.kind = kind
  BY DEF create_cell, update_node, Down, Place, Updating, OfCells, StringPCs, JobPCs
<1>2. job.op \in {"add", "put", "relate"}  BY <1>1 DEF RelateInv, OfCells
<1>3. kind = "RELATION" => job.op = "relate"
  BY <1>1, <1>2, AtHand, JobType DEF JobsAtHand, job
<1>4. CASE Wild  BY <1>4, RelateWild
<1>5. CASE allocate_new_block(kind, "create_cell")
  BY <1>1, <1>5, RelateAllocated DEF Pool, CellKind, OfCells
<1>6. ASSUME ~ Wild, ~ allocate_new_block(kind, "create_cell")  PROVE RelateInv'
  <2>1. /\ exec'.jobs = exec.jobs /\ exec'.strings = exec.strings
        /\ \/ exec'.pc = "update_control_block" /\ exec'.ret = "update_node"
           \/ exec'.pc = "next"
           \/ exec'.pc = "next_second" /\ kind = "RELATION"
    BY <1>6, Unfold DEF create_cell, update_node, exec_type
  <2>2. \/ Place' \in {"update_node", "next"}
        \/ Place' = "next_second" /\ kind = "RELATION"
    BY <2>1 DEF Place, Updating
  <2> QED  BY <1>1, <1>2, <1>3, <2>1, <2>2, RelateKept
<1> QED  BY <1>4, <1>5, <1>6

LEMMA RelateFound ==
  ASSUME IInv, RelateInv, find_node_attribute
  PROVE  RelateInv'
<1>1. /\ ~ Down /\ Place = "find_node_attribute" /\ Place \notin StringPCs /\ job.op = "put"
  BY DEF find_node_attribute, Down, Place, Updating, StringPCs, IInv, ExecOK, InOp
<1>2. /\ exec'.jobs = exec.jobs /\ exec'.strings = exec.strings
      /\ exec'.pc \in {"find_node_attribute", "create_string_cell", "wild"}
  BY Unfold DEF find_node_attribute, exec_type
<1>3. Place' # "next_second"  BY <1>2 DEF Place, Updating
<1> QED  BY <1>1, <1>2, <1>3, RelateKept

LEMMA RelateRemoved ==
  ASSUME IInv, RelateInv, free_cell \/ \E kind \in CellKind : remove_cell(kind)
  PROVE  RelateInv'
<1>1. ~ Down /\ Place \notin StringPCs
  BY DEF remove_cell, free_cell, Down, Place, Updating, StringPCs
<1>2. CASE Wild  BY <1>2, RelateWild
<1>3. CASE Stop  BY <1>3, RelateStop
<1>4. ASSUME ~ Wild, ~ Stop  PROVE RelateInv'
  <2>1. /\ exec'.jobs = exec.jobs /\ exec'.strings = exec.strings
        /\ \/ exec'.pc \in {"next", "remove", "free_cell"}
           \/ exec'.pc = "update_control_block" /\ exec'.ret = "remove"
    <3>1. CASE free_cell  BY <1>4, <3>1, Unfold, ZenonT(60) DEF free_cell, exec_type
    <3>2. ASSUME NEW kind \in CellKind, remove_cell(kind)
          PROVE  /\ exec'.jobs = exec.jobs /\ exec'.strings = exec.strings
                 /\ exec'.pc \in {"next", "remove", "free_cell"}
      <4> DEFINE p == exec.current
                 old == CellAt(file, p)
                 lost == exec.lost_place \/ (kind = "RELATION" /\ Named(old))
      <4>1. \/ exec' = [exec EXCEPT !.pc = "next"]
            \/ exec' = [exec EXCEPT !.prev = p, !.current = old.prev, !.lost_place = lost]
            \/ exec' = [exec EXCEPT !.pc = "free_cell", !.following = old.prev,
                                    !.lost_place = lost]
        BY <1>4, <3>2 DEF remove_cell
      <4> HIDE DEF p, old, lost
      <4>2. exec.pc = "remove"  BY <3>2 DEF remove_cell
      <4> QED  BY <4>1, <4>2, Unfold DEF exec_type
    <3> QED  BY <3>1, <3>2
  <2>2. Place' \in {"next", "remove", "free_cell"}  BY <2>1 DEF Place, Updating
  <2> QED  BY <1>1, <2>1, <2>2, RelateElsewhere DEF OfCells, StringPCs
<1> QED  BY <1>2, <1>3, <1>4

LEMMA RelateLoops ==
  ASSUME IInv, RelateInv, next_node \/ next_second \/ next_job \/ respond
  PROVE  RelateInv'
<1>1. ~ Down /\ Place \notin StringPCs
  BY DEF next_node, next_second, next_job, respond, Down, Place, Updating, StringPCs
<1>2. exec.jobs \in Seq(Job)  BY Unfold DEF exec_type
<1>3. CASE next_node
  <2>1. /\ exec.jobs # << >> /\ job.op \in {"add", "put", "relate", "remove", "free"}
        /\ exec'.jobs = exec.jobs
        /\ job.op = "relate" => exec'.strings = exec.strings
        /\ exec'.pc \in {Entry(job.op), "wild"}
    <3>1. exec.jobs # << >>  BY <1>3 DEF next_node
    <3>2. job.op \in {"add", "put", "relate", "remove", "free"}
      BY <1>2, <3>1, JobType DEF job
    <3> DEFINE entry == Entry(job.op)
               texts == IF job.op = "add" THEN Texts(job) ELSE << >>
               strings == IF job.op = "relate" THEN exec.strings ELSE << >>
               current(p) == IF job.op \in {"put", "remove"}
                             THEN NodeAt(file, p).last[job.kind] ELSE Null
    <3>3. PICK p \in exec.left :
             \/ exec' = [exec EXCEPT
                  !.pc = entry, !.left = @ \ {p}, !.node = p, !.prev = p,
                  !.texts = texts, !.strings = strings, !.following = Null,
                  !.has_changed = FALSE, !.others = exec.seconds, !.lost_place = FALSE,
                  !.current = current(p)]
             \/ exec' = [exec EXCEPT !.pc = "wild"]
      BY <1>3 DEF next_node
    <3>4. job.op = "relate" => strings = exec.strings  OBVIOUS
    <3>5. exec \in exec_type  BY Unfold
    <3> HIDE DEF entry, texts, strings, current
    <3>6. /\ exec'.jobs = exec.jobs
          /\ exec'.strings \in {strings, exec.strings}
          /\ exec'.pc \in {entry, "wild"}
      BY <3>3, <3>5 DEF exec_type
    <3> QED  BY <3>1, <3>2, <3>4, <3>6 DEF entry
  <2>2. /\ Place' \in {Entry(job.op), "wild"}
        /\ Place' = "next_second" => job.op = "relate"
        /\ Place' \in OfCells => job.op = "add"
    BY <2>1 DEF Place, Updating, Entry, OfCells, StringPCs
  <2>3. job.op = "relate" => Len(exec.strings) >= 1  BY <1>1, <2>1 DEF RelateInv
  <2> QED  BY <2>1, <2>2, <2>3 DEF RelateInv, OfCells, job
<1>4. CASE next_second
  <2>1. /\ exec'.jobs = exec.jobs /\ exec'.strings = exec.strings
        /\ exec'.pc \in {"next", "create_cell"}
    BY <1>4, Unfold DEF next_second, exec_type
  <2>2. Place = "next_second" /\ Place' \in {"next", "create_cell"}
    BY <1>4, <2>1 DEF next_second, Place, Updating
  <2>3. job.op = "relate"  BY <2>2 DEF RelateInv
  <2> QED  BY <1>1, <2>1, <2>2, <2>3, RelateKept
<1>5. CASE next_job
  <2>1. /\ exec.jobs # << >> /\ exec'.jobs = Tail(exec.jobs) /\ exec'.pc = "next"
    BY <1>5, Unfold DEF next_job, exec_type
  <2>2. Place' = "next"  BY <2>1 DEF Place, Updating
  <2>3. \A i \in 1 .. Len(exec'.jobs) : exec'.jobs[i].op # "relate"
    <3>1. \A i \in 1 .. Len(exec'.jobs) :
            i + 1 \in 2 .. Len(exec.jobs) /\ exec'.jobs[i] = exec.jobs[i + 1]
      BY <1>2, <2>1
    <3> QED  BY <3>1 DEF RelateInv
  <2>4. exec'.jobs # << >> => job'.op # "relate"
    <3>1. exec'.jobs \in Seq(Job)  BY <1>2, <2>1
    <3> QED  BY <2>3, <3>1 DEF job
  <2> QED  BY <2>2, <2>3, <2>4 DEF RelateInv, StringPCs
<1>6. CASE respond
  <2>1. exec'.jobs = << >> /\ exec'.pc = "idle"  BY <1>6 DEF respond, Idle
  <2> QED  BY <2>1 DEF RelateInv, Place, Updating, StringPCs
<1> QED  BY <1>3, <1>4, <1>5, <1>6

NoneRelates(jobs) == jobs \in Seq(Job) /\ \A i \in 1 .. Len(jobs) : jobs[i].op # "relate"

LEMMA JobsRelate ==
  ASSUME NEW info \in Commands,
         info.command_type # "create" \/ ~ info.has_relation
  PROVE  NoneRelates(Jobs(info))
<1>1. info \in query_info  BY CommandsAssumption
<1>2. /\ info.labels \in Seq(String) /\ info.props \in Seq(property)
      /\ info.changed_labels \in Seq(String) /\ info.changed_props \in Seq(property)
  BY <1>1 DEF query_info
<1>3. Jobs(info) \in Seq(Job)  BY JobsType
<1>4. ASSUME NEW op1 \in {"add", "remove"}, NEW op2 \in {"add", "put", "remove"},
             NEW ls \in Seq(String), NEW ps \in Seq(property)
      PROVE  \A i \in 1 .. Len(LabelJobs(op1, ls) \o PropJobs(op2, ps)) :
               (LabelJobs(op1, ls) \o PropJobs(op2, ps))[i].op # "relate"
  <2> DEFINE s == LabelJobs(op1, ls)
             t == PropJobs(op2, ps)
             W == [op : {"add", "put", "remove"}, kind : {"LABEL", "ATTRIBUTE"},
                   name : String, value : String \cup {ALL}]
  <2>1. s \in Seq(W)  BY DEF LabelJobs, LabelJob
  <2>2. t \in Seq(W)
    <3>1. \A p \in property : PropJob(op2, p) \in W  BY DEF PropJob, property
    <3> QED  BY <3>1 DEF PropJobs
  <2>3. \A w \in W : w.op # "relate"  OBVIOUS
  <2> HIDE DEF s, t, W
  <2>4. s \o t \in Seq(W)  BY <2>1, <2>2
  <2>5. \A i \in 1 .. Len(s \o t) : (s \o t)[i] \in W  BY <2>4
  <2> QED  BY <2>3, <2>5 DEF s, t
<1>5. CASE info.command_type \in {"create", "set", "remove"}
  <2>1. PICK op1 \in {"add", "remove"}, op2 \in {"add", "put", "remove"},
             ls \in Seq(String), ps \in Seq(property) :
          Jobs(info) = LabelJobs(op1, ls) \o PropJobs(op2, ps)
    BY <1>2, <1>5 DEF Jobs
  <2> QED  BY <1>3, <1>4, <2>1 DEF NoneRelates
<1>6. CASE info.command_type \notin {"create", "set", "remove"}
  <2>1. Jobs(info) = IF info.has_relation THEN << RelationJob("remove", info.rel_name) >>
                     ELSE delete_nodes
    BY <1>6 DEF Jobs
  <2> QED  BY <1>3, <2>1 DEF NoneRelates, RelationJob, delete_nodes, AllOf
<1> QED  BY <1>5, <1>6

LEMMA RelateExecuting ==
  ASSUME IInv, RelateInv, Execute
  PROVE  RelateInv'
<1>1. PICK info \in Commands : \/ execute_match(info) \/ execute_create(info)
                               \/ execute_create_relation(info)
                               \/ execute_set(info) \/ execute_remove(info)
                               \/ execute_delete(info)
  BY DEF Execute
<1>2. \/ exec'.jobs = << >> /\ exec'.pc \in {"idle", "wild"}
      \/ /\ info.command_type # "create" \/ ~ info.has_relation
         /\ exec'.jobs = Jobs(info) /\ exec'.pc \in {"create_node_cell", "next"}
      \/ /\ info.command_type = "create" /\ info.has_relation
         /\ exec'.jobs = Jobs(info) /\ exec'.pc = "create_string_cell"
  <2>1. CASE execute_match(info)  BY <2>1 DEF execute_match, OnMatched, Respond, Idle
  <2>2. CASE execute_create(info)  BY <2>2 DEF execute_create, Idle
  <2>3. CASE execute_set(info)  BY <2>3 DEF execute_set, OnMatched, Starting, Run, Idle
  <2>4. CASE execute_remove(info)  BY <2>4 DEF execute_remove, OnMatched, Starting, Run, Idle
  <2>5. CASE execute_delete(info)  BY <2>5 DEF execute_delete, OnMatched, Starting, Run, Idle
  <2>6. CASE execute_create_relation(info)
    BY <2>6 DEF execute_create_relation, Starting, Idle
  <2> QED  BY <1>1, <2>1, <2>2, <2>3, <2>4, <2>5, <2>6
<1>3. CASE exec'.jobs = << >> /\ exec'.pc \in {"idle", "wild"}
  <2>1. Place' \in {"idle", "wild"}  BY <1>3 DEF Place, Updating
  <2> QED  BY <1>3, <2>1 DEF RelateInv, StringPCs
<1>4. CASE /\ info.command_type # "create" \/ ~ info.has_relation
           /\ exec'.jobs = Jobs(info) /\ exec'.pc \in {"create_node_cell", "next"}
  <2>1. Place' \in {"create_node_cell", "next"}  BY <1>4 DEF Place, Updating
  <2>2. \A i \in 1 .. Len(exec'.jobs) : exec'.jobs[i].op # "relate"
    BY <1>4, JobsRelate DEF NoneRelates
  <2>3. exec'.jobs # << >> => job'.op # "relate"
    <3>1. exec'.jobs \in Seq(Job)  BY <1>4, JobsType
    <3> QED  BY <2>2, <3>1 DEF job
  <2> QED  BY <2>1, <2>2, <2>3 DEF RelateInv, StringPCs
<1>5. CASE /\ info.command_type = "create" /\ info.has_relation
           /\ exec'.jobs = Jobs(info) /\ exec'.pc = "create_string_cell"
  <2>1. exec'.jobs = << RelationJob("relate", info.rel_name) >>  BY <1>5 DEF Jobs
  <2>2. job'.op = "relate" /\ Len(exec'.jobs) = 1  BY <2>1 DEF job, RelationJob
  <2>3. Place' = "create_string_cell"  BY <1>5 DEF Place, Updating
  <2> QED  BY <2>2, <2>3 DEF RelateInv, StringPCs
<1> QED  BY <1>2, <1>3, <1>4, <1>5

LEMMA RelateInductive ==
  ASSUME IInv, RelateInv, [Next]_vars
  PROVE  RelateInv'
<1>1. CASE Step
  <2>1. CASE create_label_cell \/ create_attribute_cell \/ create_relation_cell
    BY <2>1, RelateCells DEF create_label_cell, create_attribute_cell, create_relation_cell, CellKind
  <2>2. CASE update_node_labels \/ update_node_attributes \/ update_node_relations
    BY <2>2, RelateCells
    DEF update_node_labels, update_node_attributes, update_node_relations, CellKind
  <2>3. CASE remove_labels \/ remove_attributes \/ delete_relations \/ free_cell
    BY <2>3, RelateRemoved DEF remove_labels, remove_attributes, delete_relations, CellKind
  <2> QED
    BY <1>1, <2>1, <2>2, <2>3, RelateWritten, RelateNodes, RelateLoops, RelateStrings, RelateFound
    DEF Step
<1>2. CASE Execute  BY <1>2, RelateExecuting
<1>3. CASE kill \/ quit  BY <1>3, RelateStop DEF kill, quit
<1>4. CASE init_data
  <2>1. exec' = Idle \/ exec' = [Idle EXCEPT !.pc = "wild"]  BY <1>4 DEF init_data
  <2>2. exec'.jobs = << >> /\ exec'.pc \in {"idle", "wild"}  BY <2>1 DEF Idle
  <2> QED  BY <2>2 DEF RelateInv, Place, Updating, StringPCs
<1>5. CASE UNCHANGED vars
  BY <1>5 DEF vars, RelateInv, Place, Down, Updating, job
<1> QED  BY <1>1, <1>2, <1>3, <1>4, <1>5 DEF Next

(* IInv and RelateInv are inductive together: one case per action.         *)
LEMMA Inductive == IInv /\ RelateInv /\ [Next]_vars => (IInv /\ RelateInv)'
<1> SUFFICES ASSUME IInv, RelateInv, [Next]_vars  PROVE IInv'
  BY RelateInductive
<1>1. CASE Step
  <2>1. CASE create_label_cell \/ create_attribute_cell \/ create_relation_cell
    BY <2>1, CreateCell DEF create_label_cell, create_attribute_cell, create_relation_cell, CellKind
  <2>2. CASE update_node_labels \/ update_node_attributes \/ update_node_relations
    BY <2>2, UpdateNode
    DEF update_node_labels, update_node_attributes, update_node_relations, CellKind
  <2>3. CASE remove_labels \/ remove_attributes \/ delete_relations
    BY <2>3, RemoveCell DEF remove_labels, remove_attributes, delete_relations, CellKind
  <2> QED
    BY <1>1, <2>1, <2>2, <2>3, UpdateControlBlock, ChainNodeBlock, ChainUpdateControl,
       CreateNodeCell, NextNode, NextSecond, NextJobOrRespond, CreateStringCell,
       StringInNewBlock, FindNodeAttribute, WriteValue, FreeOneCell, FreeNode
    DEF Step
<1>2. CASE Execute  BY <1>2, Executing
<1>3. CASE init_data \/ kill \/ quit  BY <1>3, StartOrStop
<1>4. CASE UNCHANGED vars
  BY <1>4 DEF vars, IInv, TypeOK, ControlBlock, Down, ExecOK, InOp, Updating, CellTexts, job
<1> QED  BY <1>1, <1>2, <1>3, <1>4 DEF Next

(* The file, the memory copy of block 0 and the executor always hold what  *)
(* their C types say, whatever commands come and whenever the process is   *)
(* killed: no write ever leaves the block it is meant for, no pool hands   *)
(* out an address outside the file, no control block is overwritten.       *)
THEOREM TypeCorrect == Spec => []TypeOK
<1>1. IInv => TypeOK  BY DEF IInv
<1> QED  BY <1>1, Initially, Inductive, PTL DEF Spec

-----------------------------------------------------------------------------
(* ControlCoherent.  Most of what it needs is in IInv; beyond it, that     *)
(* while the cells of a node are removed prev is the node or a cell, so    *)
(* that a node of block 0 is not rewritten where the code takes it for a   *)
(* node of another block, and that the writes of the control block return  *)
(* to none of themselves.                                                  *)
UpdatingPCs == {"chain_node_block", "chain_update_control", "update_control_block"}
RemovingPCs == {"remove", "free_cell"}
Removing == \/ exec.pc \in RemovingPCs
            \/ exec.pc = "update_control_block" /\ exec.ret \in RemovingPCs
PrevOK == Removing => \/ exec.prev = exec.node
                      \/ \E kind \in CellKind : IsCell(file, kind, exec.prev)
RetOK ==
  /\ exec.pc \in {"chain_node_block", "chain_update_control"} => exec.ret = "create_node_cell"
  /\ exec.pc = "update_control_block" => exec.ret \notin UpdatingPCs
CInv == IInv /\ ControlCoherent /\ PrevOK /\ RetOK

LEMMA Coherent ==
  ASSUME ctrl_block'.nodes = file'[0].nodes, Updating' \/ ctrl_block' = file'[0]
  PROVE  ControlCoherent'
BY DEF ControlCoherent

LEMMA Elsewhere ==
  ASSUME exec'.pc \notin UpdatingPCs \cup RemovingPCs
  PROVE  PrevOK' /\ RetOK'
BY DEF PrevOK, Removing, RetOK, UpdatingPCs, RemovingPCs

LEMMA ReturningElsewhere ==
  ASSUME exec'.pc = "update_control_block", exec'.ret \notin UpdatingPCs \cup RemovingPCs
  PROVE  PrevOK' /\ RetOK'
BY DEF PrevOK, Removing, RetOK, UpdatingPCs, RemovingPCs

LEMMA CellKept ==
  ASSUME \A b \in Block : file'[b].type = file[b].type,
         NEW kind, NEW p, IsCell(file, kind, p)
  PROVE  IsCell(file', kind, p)
BY DEF IsCell

LEMMA WildCoherent ==
  ASSUME CInv, Wild
  PROVE  CInv'
<1>1. exec'.pc = "wild"  BY Unfold DEF Wild, exec_type, CInv
<1>2. ControlCoherent'  BY <1>1 DEF ControlCoherent, Down
<1> QED  BY <1>1, <1>2, Elsewhere, WildStep DEF CInv, UpdatingPCs, RemovingPCs

(* A step that only reads, outside the writes of the control block.        *)
LEMMA ReadCoherent ==
  ASSUME CInv, ~ Down, ~ Updating, UNCHANGED <<file, ctrl_block>>
  PROVE  ControlCoherent'
BY Coherent DEF CInv, ControlCoherent

(* A step that writes a block other than block 0.                          *)
LEMMA OtherBlock ==
  ASSUME CInv, ~ Down, file'[0] = file[0], ctrl_block'.nodes = ctrl_block.nodes,
         Updating' \/ (~ Updating /\ ctrl_block' = ctrl_block)
  PROVE  ControlCoherent'
BY Coherent DEF CInv, ControlCoherent

LEMMA UpdateControlCoherent ==
  ASSUME CInv, update_control_block
  PROVE  CInv'
<1>1. exec'.pc = exec.ret /\ exec'.ret = exec.ret /\ exec'.prev = exec.prev /\ exec'.node = exec.node
  BY Unfold DEF update_control_block, exec_type, CInv
<1>2. exec.pc = "update_control_block" /\ ~ Down  BY DEF update_control_block, Down
<1>3. 0 \in Block /\ file'[0] = ctrl_block /\ ctrl_block' = ctrl_block
  BY Unfold, LayoutAssumption DEF update_control_block, CInv, File, Block
<1>4. ControlCoherent'  BY <1>3, Coherent
<1>5. PrevOK'
  <2>1. \A b \in Block : file'[b].type = file[b].type
    BY <1>2, <1>3, Unfold DEF update_control_block, CInv, IInv, ControlBlock, control_block, File
  <2>2. Removing' => Removing
    BY <1>1, <1>2 DEF Removing, CInv, RetOK, RemovingPCs, UpdatingPCs
  <2> QED  BY <1>1, <2>1, <2>2, CellKept DEF PrevOK, CInv
<1>6. RetOK'  BY <1>1, <1>2 DEF RetOK, CInv, UpdatingPCs
<1> QED  BY <1>4, <1>5, <1>6, UpdateControlBlock DEF CInv

LEMMA AllocateCoherent ==
  ASSUME CInv, ~ Down, NEW type \in Pool, NEW ret, allocate_new_block(type, ret),
         ret \notin UpdatingPCs \cup RemovingPCs, type = "NODE" => ret = "create_node_cell"
  PROVE  ControlCoherent' /\ PrevOK' /\ RetOK'
<1>1. PICK pc \in {"chain_node_block", "update_control_block"} :
        /\ exec' = [exec EXCEPT !.pc = pc, !.ret = ret]
        /\ pc = "chain_node_block" => ret = "create_node_cell"
  BY DEF allocate_new_block, UpdateControlThen
<1>2. exec'.pc = pc /\ exec'.ret = ret  BY <1>1, Unfold DEF exec_type, CInv
<1>3. ctrl_block'.nodes = ctrl_block.nodes
  <2>1. ctrl_block \in control_block  BY Unfold DEF CInv
  <2> QED  BY <2>1 DEF allocate_new_block, control_block
<1>4. file'[0] = file[0]
  BY Unfold, LayoutAssumption DEF allocate_new_block, CInv, File
<1>5. Updating'  BY <1>2 DEF Updating
<1> QED
  BY <1>1, <1>2, <1>3, <1>4, <1>5, OtherBlock
  DEF PrevOK, Removing, RetOK, UpdatingPCs, RemovingPCs

LEMMA ChainCoherent ==
  ASSUME CInv, chain_node_block \/ chain_update_control
  PROVE  CInv'
<1>1. ctrl_block \in control_block /\ file \in File /\ exec \in exec_type  BY Unfold DEF CInv
<1>2. exec.ret = "create_node_cell" /\ ~ Down
  BY DEF CInv, RetOK, chain_node_block, chain_update_control, Down
<1>3. CASE chain_node_block
  <2>1. exec'.pc = "chain_update_control" /\ exec'.ret = exec.ret
    BY <1>1, <1>3 DEF chain_node_block, exec_type
  <2>2. file'[0] = file[0]
    BY <1>1, <1>3, Unfold, LayoutAssumption DEF chain_node_block, CInv, File
  <2>3. ctrl_block'.nodes = ctrl_block.nodes
    BY <1>1, <1>3 DEF chain_node_block, control_block
  <2>4. ControlCoherent'  BY <1>2, <2>1, <2>2, <2>3, OtherBlock DEF Updating
  <2> QED  BY <1>2, <1>3, <2>1, <2>4, ChainNodeBlock
           DEF CInv, PrevOK, Removing, RetOK, RemovingPCs
<1>4. CASE chain_update_control
  <2>1. exec'.pc = "update_control_block" /\ exec'.ret = exec.ret
    BY <1>1, <1>4 DEF chain_update_control, UpdateControlThen, exec_type
  <2>2. file'[0] = ctrl_block
    BY <1>1, <1>4, LayoutAssumption DEF chain_update_control, File, Block
  <2>3. ctrl_block'.nodes = ctrl_block.nodes
    BY <1>1, <1>4 DEF chain_update_control, control_block
  <2>4. ControlCoherent'  BY <2>1, <2>2, <2>3, Coherent DEF Updating
  <2>5. PrevOK' /\ RetOK'
    BY <1>2, <2>1, ReturningElsewhere DEF UpdatingPCs, RemovingPCs
  <2> QED  BY <1>4, <2>4, <2>5, ChainUpdateControl DEF CInv
<1> QED  BY <1>3, <1>4

(* Writes of a node: in block 0 the memory copy is read again, in another  *)
(* block it is not concerned.                                              *)
LEMMA NodeWrite ==
  ASSUME CInv, NEW p, IsNode(file, p), NEW n \in node_cell, file' = WriteNode(file, p, n), ~ Down
  PROVE  /\ file'[0] \in control_block
         /\ p.block_num # 0 => file'[0] = file[0]
<1>1. WritesBlock(file, file', p.block_num)  BY Unfold, WriteNodeType DEF CInv
<1>2. file'[0] \in block /\ file'[0].type = "CONTROL"
  BY <1>1, LayoutAssumption DEF WritesBlock, File, Block, CInv, IInv, ControlBlock
<1> QED  BY <1>1, <1>2, BlockForm, LayoutAssumption DEF WritesBlock, Block

LEMMA CreateNodeCoherent ==
  ASSUME CInv, create_node_cell
  PROVE  CInv'
<1> DEFINE h == ctrl_block.head["NODE"]
           new == [ZeroNode EXCEPT !.is_empty = 1]
           after == HeadAfter(h, NodeAt(file, h).last["LABEL"], NodesIn(h.block_num))
<1>1. exec.pc = "create_node_cell" /\ ~ Down /\ ~ Updating
  BY DEF create_node_cell, Down, Updating
<1>2. IInv'  BY CreateNodeCell DEF CInv
<1>3. ctrl_block \in control_block  BY Unfold DEF CInv
<1>4. CASE h.block_num = -1
  <2>1. allocate_new_block("NODE", "create_node_cell")
    BY <1>4 DEF create_node_cell
  <2> QED  BY <1>1, <1>2, <2>1, AllocateCoherent DEF Pool, UpdatingPCs, RemovingPCs, CInv
<1>5. CASE Wild  BY <1>5, WildCoherent
<1>6. CASE h.block_num # -1 /\ IsNode(file, h) /\ ~ Wild
  <2> HIDE DEF after
  <2>1. /\ file' = WriteNode(file, h, new)
        /\ IF h.block_num = 0 THEN ctrl_block' = [file'[0] EXCEPT !.head["NODE"] = after]
           ELSE ctrl_block' = [ctrl_block EXCEPT !.head["NODE"] = after]
        /\ exec' = [exec EXCEPT !.pc = "update_control_block", !.ret = "next",
                                !.matched = {h}, !.left = {h}]
    BY <1>6 DEF create_node_cell, after
  <2>2. exec'.pc = "update_control_block" /\ exec'.ret = "next"
    BY <2>1, Unfold DEF exec_type, CInv
  <2>3. new \in node_cell  BY ZeroTypes DEF node_cell
  <2>4. file'[0] \in control_block /\ (h.block_num # 0 => file'[0] = file[0])
    BY <1>1, <1>6, <2>1, <2>3, NodeWrite
  <2>5. ctrl_block'.nodes = file'[0].nodes
    BY <1>1, <1>3, <2>1, <2>4 DEF control_block, CInv, ControlCoherent
  <2>6. ControlCoherent'  BY <2>2, <2>5, Coherent DEF Updating
  <2>7. PrevOK' /\ RetOK'  BY <2>2, ReturningElsewhere DEF UpdatingPCs, RemovingPCs
  <2> QED  BY <1>2, <2>6, <2>7 DEF CInv
<1> QED  BY <1>4, <1>5, <1>6 DEF create_node_cell

LEMMA UpdateNodeCoherent ==
  ASSUME CInv, NEW kind \in CellKind, update_node(kind)
  PROVE  CInv'
<1>1. CASE Wild  BY <1>1, WildCoherent
<1>2. CASE ~ Wild
  <2>1. PICK pc \in {"next", "next_second"} :
          exec' = [exec EXCEPT !.pc = pc] /\ ctrl_block' = file'[0]
    BY <1>2 DEF update_node
  <2>2. exec'.pc = pc  BY <2>1, Unfold DEF exec_type, CInv
  <2> QED  BY <2>1, <2>2, UpdateNode, Coherent, Elsewhere DEF UpdatingPCs, RemovingPCs, CInv
<1> QED  BY <1>1, <1>2

LEMMA FreeNodeCoherent ==
  ASSUME CInv, free_node
  PROVE  CInv'
<1> DEFINE p == exec.node
           freed == [NodeAt(file, p) EXCEPT !.is_empty = 0,
                                            !.last["LABEL"] = ctrl_block.head["NODE"]]
<1>1. exec.pc = "free_node" /\ ~ Down  BY DEF free_node, Down
<1>2. CASE Wild  BY <1>2, WildCoherent
<1>3. CASE IsNode(file, p) /\ ~ Wild
  <2>1. /\ file' = WriteNode(file, p, freed)
        /\ ctrl_block' = [file'[0] EXCEPT !.head["NODE"] = p]
        /\ exec' = [exec EXCEPT !.pc = "update_control_block", !.ret = "next"]
    BY <1>3 DEF free_node
  <2>2. exec'.pc = "update_control_block" /\ exec'.ret = "next"
    BY <2>1, Unfold DEF exec_type, CInv
  <2>3. freed \in node_cell
    BY <1>3, NodeAtType, Unfold DEF node_cell, Pool, CellKind, CInv
  <2>4. file'[0] \in control_block  BY <1>1, <1>3, <2>1, <2>3, NodeWrite
  <2>5. ctrl_block'.nodes = file'[0].nodes  BY <2>1, <2>4 DEF control_block
  <2>6. ControlCoherent'  BY <2>2, <2>5, Coherent DEF Updating
  <2>7. PrevOK' /\ RetOK'  BY <2>2, ReturningElsewhere DEF UpdatingPCs, RemovingPCs
  <2> QED  BY <2>6, <2>7, FreeNode DEF CInv
<1> QED  BY <1>2, <1>3 DEF free_node

(* Writes of strings and cells: in blocks of their own kind, never block 0. *)
LEMMA StoreCoherent ==
  ASSUME CInv, exec.pc \in StringPCs, NEW p, p.block_num \in Block,
         file[p.block_num].type = "STRING", file' = WriteString(file, p, Head(exec.texts)),
         ctrl_block'.nodes = ctrl_block.nodes, StringDone(p)
  PROVE  ControlCoherent' /\ PrevOK' /\ RetOK'
<1>1. ~ Down  BY DEF Down, StringPCs
<1>2. p.block_num # 0  BY <1>1 DEF CInv, IInv, ControlBlock
<1>3. file'[0] = file[0]
  BY <1>2, Unfold, LayoutAssumption DEF WriteString, CInv, File, Block
<1>4. PICK ret \in {"create_string_cell", "next", "write_value", "create_cell"} :
        exec' = [exec EXCEPT !.pc = "update_control_block", !.strings = Append(@, p),
                             !.texts = Tail(@), !.ret = ret]
  BY DEF StringDone
<1>5. exec'.pc = "update_control_block" /\ exec'.ret = ret
  BY <1>4, Unfold DEF exec_type, CInv
<1>6. ControlCoherent'  BY <1>1, <1>3, <1>5, OtherBlock DEF Updating
<1>7. PrevOK' /\ RetOK'  BY <1>4, <1>5, ReturningElsewhere DEF UpdatingPCs, RemovingPCs
<1> QED  BY <1>6, <1>7

LEMMA CreateStringCoherent ==
  ASSUME CInv, create_string_cell
  PROVE  CInv'
<1> DEFINE h == ctrl_block.head["STRING"]
           str_length == strlen[Head(exec.texts)]
<1>1. exec.pc = "create_string_cell" /\ exec.pc \in StringPCs /\ ~ Down
  BY DEF create_string_cell, StringPCs, Down
<1>2. IInv' /\ ctrl_block \in control_block
  BY CreateStringCell, Unfold DEF CInv
<1>3. \/ \E ret \in StringPCs : allocate_new_block("STRING", ret)
      \/ Wild
      \/ /\ Fits(h, str_length)
         /\ file' = WriteString(file, h, Head(exec.texts))
         /\ ctrl_block' = [ctrl_block EXCEPT !.head["STRING"].offset = @ + str_length + 2]
         /\ StringDone(h)
  BY DEF create_string_cell, StringPCs
<1>4. ASSUME NEW ret \in StringPCs, allocate_new_block("STRING", ret)  PROVE CInv'
  BY <1>1, <1>2, <1>4, AllocateCoherent DEF Pool, StringPCs, UpdatingPCs, RemovingPCs, CInv
<1>5. CASE Wild  BY <1>5, WildCoherent
<1>6. ASSUME Fits(h, str_length), file' = WriteString(file, h, Head(exec.texts)),
             ctrl_block' = [ctrl_block EXCEPT !.head["STRING"].offset = @ + str_length + 2],
             StringDone(h)
      PROVE  CInv'
  <2>1. ctrl_block'.nodes = ctrl_block.nodes
    <3> HIDE DEF str_length
    <3> QED  BY <1>2, <1>6 DEF control_block
  <2> QED  BY <1>1, <1>2, <1>6, <2>1, StoreCoherent DEF Fits, CInv
<1> QED  BY <1>3, <1>4, <1>5, <1>6

LEMMA StringInNewBlockCoherent ==
  ASSUME CInv, string_in_new_block
  PROVE  CInv'
<1> DEFINE p == Ptr(ctrl_block.head["STRING"].block_num, 0)
           str_length == strlen[Head(exec.texts)]
<1>1. exec.pc \in StringPCs  BY DEF string_in_new_block, StringPCs
<1>2. IInv' /\ ctrl_block \in control_block
  BY StringInNewBlock, Unfold DEF CInv
<1>3. CASE Wild  BY <1>3, WildCoherent
<1>4. CASE ~ Wild
  <2>1. /\ Fits(p, str_length)
        /\ file' = WriteString(file, p, Head(exec.texts))
        /\ ctrl_block' = [ctrl_block EXCEPT !.head["STRING"].offset = str_length + 2]
        /\ StringDone(p)
    BY <1>4 DEF string_in_new_block
  <2>2. ctrl_block'.nodes = ctrl_block.nodes
    <3> HIDE DEF str_length
    <3> QED  BY <1>2, <2>1 DEF control_block
  <2> HIDE DEF p
  <2> QED  BY <1>1, <1>2, <2>1, <2>2, StoreCoherent DEF Fits, CInv
<1> QED  BY <1>3, <1>4

LEMMA CellWrite ==
  ASSUME CInv, ~ Down, NEW kind \in CellKind, NEW p, IsCell(file, kind, p), NEW c \in cell,
         file' = WriteCell(file, p, c)
  PROVE  /\ file'[0] = file[0]
         /\ \A b \in Block : file'[b].type = file[b].type
<1>1. WritesBlock(file, file', p.block_num)  BY Unfold, WriteCellType DEF CInv
<1>2. p.block_num # 0  BY DEF IsCell, CInv, IInv, ControlBlock, CellKind
<1> QED  BY <1>1, <1>2, LayoutAssumption DEF WritesBlock, Block

LEMMA CreateCellCoherent ==
  ASSUME CInv, NEW kind \in CellKind, create_cell(kind)
  PROVE  CInv'
<1> DEFINE h == ctrl_block.head[kind]
           new == [prev  |-> NodeAt(file, exec.node).last[kind],
                   name  |-> exec.strings[1],
                   value |-> CASE kind = "ATTRIBUTE" -> exec.strings[2]
                               [] kind = "RELATION"  -> exec.second
                               [] OTHER              -> Null]
           after == HeadAfter(h, CellAt(file, h).prev, CellsIn(kind))
<1>1. exec.pc = "create_cell" /\ ~ Down /\ kind \in CellKind /\ kind \in Pool
  BY DEF create_cell, Down, CellKind, Pool
<1>2. IInv' /\ ctrl_block \in control_block  BY CreateCell, Unfold DEF CInv
<1>3. \/ h.block_num = -1 /\ allocate_new_block(kind, "create_cell")
      \/ Wild
      \/ /\ IsCell(file, kind, h) /\ IsNode(file, exec.node)
         /\ file' = WriteCell(file, h, new)
         /\ ctrl_block' = [ctrl_block EXCEPT !.head[kind] = after]
         /\ exec' = [exec EXCEPT !.pc = "update_control_block", !.ret = "update_node",
                                 !.current = h]
         /\ LastWriteUnflushed
  BY DEF create_cell
<1>4. CASE allocate_new_block(kind, "create_cell")
  <2>1. kind # "NODE" /\ "create_cell" \notin UpdatingPCs \cup RemovingPCs
    BY DEF CellKind, UpdatingPCs, RemovingPCs
  <2>2. ControlCoherent' /\ PrevOK' /\ RetOK'  BY <1>1, <1>4, <2>1, AllocateCoherent
  <2> QED  BY <1>2, <2>2 DEF CInv
<1>5. CASE Wild  BY <1>5, WildCoherent
<1>6. ASSUME IsCell(file, kind, h), file' = WriteCell(file, h, new),
             ctrl_block' = [ctrl_block EXCEPT !.head[kind] = after],
             exec' = [exec EXCEPT !.pc = "update_control_block", !.ret = "update_node",
                                  !.current = h]
      PROVE  CInv'
  <2>1. h.block_num \in Block /\ h.block_num # 0
    BY <1>1, <1>6 DEF IsCell, CInv, IInv, ControlBlock, CellKind
  <2> HIDE DEF new, after
  <2>2. file'[0] = file[0]
    BY <1>6, <2>1, Unfold, LayoutAssumption DEF WriteCell, CInv, File, Block
  <2>3. ctrl_block'.nodes = ctrl_block.nodes  BY <1>2, <1>6 DEF control_block
  <2>4. exec'.pc = "update_control_block" /\ exec'.ret = "update_node"
    BY <1>6, Unfold DEF exec_type, CInv
  <2>5. ControlCoherent'  BY <1>1, <2>2, <2>3, <2>4, OtherBlock DEF Updating
  <2>6. PrevOK' /\ RetOK'  BY <2>4, ReturningElsewhere DEF UpdatingPCs, RemovingPCs
  <2> QED  BY <1>2, <2>5, <2>6 DEF CInv
<1> QED  BY <1>3, <1>4, <1>5, <1>6

LEMMA FindAttributeCoherent ==
  ASSUME CInv, find_node_attribute
  PROVE  CInv'
<1>1. exec.pc = "find_node_attribute" /\ ~ Down /\ ~ Updating /\ ReadOnly
  BY DEF find_node_attribute, Down, Updating
<1>2. exec'.pc \in {"find_node_attribute", "create_string_cell", "wild"}
  BY <1>1, Unfold DEF find_node_attribute, exec_type, CInv
<1>3. ControlCoherent'  BY <1>1, ReadCoherent DEF ReadOnly
<1> QED  BY <1>2, <1>3, FindNodeAttribute, Elsewhere DEF UpdatingPCs, RemovingPCs, CInv

LEMMA WriteValueCoherent ==
  ASSUME CInv, write_value
  PROVE  CInv'
<1> DEFINE p == exec.current
           new == [CellAt(file, p) EXCEPT !.value = exec.strings[1]]
<1>1. exec.pc = "write_value" /\ ~ Down /\ ~ Updating  BY DEF write_value, Down, Updating
<1>2. CASE Wild  BY <1>2, WildCoherent
<1>3. CASE ~ Wild
  <2>1. /\ IsCell(file, "ATTRIBUTE", p) /\ file' = WriteCell(file, p, new)
        /\ exec' = [exec EXCEPT !.pc = "next"] /\ ctrl_block' = ctrl_block
    BY <1>3 DEF write_value
  <2>2. p.block_num \in Block /\ p.block_num # 0
    BY <1>1, <2>1 DEF IsCell, CInv, IInv, ControlBlock
  <2> HIDE DEF new
  <2>3. file'[0] = file[0]
    BY <2>1, <2>2, Unfold, LayoutAssumption DEF WriteCell, CInv, File, Block
  <2>4. ControlCoherent'  BY <1>1, <2>1, <2>3, OtherBlock
  <2>5. exec'.pc = "next"  BY <2>1, Unfold DEF exec_type, CInv
  <2> QED  BY <2>4, <2>5, WriteValue, Elsewhere DEF UpdatingPCs, RemovingPCs, CInv
<1> QED  BY <1>2, <1>3

LEMMA NextCoherent ==
  ASSUME CInv, RelateInv, next_node \/ next_second \/ next_job \/ respond
  PROVE  CInv'
<1>1. ~ Down /\ ~ Updating /\ UNCHANGED <<file, ctrl_block>>
  BY DEF next_node, next_second, next_job, respond, Down, Updating, ReadOnly
<1>2. ControlCoherent'  BY <1>1, ReadCoherent
<1>3. IInv'  BY NextNode, NextSecond, NextJobOrRespond DEF CInv
<1>4. PrevOK' /\ RetOK'
  <2>1. CASE next_node
    <3>1. exec.jobs # << >> /\ exec.jobs \in Seq(Job)
      BY <2>1, Unfold DEF next_node, exec_type, CInv
    <3>2. Entry(job.op) \notin UpdatingPCs /\ Entry(job.op) # "free_cell"
      BY DEF Entry, UpdatingPCs
    <3>3. \/ exec'.pc = "wild"
          \/ exec'.pc = Entry(job.op) /\ exec'.prev = exec'.node
      <4> DEFINE texts == IF job.op = "add" THEN Texts(job) ELSE << >>
                 strings == IF job.op = "relate" THEN exec.strings ELSE << >>
      <4>1. PICK p \in exec.left :
              IF IsNode(file, p)
              THEN exec' = [exec EXCEPT
                     !.pc = Entry(job.op), !.left = @ \ {p}, !.node = p, !.prev = p,
                     !.texts = texts,
                     !.strings = strings, !.following = Null, !.has_changed = FALSE,
                     !.others = exec.seconds, !.lost_place = FALSE,
                     !.current = IF job.op \in {"put", "remove"}
                                 THEN NodeAt(file, p).last[job.kind] ELSE Null]
              ELSE exec' = [exec EXCEPT !.pc = "wild"]
        BY <2>1 DEF next_node
      <4> DEFINE current == IF job.op \in {"put", "remove"}
                            THEN NodeAt(file, p).last[job.kind] ELSE Null
      <4> HIDE DEF texts, strings, current
      <4>2. CASE exec' = [exec EXCEPT !.pc = "wild"]
        BY <4>2, Unfold DEF exec_type, CInv
      <4>3. CASE exec' = [exec EXCEPT
                     !.pc = Entry(job.op), !.left = @ \ {p}, !.node = p, !.prev = p,
                     !.texts = texts,
                     !.strings = strings, !.following = Null, !.has_changed = FALSE,
                     !.others = exec.seconds, !.lost_place = FALSE, !.current = current]
        BY <4>3, Unfold DEF exec_type, CInv
      <4> QED  BY <4>1, <4>2, <4>3 DEF current
    <3> QED  BY <3>2, <3>3 DEF PrevOK, Removing, RetOK, UpdatingPCs, RemovingPCs
  <2>2. CASE next_second \/ next_job \/ respond
    <3>1. exec'.pc \in {"next", "create_cell", "idle"}
      BY <2>2, Unfold DEF next_second, next_job, respond, exec_type, Idle, CInv
    <3> QED  BY <3>1, Elsewhere DEF UpdatingPCs, RemovingPCs
  <2> QED  BY <2>1, <2>2
<1> QED  BY <1>2, <1>3, <1>4 DEF CInv

LEMMA RemoveCellCoherent ==
  ASSUME CInv, NEW kind \in CellKind, remove_cell(kind)
  PROVE  CInv'
<1> DEFINE p == exec.current
           old == CellAt(file, p)
           node == [NodeAt(file, exec.node) EXCEPT !.last[kind] = old.prev]
           prev_cell == [CellAt(file, exec.prev) EXCEPT !.prev = old.prev]
           sound == /\ IsCell(file, kind, p) /\ IsString(file, old.name)
                    /\ IsNode(file, exec.node)
                    /\ IsNode(file, exec.prev) \/ IsCell(file, kind, exec.prev)
           lost == exec.lost_place \/ (kind = "RELATION" /\ Named(old))
<1>1. exec.pc = "remove" /\ ~ Down /\ ~ Updating /\ Removing /\ kind \in CellKind
  BY DEF remove_cell, Down, Updating, Removing, RemovingPCs, CellKind
<1>2. IInv' /\ exec \in exec_type /\ file \in File  BY RemoveCell, Unfold DEF CInv
<1>3. CASE exec' = [exec EXCEPT !.pc = "next"] /\ ReadOnly
  <2>1. exec'.pc = "next"  BY <1>2, <1>3 DEF exec_type
  <2>2. ControlCoherent'  BY <1>1, <1>3, ReadCoherent DEF ReadOnly
  <2> QED  BY <1>2, <2>1, <2>2, Elsewhere DEF UpdatingPCs, RemovingPCs, CInv
<1>4. CASE Wild  BY <1>4, WildCoherent
<1>5. CASE sound /\ ReadOnly /\ exec' = [exec EXCEPT !.prev = p, !.current = old.prev, !.lost_place = lost]
  <2>1. exec'.pc = "remove" /\ exec'.prev = p  BY <1>1, <1>2, <1>5 DEF exec_type
  <2>2. ControlCoherent'  BY <1>1, <1>5, ReadCoherent DEF ReadOnly
  <2>3. IsCell(file', kind, p)  BY <1>5 DEF ReadOnly
  <2>4. PrevOK'  BY <1>1, <2>1, <2>3 DEF PrevOK
  <2>5. RetOK'  BY <2>1 DEF RetOK
  <2> QED  BY <1>2, <2>2, <2>4, <2>5 DEF CInv
<1>6. ASSUME sound, exec' = [exec EXCEPT !.pc = "free_cell", !.following = old.prev,
                                  !.lost_place = lost],
             IF exec.prev.block_num = 0
             THEN /\ file' = WriteNode(file, exec.node, node)
                  /\ ctrl_block' = file'[0]
                  /\ AllFlushed
             ELSE /\ file' = IF IsNode(file, exec.prev) THEN WriteNode(file, exec.node, node)
                             ELSE WriteCell(file, exec.prev, prev_cell)
                  /\ UNCHANGED ctrl_block
                  /\ LastWriteUnflushed
      PROVE  CInv'
  <2>1. exec'.pc = "free_cell" /\ exec'.prev = exec.prev /\ exec'.node = exec.node
    BY <1>2, <1>6 DEF exec_type
  <2>2. old.prev \in cell_ptr  BY <1>1, <1>2, <1>6, CellAtType DEF cell
  <2>3. node \in node_cell
    BY <1>1, <1>2, <1>6, <2>2, NodeAtType DEF node_cell
  <2>4. IsCell(file, kind, exec.prev) => prev_cell \in cell
    BY <1>1, <1>2, <2>2, CellAtType DEF cell
  <2> HIDE DEF node, prev_cell
  <2>5. PICK n : WritesBlock(file, file', n)
    BY <1>1, <1>2, <1>6, <2>3, <2>4, WriteNodeType, WriteCellType
  <2>6. PrevOK'
    <3>1. exec.prev = exec.node \/ \E k \in CellKind : IsCell(file, k, exec.prev)
      BY <1>1 DEF CInv, PrevOK
    <3>2. \A k \in CellKind : IsCell(file, k, exec.prev) => IsCell(file', k, exec.prev)
      BY <2>5, CellKept DEF WritesBlock
    <3> QED  BY <2>1, <3>1, <3>2 DEF PrevOK
  <2>7. ControlCoherent'
    <3>1. CASE exec.prev.block_num = 0  BY <1>6, <3>1, Coherent
    <3>2. CASE exec.prev.block_num # 0
      <4>1. file'[0] = file[0]
        <5>1. CASE IsNode(file, exec.prev)
          <6>1. exec.prev = exec.node
            BY <1>1, <5>1 DEF CInv, PrevOK, IsNode, IsCell, CellKind
          <6>2. file' = WriteNode(file, exec.node, node)  BY <1>6, <3>2, <5>1
          <6> QED  BY <1>1, <1>6, <2>3, <3>2, <6>1, <6>2, NodeWrite
        <5>2. CASE ~ IsNode(file, exec.prev)
          <6>1. /\ file' = WriteCell(file, exec.prev, prev_cell)
                /\ IsCell(file, kind, exec.prev)
            BY <1>6, <3>2, <5>2
          <6> QED  BY <1>1, <2>4, <6>1, CellWrite
        <5> QED  BY <5>1, <5>2
      <4>2. ctrl_block' = ctrl_block  BY <1>6, <3>2
      <4> QED  BY <1>1, <4>1, <4>2, OtherBlock
    <3> QED  BY <3>1, <3>2
  <2>8. RetOK'  BY <2>1 DEF RetOK
  <2> QED  BY <1>2, <2>6, <2>7, <2>8 DEF CInv
<1>7. CASE disk' = file /\ UNCHANGED file /\ Stop
  <2>1. exec'.pc = "down"  BY <1>7 DEF Stop, Idle
  <2>2. ControlCoherent'  BY <2>1 DEF ControlCoherent, Down
  <2> QED  BY <1>2, <2>1, <2>2, Elsewhere DEF UpdatingPCs, RemovingPCs, CInv
<1> QED  BY <1>3, <1>4, <1>5, <1>6, <1>7 DEF remove_cell

LEMMA FreeCellCoherent ==
  ASSUME CInv, free_cell
  PROVE  CInv'
<1> DEFINE kind == job.kind
           p == exec.current
           new == [prev |-> ctrl_block.head[kind], name |-> Null,
                   value |-> IF kind = "RELATION" THEN CellAt(file, p).value ELSE Null]
           counted == kind # "RELATION" /\ job.name # ALL /\ ~ exec.has_changed
<1>1. exec.pc = "free_cell" /\ ~ Down /\ exec.jobs # << >>
  BY DEF free_cell, Down, CInv, IInv, ExecOK, InOp, JobPCs
<1>2. kind \in CellKind /\ kind \in Pool /\ ctrl_block \in control_block
  BY <1>1, JobType, Unfold DEF exec_type, CellKind, Pool, job, CInv
<1> HIDE DEF kind
<1>3. CASE Wild  BY <1>3, WildCoherent
<1>4. CASE ~ Wild
  <2>1. /\ IsCell(file, kind, p)
        /\ file' = WriteCell(file, p, new)
        /\ ctrl_block' = [ctrl_block EXCEPT !.head[kind] = p]
    BY <1>4 DEF free_cell, kind
  <2>2. PICK number :
          exec' = [exec EXCEPT
                 !.pc = "update_control_block", !.ret = "remove",
                 !.prev = p, !.current = exec.following, !.has_changed = TRUE,
                 !.number = number]
    BY <1>4 DEF free_cell, kind
  <2>3. exec'.pc = "update_control_block" /\ exec'.ret = "remove" /\ exec'.prev = p
    BY <2>2, Unfold DEF exec_type, CInv
  <2>4. new \in cell
    <3>1. CellAt(file, p) \in cell  BY <1>2, <2>1, CellAtType, Unfold DEF CInv
    <3> QED  BY <1>2, <3>1, ZeroTypes, Unfold DEF cell, CInv
  <2>5. file'[0] = file[0] /\ IsCell(file', kind, p)
    BY <1>1, <1>2, <2>1, <2>4, CellWrite, CellKept
  <2>6. ctrl_block'.nodes = ctrl_block.nodes  BY <1>2, <2>1 DEF control_block
  <2>7. ControlCoherent'  BY <1>1, <2>3, <2>5, <2>6, OtherBlock DEF Updating
  <2>8. PrevOK'  BY <1>2, <2>3, <2>5 DEF PrevOK
  <2>9. RetOK'  BY <2>3 DEF RetOK, UpdatingPCs
  <2> QED  BY <2>7, <2>8, <2>9, FreeOneCell DEF CInv
<1> QED  BY <1>3, <1>4

LEMMA ExecutingCoherent ==
  ASSUME CInv, Execute
  PROVE  CInv'
<1>1. PICK info \in Commands : \/ execute_match(info) \/ execute_create(info)
                               \/ execute_create_relation(info)
                               \/ execute_set(info) \/ execute_remove(info)
                               \/ execute_delete(info)
  BY DEF Execute
<1>2. exec.pc = "idle" /\ ~ Down /\ ~ Updating /\ ReadOnly
  BY <1>1 DEF execute_match, execute_create, execute_create_relation, execute_set,
              execute_remove, execute_delete, OnMatched, Starting, Down, Updating
<1>3. exec'.pc \in {"idle", "wild", "create_node_cell", "create_string_cell", "next"}
  <2>1. CASE execute_match(info)  BY <2>1 DEF execute_match, OnMatched, Respond, Idle
  <2>2. CASE execute_create(info)  BY <2>2 DEF execute_create, Idle
  <2>3. CASE execute_create_relation(info)  BY <2>3 DEF execute_create_relation, Idle
  <2>4. CASE execute_set(info)  BY <2>4 DEF execute_set, OnMatched, Run, Idle
  <2>5. CASE execute_remove(info)  BY <2>5 DEF execute_remove, OnMatched, Run, Idle
  <2>6. CASE execute_delete(info)  BY <2>6 DEF execute_delete, OnMatched, Run, Idle
  <2> QED  BY <1>1, <2>1, <2>2, <2>3, <2>4, <2>5, <2>6
<1>4. ControlCoherent'  BY <1>2, ReadCoherent DEF ReadOnly
<1> QED  BY <1>3, <1>4, Executing, Elsewhere DEF UpdatingPCs, RemovingPCs, CInv

LEMMA StartOrStopCoherent ==
  ASSUME CInv, init_data \/ kill \/ quit
  PROVE  CInv'
<1>1. Idle.pc = "idle" /\ [Idle EXCEPT !.pc = "wild"].pc = "wild"
      /\ [Idle EXCEPT !.pc = "down"].pc = "down"
  BY DEF Idle
<1>2. IInv'  BY StartOrStop DEF CInv
<1>3. CASE init_data
  <2>1. exec'.pc = "wild" \/ (exec'.pc = "idle" /\ ctrl_block' = file'[0])
    BY <1>1, <1>3 DEF init_data
  <2>2. ControlCoherent'  BY <2>1, Coherent DEF ControlCoherent, Down
  <2> QED  BY <1>2, <2>1, <2>2, Elsewhere DEF UpdatingPCs, RemovingPCs, CInv
<1>4. CASE kill \/ quit
  <2>1. exec'.pc = "down"  BY <1>1, <1>4 DEF kill, quit, Stop
  <2>2. ControlCoherent'  BY <2>1 DEF ControlCoherent, Down
  <2> QED  BY <1>2, <2>1, <2>2, Elsewhere DEF UpdatingPCs, RemovingPCs, CInv
<1> QED  BY <1>3, <1>4

LEMMA InductiveCoherent == CInv /\ RelateInv /\ [Next]_vars => (CInv /\ RelateInv)'
<1> SUFFICES ASSUME CInv, RelateInv, [Next]_vars  PROVE CInv'
  BY RelateInductive DEF CInv
<1>1. CASE Step
  <2>1. CASE create_label_cell \/ create_attribute_cell \/ create_relation_cell
    BY <2>1, CreateCellCoherent
    DEF create_label_cell, create_attribute_cell, create_relation_cell, CellKind
  <2>2. CASE update_node_labels \/ update_node_attributes \/ update_node_relations
    BY <2>2, UpdateNodeCoherent
    DEF update_node_labels, update_node_attributes, update_node_relations, CellKind
  <2>3. CASE remove_labels \/ remove_attributes \/ delete_relations
    BY <2>3, RemoveCellCoherent DEF remove_labels, remove_attributes, delete_relations, CellKind
  <2> QED
    BY <1>1, <2>1, <2>2, <2>3, UpdateControlCoherent, ChainCoherent, CreateNodeCoherent,
       NextCoherent, CreateStringCoherent, StringInNewBlockCoherent, FindAttributeCoherent,
       WriteValueCoherent, FreeCellCoherent, FreeNodeCoherent
    DEF Step
<1>2. CASE Execute  BY <1>2, ExecutingCoherent
<1>3. CASE init_data \/ kill \/ quit  BY <1>3, StartOrStopCoherent
<1>4. CASE UNCHANGED vars
  <2>1. IInv'  BY <1>4, Inductive DEF CInv
  <2> QED  BY <1>4, <2>1 DEF vars, CInv, ControlCoherent, Down, Updating, PrevOK, Removing, RetOK
<1> QED  BY <1>1, <1>2, <1>3, <1>4 DEF Next

(* The memory copy of block 0 never goes stale: whenever it is written     *)
(* back whole, the nodes of block 0 in it are those of the file, so no     *)
(* update of a node is undone (update_control_block, fill_block(data, 0,   *)
(* data->ctrl_block) in node.c, label.c and attribute.c).                  *)
THEOREM ControlAlwaysCoherent == Spec => []ControlCoherent
<1>1. Init => CInv /\ RelateInv
  <2> SUFFICES ASSUME Init  PROVE CInv /\ RelateInv
    OBVIOUS
  <2>1. exec.pc = "idle"  BY DEF Init, Idle
  <2>2. ctrl_block = file[0]  BY LayoutAssumption DEF Init, EmptyFile, Block
  <2> QED  BY <2>1, <2>2, Initially
           DEF CInv, ControlCoherent, PrevOK, Removing, RetOK, UpdatingPCs, RemovingPCs
<1>2. CInv => ControlCoherent  BY DEF CInv
<1> QED  BY <1>1, <1>2, InductiveCoherent, PTL DEF Spec
=============================================================================
