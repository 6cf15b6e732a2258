# spoLab15: a verification development

The repository is a small graph database in C: a server that keeps nodes,
labels, properties and relations in one data file, and a client that turns
Cypher queries into XML requests.  This directory models it in TLA+, checks the
models with TLC and proves theorems about them with TLAPS.  There is no
documentation and there are no tests in the repository; what the code is
held to here is what its comments, its schema, its messages to the user and its
own data structures say.

## 1. The system

| Part | Files | State it keeps | Operations |
|---|---|---|---|
| storage engine | `datafile/datafile.c`, `node.c`, `label.c`, `attribute.c`, `blocks.h`, `cells.h` | the data file, an array of 1 KiB blocks; `ctrl_block`, a copy of block 0 in memory; the stdio buffer between them | `init_data`, `match`, `allocate_new_block`, `create_string_cell`, `create_node_cell`, `create_label_cell`, `create_attribute_cell`, `update_node_*`, `set_new_*`, `remove_*`, `delete_nodes` |
| relations | `datafile/relation.c` | relation cells in the same file | `create_relation_cell`, `update_node_relations`, `delete_relations`, the relation branch of `match` |
| command execution | `server/server.c: execute_command` | none of its own | match, create, set, remove, delete, of nodes and of relations |
| server | `server/server.c`, `server_main.c` | a listening socket, one detached thread per client, one mutex | accept, receive a header and a body, execute under the mutex, answer; `q` on the console closes the file and exits |
| client | `client/*` | one socket | turn a query into a `query_info`, send header and body, receive the answer and show it |
| messages | `utils/message.c`, `schema.xsd` | none | build, validate and read XML, on both sides |
| linked list | `utils/linked_list.c` | the nodes of each list, on the heap | `init_list`, `add_last`, `find_element`, `remove_element`, `free_list` |
| allocator | `utils/my_alloc.c` | three global counters | `my_alloc`, `my_free`; the totals are printed at the end |

How they interact.  A client thread of the server receives a request, reads it
into a `query_info`, and with the mutex held calls `execute_command`, which calls
the engine; so commands run one at a time, and everything a command does is a
sequence of reads and writes of blocks through one `FILE *`.  The console
thread does not take the mutex.  Lists are local to a thread; the allocator
under them is shared by all, and takes no mutex either.

The data file.  Block 0 is the control block: for each of the five *pools*
(nodes, labels, attributes, relations, strings) it names the next cell to hand
out, and it holds the first 51 nodes.  A node points at the newest cell of its
chain of labels, of attributes and of relations; a cell points at the one before
it (`prev`) and at its strings, a relation's cell also at the second node.  A
freed cell goes in front of its pool's free list, linked through `prev`; a freed
node through `last_label`.  A link of zero in the cell at the head means that the
cell was never used, and that the cell after it in the block is the next to
hand out; block -1 means that the pool is empty.  Strings are never freed.

What is hard about it:

* Block 0 exists three times: in `ctrl_block`, in the stdio buffer and on disk.
  `update_control_block` writes all of `ctrl_block`, nodes included, so every
  function that writes a node of block 0 in the file must read `ctrl_block`
  again or its write is undone later.
* A cell's or a node's state (in use, free, never used) is told from a link
  field that three different lists share.
* A command is tens of writes, and a process killed between two of them leaves
  the file with some; the last write is still in the buffer when the client is
  answered.
* Walks along chains end only on a zero link; nothing is checked on the way.
* A relation is kept with its first node only; nothing leads from the second
  one back to it.
* Messages are a header of `BUFSIZ` bytes and a body whose length it gives; both
  ends must agree to the byte on where one ends, or every later answer goes to
  the wrong request.
* A client may go away, and `q` may be typed, at any point of a command.
* What the user typed passes through fixed arrays, a list that drops what does
  not fit, a tree whose children are told apart by their place, and back
  into fixed arrays.  A part lost on the way makes a *different* query, not none.
* The counters of the allocator are changed by several threads at once.

What makes each part correct.  Engine: every cell is in one place of one chain
or free, none is lost, nothing in use is handed out, the scan finds every node,
and the memory copy and block 0 agree.  Command execution: clients see one
graph that each command reads or changes at once.  After a kill: nodes that the
interrupted command does not touch are as they were, and whatever can be
reached can be read.  Relations: a match shows what fits both nodes and the
relation, and none leads from or to a deleted node.  Server: the file is only
touched by the holder of the mutex, and a message is received exactly as sent
however it is cut up.  Client and messages: what is executed is what was typed,
and what is shown is what was executed.  Lists: a list is the sequence of what
was added and not removed, linked the same both ways, and nothing leaks.
Allocator: the totals are exact, or at least never claim more than was asked for.

## 2. The modules

| Module | What it is |
|---|---|
| `Layout` | blocks, cells, pointers and pools: `blocks.h` and `cells.h`, with the numbers of cells per block as constants; reading and writing one cell |
| `DataFile` | the engine and `execute_command`, one action for the code from one write of the file to the next; kills, `q`, restarts; the type invariant and `ControlCoherent` |
| `PropertyGraph` | the abstract specification: a graph of labelled nodes with properties and relations, each command one step, and the number it answers with |
| `KeptPromises` | on which graphs a command ends the process, or breaks what `PropertyGraph` promises, then or later |
| `DataFileHistory` | `DataFile` with a history variable, the refinement of `PropertyGraph`, and the other properties |
| `MCDataFile` | the workloads of the runs of `DataFile` |
| `DataFileProofs` | theorems about `DataFile`, proved with TLAPS |
| `DataFilePools` | theorems about the blocks of the file, the pool of the nodes and the scans of `match`, under `DataFileProofs` |
| `DataFileCells` | theorems about the cells: the chains of labels, properties and relations, and the pools of free cells; no block taken for another, no cell lost; under `DataFilePools` |
| `Server` | the server's threads, the mutex, the console, the clients and the streams between them |
| `SerialService` | the abstract specification: what clients can rely on |
| `ServerProperties` | the refinement of `SerialService`, and the other properties of `Server` |
| `MCServer` | the workloads of the runs of `Server` |
| `ServerProofs` | theorems about `Server`, proved with TLAPS |
| `ServerRefinement` | the proof that `Server` implements `SerialService`, and of `OnlyForAReason` |
| `Messages` | pure operators: query to `query_info`, to request and back; the schema; the response and the sentence shown |
| `Session` | one client at its prompt, from the line typed to the sentence shown, over `Messages` and one step of `PropertyGraph` where the engine takes it; its properties |
| `MCSession` | the queries of the runs of `Session` |
| `SessionProofs` | theorems about `Messages` and `Session`, proved with TLAPS |
| `MyAlloc` | the counters, with one step for each load and store of one; `AllocSpec`, the allocator with callers of which nothing is known |
| `LinkedList` | lists of several threads on one heap and one set of counters |
| `Lists` | the abstract specification: a sequence for each thread |
| `MCLinkedList` | the bounds of the run of `LinkedList` |
| `LinkedListProofs` | theorems about the counters: `MyAlloc`, and `LinkedList` as its caller |
| `LinkedListHeap` | theorems about the heap under the lists: which blocks there are, whose they are and how they are linked; and that `LinkedList` implements `Lists` |

How they fit together.  `Server` and `DataFile` meet at `execute_command`:
`DataFile` has one executor, which is right because of `MutualExclusion` in
`Server`; and `Server` takes a command for a read of the data file and then a
write, with the effect and the reply as parameters, which is right because of
`Implements` in `DataFile`.  What `DataFile` shows of commands that end the process or
send it astray is in `Server` a third parameter, `Fate`.  `Session` runs a command as one
step of the `PropertyGraph` that `DataFile` refines, but only where the engine keeps that
promise.  Where it does not is said by `KeptPromises`, of the graph alone: `Ends` (the
process ends, finding 4) and `Breaks` (findings 1 and 2, and `FilterCommands`,
`TwoRelationsCommands`, `CountCommands` and `SecondDeletedCommands` of section 4);
there the server ends, or nothing more is claimed.  The run `cells` checks the other side:
its bound, `OnlyPromised`, is that no command begins on a graph of which `KeptPromises` says one or the
other, and nothing else, and `DataFile` implements `PropertyGraph` then.  And
`Session` takes messages to arrive whole and in turn, which is `Serial` of `Server`.  `LinkedList` extends `MyAlloc` and is a refinement of its
`AllocSpec`, so that what is proved of the counters holds under the lists.

### State

| TLA+ | Code |
|---|---|
| `file` | the contents of the data file as the process reads them through the stream |
| `disk` | the part of them that the process has handed to the operating system, and that a kill leaves |
| `ctrl_block` | `data->ctrl_block`.  `head[X]` is the pair `fragmented_X_block`, `empty_X_number` (`empty_string_offset`) |
| `exec` | the C stack of the thread that holds the mutex: `pc`, the function it is in; `ret`, where a call of `allocate_new_block` or `update_control_block` returns to; `jobs`, the loops of `execute_command` still to run; `matched` and `left`, the list `node_ptr` and what the loop has still to visit; `seconds`, the list of second nodes of a relation; `lost_place`, whether the loop over the second nodes has left `current_node` NULL for the loop outside; `node`, `current`, `prev`, `has_changed`, `number`, the locals of the same names; `texts` and `strings`, the strings a new cell still waits for and those it has |

`is_empty` keeps its name from `cells.h`, where 1 means *in use*.

| TLA+ | Code |
|---|---|
| `client[c]` | a client process: `pc`, the function it is in (`ready` is the `getline` of `main`); `request` and `unsent`, the request and what `send_message` has still to send; `response` and `remain`, the locals of `receive_message`; `answer`, what was shown last |
| `thread[c]` | the thread of the server that serves `c`: `pc`, `request_xml`, `remain`, `response_xml` (from `send_message` on, the part not yet sent); `data`, what `execute_command` has read of the file |
| `to_server[c]`, `to_client[c]` | the two directions of the connection: sent and not yet received |
| `mutex`, `store` | `server_info.mutex` and its holder; the data file |
| `process` | `up`; `server_closed` and `file_closed`, the main thread on its way out after `q`; `down`, ended; `wild`, running on after undefined behaviour |

| TLA+ | Code |
|---|---|
| `typed`, `request`, `received`, `response`, `shown` (`Session`) | the query at the prompt; the tree sent; the `query_info` the server reads out of it; the tree it answers with; what the client printed.  `pc = "gone"`: the client has read through a null pointer or written over its stack; `"down"`: the server has ended; `"astray"`: the engine no longer does what `PropertyGraph` says |
| `graph`, `number` | the graph of `PropertyGraph`, and the number of nodes or relations answered |
| `all`, `current`, `max` | the three counters of `my_alloc.c` |
| `call[t]` | where thread `t` is between the loads and stores of `my_alloc` or `my_free`, and the value in its register |
| `heap`, `list[t]`, `doing[t]` | the blocks allocated; a thread's `linked_list` (`first`, `last`, `size`); the operation it is in, with its locals |

### Steps

A step of `DataFile` ends with a write of a block (or is a single turn of a reading loop), so
that `kill` can fall between any two writes.  `update_data_block` is
`fseek` and `fwrite`, `fill_block` is `fseek` and `fread`; with glibc an
`fseek` writes out what the buffer holds.  So at any time at most the last
write is missing on disk: `LastWriteUnflushed` after a step that ends in a
write, `AllFlushed` after one that goes on to read.  A block of 1 KiB is
written by one `write` at an aligned offset, which a kill of the process does not split
(a loss of power is not modelled).

`allocate_new_block` is `allocate_new_block`, then for a node block other than
block 1 `chain_node_block` and `chain_update_control`, which are its second
`update_data_block` and the first of two `update_control_block`; every caller
resumes at `ret`.  `create_string_cell`, `create_node_cell`, `create_cell`,
`update_node`, `find_node_attribute` with `write_value` (`set_new_attributes`),
`remove_cell` with `free_cell` (`remove_labels`, `remove_attributes`,
`delete_relations`) and `free_node` are the C functions of those names or the
parts of them between two writes.  `Jobs` is what `execute_command` calls for
each command, and `next_node` and `next_job` are its loops and those inside the
helpers.  The loop of `delete_relations` over the second nodes reuses
`current_node`; when it has run, the loop outside reads through NULL and the
process ends (`lost_place`, then `pc = "down"`).

In `Server` a step is what lies between two calls that let others in: `send`,
`recv`, `write`, `lock`, `unlock`.  `server_header`, `server_receive`, `parse`,
`bad_request`, `lock`, `execute_reads`, `execute_writes`, `unlock`,
`server_write_header` and `server_write_packet` are `work_with_client` from
top to bottom.  `execute_command` is two steps, so that without the mutex an
update could be lost.  Five things of the C code shape the guards:

* `recv` gives any part of what is there, up to `BUFSIZ` bytes; only a header
  arrives whole (it is one `send`, over the loopback interface, into an
  empty stream).
* The server puts parts together with `strcat`.  A part of `BUFSIZ` bytes has no
  0 byte at its end, so what is copied depends on the memory behind the buffer:
  `wild` or not.
* A write to a client that is gone may succeed, fail, or end the process by
  SIGPIPE, which nothing handles (`Write`).  Only a failure without the signal
  reaches the `break`s.
* `execute_command` does not always return.  What becomes of the process is
  `Fate`, of the request and the data file: `"answers"`; `"ends"`, having done some of the command
  (`execute_writes`: `Effect` is then what it has done, as in `delete_relations`,
  `relation.c:101`); or `"wild"` (`execute_reads`: `match` that frees a list twice,
  `datafile.c:160`, or a string written past its block, `datafile.c:53`).
* An empty change makes `execute_command` return NULL, and `strlen` of it ends
  the process (`server_write_header`).

A thread whose client is gone in the middle of a body turns round in its
loop for ever (`recv` gives 0); that changes nothing and is no step.  So does a
client in `receive_message` when the server is gone, unless `recv` fails.

In `Session` a step is one of the functions between two messages.  The three
queries the client never sends or survives have actions of their own
(`unknown_command`, `untyped_relation`, `line_too_long`), as have the four ways in
which the server does not answer with a result (`bad_request`, `no_response`, `server_ends`,
`goes_astray`).  After `"down"` and `"astray"` nothing happens any more.

In `MyAlloc` each load and each store of a counter is a step: `x += size` on a
plain `unsigned long long` that threads share is a data race, and these are the outcomes a
build for x86-64 can give.  The sums wrap at 2^64 (`ULLONG`).  In `LinkedList` an
operation begins with its call of the allocator or ends with it, and the change
of the links is one step, since a list belongs to one thread.  `find_element`
changes nothing and is an operator, `Search`.  `free_list` is four actions: on to
a node and free the one in front of it by the way back, free the last one, free
the list.

In `DataFile`, where the code would take a block for what it is not (it never checks), or
write past its end, the step leads to `pc = "wild"`, and nothing further is
claimed.  `NeverWild` says that it does not happen in a run.

### What is abstracted

* A string is an opaque value with a length; it takes `2 + strlen` bytes of a
  string block, as in `create_string_cell`, and is read back whole.
* The queries of `DataFile` are the model values of a workload.  `schema.xsd` lets
  a query change at most one label or one property, and so does
  `CommandsAssumption`.  That a query the client can build is one of these, and
  arrives as it was sent, is the subject of `Session`.
* `match` writes nothing and is one step, as is the matching at the head of
  the other commands.
* The relations of a node are a bag in `PropertyGraph`: queries cannot tell
  their order.
* In `Server` a request and a response are sequences of bytes, which can be cut
  anywhere; what they mean is in `Accepted`, `Effect` and `Reply`.  The set-up of
  sockets, the backlog of `listen`, and the threads that `accept` starts on a
  closed socket after `q` (they end at their first `recv`) are left out.  The
  prompt says to type "exit" to leave (`client_main.c:26`) where the code compares
  with `q`; `leave` stands for the latter.
* In `Messages` a document is the tree that libxml2 hands out, and a query what
  libcypher-parser hands out, as far as `client.c` looks at it: the first clause is
  MATCH or CREATE, and an item of
  a REMOVE has a key only.  Names and values are sequences of characters, because
  the sizes of `property.key`, `property.value`, `rel_name` and of the two
  line buffers decide what is read back.  `Leftover` is what `malloc` may leave in
  `command_type`, a link of its own or zeros: never the name of a command.
  `Padding` is what may lie behind a `rel_name` without 0 byte.  Of the sentences
  shown only the command, the kind, the number and the names are kept.
* How full a string block is cannot be seen in the graph.  So in `Session` a command
  that stores a string (`Stores`) may go astray or be run as promised, whichever it is.
* In `LinkedList` the values are compared directly where the C code takes a
  function `by`.  `get_element`, `add_first` and `get_last_n` are never called in the
  repository and are left out.

## 3. Properties

Each is stated with a comment in its module.  Of the engine (all but the first
two in `DataFileHistory`):

* `TypeOK` (`DataFile`): the C types, which for `file` says that every write
  landed on a cell of its own kind inside an allocated block.
* `ControlCoherent` (`DataFile`): `ctrl_block` has the nodes of block 0 as the
  file has them, always, and is block 0 except on the way to
  `update_control_block`.
* `CellsOwnedOnce`, `NoCellLost`: between commands, cells are partitioned among
  chains and free lists.
* `NodesAllScanned`, `NodesOwnedOnce`, `BlocksLinked`: the same for nodes and
  node blocks.
* `AlwaysReadable`: at every moment, in the file and on disk, the chains of
  nodes in use end, and lead to written strings only.
* `OthersOnDisk`: at every moment, a kill would leave every node that the
  command does not touch as it was.  The nodes of the last command count as
  touched until the next one begins, as its last write may not be flushed.
* `DyingRemoves`: a process that dies of a deletion of relations has then, on
  disk, taken from one node all the relations asked for, and nothing else.
* `CommandsEnd`: a command once begun ends, or the process does.
* `NeverWild`, `StaysUp`: no block is taken for another; the process does not end by itself.
* `Implements`: `DataFile` implements `PropertyGraph`.  The history variable
  `store` takes the graph out of the file when a command ends; between, the
  abstract state stutters.

Of `Server` (in `ServerProperties`):

* `Serial`: `Server` implements `SerialService`.  Commands take effect one at a
  time, at the moment of `execute_writes`, none twice, and each client gets the
  whole answer to its own request.  The refinement mapping puts the response
  together from what the client has, what is in the stream, and what the thread
  has still to send.
* `MutualExclusion`: one thread at a time in `execute_command`.
* `NothingLeftOver`: when a client may ask again, the streams are empty and the
  thread is back at its first `recv`.
* `OnlyForAReason`: the process ends, or goes astray, only by `q`; by SIGPIPE for a
  client that left with its answer on the way; by an accepted command that has no response
  to the data file it read; by an accepted command that `execute_command` does not survive on the
  data file as it is (`Fate`), while its thread holds the mutex; or by a request
  long enough to fill the buffer.  A request that is turned down never ends it, nor does
  a thread that waits.
* `AnsweredUnlessOvertaken`: a client that waits while the server runs is answered,
  or threads of others execute again and again: a pthread mutex promises no turns.

Of `Session`:

* `OnlyAsTyped`: every change of the graph is the command the user typed
  (`Meaning`), and only a query that has a meaning makes one.  `Heeded` says
  which parts of a query the program has no way to heed (a WHERE, a third node, a
  property that is not a string, ...); a query with such a part means nothing.
* `AnsweredAsTyped`: at the prompt, the sentence shown is about the query typed
  and true of the graph; what has no meaning is turned down; the client dies of a query
  with a meaning only by a line that does not fit; the server dies of one only if it deletes,
  as the user meant it to, at a node with relations; and the engine goes astray only on
  the graphs on which that very query is not carried out as promised (`MayStray`).

Of `LinkedList` (`NeverMore` and `ExactUnlessRaced` in `MyAlloc`):

* `BothWays`: the way back along a list is the way there, read backwards.
* `NothingElseLost`: no block is lost but the values `remove_element` takes out of a
  list that owns them, and none is in two hands.
* `BytesHeld`: the bytes the allocator counts as held are those of the heap.
* `Implements`: each list is the sequence its caller takes it for (`Lists`).
* `NeverMore`: the total printed is never more than what was asked for.
* `ExactUnlessRaced`: until two calls have overlapped, all three numbers are exact
  whenever no call is under way.

## 4. The runs

| Run | Checks | What it shows |
|---|---|---|
| `cells` | `TypeOK`, `CellsOwnedOnce`, `NoCellLost`, `AlwaysReadable`, `Implements` | labels, properties and relations put on and taken off any place of the chains, the same label twice, nodes picked by what their relations lead to |
| `nodes` | `ControlCoherent`, `NodesAllScanned`, `NodesOwnedOnce`, `BlocksLinked`, `NeverWild`, `Implements`, `CommandsEnd` | nodes created and deleted over several node blocks, `q` and a restart between commands; fairness |
| `crash` | `CellsOwnedOnce`, `AlwaysReadable`, `OthersOnDisk`, `DyingRemoves` | kill and `q` at every point of a removal, relations deleted by a process that dies of it, and restart; cells can be lost there (`NoCellLost` is not claimed) |
| `delete_first_node` | `NodesAllScanned` violated | finding 1 |
| `delete_many_labels` | `CellsOwnedOnce` violated | finding 2 |
| `kill_after_create` | `NodesOwnedOnce` violated | finding 3 |
| `delete_relation` | `StaysUp` violated | finding 4 |
| `service` | `NothingLeftOver`, `OnlyForAReason`, `Serial`, `AnsweredUnlessOvertaken` | two clients, one of which may leave at any point; responses of two packets, messages in any pieces, requests turned down, commands without a response, commands the process dies of or goes astray by; fairness |
| `quit` | `TypeOK`, `MutualExclusion`, `Serial` | `q` at any point; `BUFSIZ` is 2, so that packets fill the buffer, and requests of two packets |
| `messages` | `TypeOK`, `AnsweredAsTyped`, `OnlyAsTyped` | every clause, with one node or two, with what a SET or REMOVE may say, typed one after the other, as long as the engine keeps its promise |
| `invalid_property` | `OnlyAsTyped` violated | finding 5 |
| `lists` | `TypeOK`, `BothWays`, `NothingElseLost`, `BytesHeld`, `NeverMore`, `ExactUnlessRaced`, `Implements` | two threads that build, search, shorten and free lists, one of which owns its values, with calls of the allocator overlapping |

### Bounds

*Engine.*  Two or three cells per block and one-byte strings in string blocks of
10 bytes (three strings and a byte over): block ends, new blocks, full free
lists and strings that do not fit all come up within a few commands.  Blocks
are the bound: `MAX_BLOCKS` (7 in `cells`, 8 in `crash`, 13 in `nodes`), and
`HasRoom` lets a command start only if the file can take all it may add
(`Growth`).  Commands have no other bound, so runs are of unlimited length over a
bounded file; as strings are never freed, adding commands get used up and the
state spaces are finite.  `cells` reaches matches that pick some of the nodes and
not others, and removals in the middle of a chain; `crash` reaches the
process dying of a deletion, and kills between any two writes of a removal in the
middle of a chain, with other nodes on disk; `nodes` reaches several node blocks.

The passing runs keep clear of the findings, and say so in `MCDataFile`:

* `nodes` deletes only nodes with one label and one property at most, and
  `KeptSpec` never deletes the first node (`FirstNodeKept` has it created with a
  label that no deletion names);
* `cells` begins no command on a graph on which it ends the process or breaks a promise
  (`OnlyPromised`);
* `crash` kills only during removals, and never deletes two relations of one
  node by one command (`OneRelationEach`).

What they show holds for workloads of that kind and not beyond.

*Server.*  The store is a number of relations, none, one or two, which a command
counts up (after two, none again), and the response shows whether there was one before: a
lost update, a command run twice and an answer that went
to the other client all show.  A second command shows the ends of `execute_command`: on no
relation it has no response, on one it ends the process and removes the relation,
on two it goes astray; what it meets depends on the other client.  Two clients give a holder and a waiter; a
connection touches another only through the mutex, the store and the process,
and for any number of clients there are the theorems of section 5.  Message lengths of two to
four bytes against a `BUFSIZ` of two or three have each of: a part of a packet,
a packet, a packet and a part.

*Session.*  Names and values of one character, keys of at most one
(`PROPERTY_KEY_SIZE` 2), line buffers that some nodes fit and some do not; two
nodes, up to `MaxLabels` = 2 labels or properties in a node, and `MaxCount` = 1
relation of a kind between two nodes, beyond which queries that would add more are not typed (`Room`).
All cases of `KeptPromises` but `Miscounts` come up (it needs 2^16 nodes), and so do deletions, matches and changes
on graphs with relations where the engine keeps its promise.
The steps of a query do not depend on the queries before it but through the graph,
so that each query meets each graph.

*Lists.*  Lists of one and of three nodes, so that a node has both neighbours,
one or none; `MaxAsked` = 8 units asked for in all, and `MaxRaced` = 3 once calls have
overlapped, which takes two short lists: overlaps change only the counters,
which nothing in the lists depends on.  A node and a list take one unit, a property two, so
that sums tell the blocks apart.  `malloc` takes the lowest free place, the choice
that gives out again at once what was freed; properties do not depend on
it.  `ULLONG` = 16 lets `current` wrap below 0 within the run.

Deadlock is not checked where the system may stop: in `quit`, when the process
has ended and everybody left; in `messages` and `invalid_property`, when the client or the server has ended;
in `lists`, when the bytes of the run are used up; and in `kill_after_create`,
where with the file full nothing is left to do but to be killed.

### Fairness

`AnsweredUnlessOvertaken` needs weak fairness of what a client does on
its own (`ClientStep`), of `accept` and of each thread (`work_with_client`): the
scheduler runs every thread that can run, and data sent arrives.  The mutex
gets no strong fairness; hence the second half of the property.  Users need not ask
or leave, and `q` need not come.  `CommandsEnd` needs `WF_vars(Step)`: the thread that runs the command
holds the mutex and waits for nobody, so the scheduler runs it to the end.
Clients and the operator need not do anything, and have no fairness.

### Findings

1. **Nodes disappear after a delete** (`node.c:118`, `datafile.c:90`).  A freed
   node keeps the free list's link in `last_label`.  If the list's first node is
   (0, 0), that link is zero, `match` takes the freed node for one never used
   and skips the rest of its block.
2. **Deleting a node with two labels corrupts the free list** (`label.c:174`,
   and `attribute.c:253` for properties).  `prev` moves to the cell just freed,
   and the next removal writes its link there.  The list then ends in a cell
   with link zero, from which the pool steps into a cell that is in use.
3. **An answered create is undone by a kill** (`node.c:51`).  The last write of
   the control block stays in the stdio buffer until the next command.  After a
   restart the next create overwrites the node.
4. **Deleting a relation ends the server** (`relation.c:101`).  The loop over the
   second nodes runs on `current_node`, the variable of the loop over the first
   ones, and leaves it NULL; the step of the outer loop reads through it.  What was asked of the
   first node has been done by then (`DyingRemoves`).
5. **A property that is not allowed makes a delete delete more**
   (`client.c:118`).  The client says "Invalid Property", leaves the property out
   and sends the query without it: MATCH of a label with a number for a property, and DELETE,
   removes every node with the label.

### Other workloads

More of the code is at odds with a property than the findings, which rest on a
line of the repository that says otherwise.  `MCDataFile` and `MCSession` keep the
smallest workload for each; a configuration with it (the constants as in
`delete_relation`, or `invalid_property`) and the property named shows the trace.

| Workload | Breaks | Why |
|---|---|---|
| `TwoRelationsCommands` | `NeverWild` | a node with two relations that count is two results that share their lists, which are freed twice (`datafile.c:160`) |
| `FilterCommands` | `Implements` | with a relation in the query, the filter of the first node is forgotten (`datafile.c:117`) |
| `CountCommands`, `UINT16` = 2 | `Implements` | the number of second nodes is cut to 16 bits before it is multiplied (`server.c:122`) |
| `SecondDeletedCommands` | `Implements` | deleting a node leaves the relations that lead to it (`node.c:109`) |
| `SetCommands`, killed at `AddingPoints` | `CellsOwnedOnce` | the new cell is written and the pool has not moved on (`label.c:47`) |
| `CreateCommands`, killed at `ChainingPoints`, `NODES_IN_CONTROL_BLOCK` = 1 | `BlocksLinked` | the new node block is in the scan while `empty_block` still names it (`datafile.c:215`) |
| `CreateCommands`, killed at `IdlePoint` | `NeverWild` | killed right after its first start the server leaves an empty file (`datafile.c:15`) |
| `CreateCommands`, `STRING_DATA` = 11 | `NeverWild` | a string that the block has room for, but not for its length and its 0 byte, is written past the end (`datafile.c:53`) |
| `KeyFullQueries` | `OnlyAsTyped` | a key that fills its array is read on into the value (`client.c:114`) |
| `LongTypeQueries` | `OnlyAsTyped` | the same for the type of a relation |
| `MatchCreateQueries` | `OnlyAsTyped` | MATCH ... CREATE creates what it was to match (`client.c:78`) |
| `LongPathQueries` | `OnlyAsTyped` | of a path of three nodes only the first counts (`client.c:90`) |
| `WhereQueries` | `OnlyAsTyped` | a WHERE is not looked at: MATCH ... WHERE ... DELETE deletes every node that matches without it |

With `CellSpec` in the place of `HSpec`, which begins no command where `KeptPromises` says
that the promise is not kept, `Implements` and `NeverWild` hold for the first four, for
`MixedCommands`, where they meet, and for the commands of findings 1, 2 and 4 (the constants as in `cells`, and
`UINT16` = 2 for `CountCommands`; no deadlock is checked, as such a run may have nothing left to begin).

## 5. What is proved

`DataFileProofs` proves, for every number of cells per block, every file size,
every set of commands and every set of points at which the process may be
killed or stopped:

* `TypeCorrect`: `Spec => []TypeOK`.
* `ControlAlwaysCoherent`: `Spec => []ControlCoherent`.

They rest on `LayoutAssumption` (sizes are positive, strings have lengths) and
`CommandsAssumption` (commands are queries that the schema allows), which TLC
evaluates in every run.

Neither is inductive.  `TypeOK` alone allows a control block at another place
than block 0 and an executor that holds a job or a string its program counter
has no use for; `IInv` adds `ControlBlock` (block 0, and no other, is a control
block; on disk it may still be absent) and `ExecOK` (what the program counter
says about `jobs`, `texts` and `strings`).  For `ControlCoherent`, a write that
falls on a node of block 0 by way of a cell pointer, or a `remove` whose `prev`
is block 0 without being the node, would break it; `CInv` adds `PrevOK` (`prev`
is the node or a cell) and `RetOK` (an update of the control
block never returns to a place that is itself on the way to one).  The proof
has a lemma per operator of `Layout` (what writing a node, a cell or a string
does to the type of a file) and a lemma per action for each of the two
invariants; the theorems put them together.  TLC checked each part of `IInv`
and `CInv` on the instances above before the proofs.

`DataFilePools` proves, for the same, of a process that is killed or stopped at
`SafePoints` only:

* `BlocksAlwaysLinked`: `Spec => []BlocksLinked`.

`SafePoints` are those at which no new block is on its way into the file: outside the
creation of nodes, strings and cells, or in a removal.  Without the condition it
is false: `CreateCommands` killed at `ChainingPoints` (section 4) breaks it, and so does
every kill between the write of a block and that of the control block.  `BlocksLinked`
speaks of one moment, between two commands, of what the file shows; the
inductive `BInv` says of every moment what the memory copy (`MemLinked`), the control
block in the file (`FileLinked`) and the one on disk (`DiskLinked`), which are one
fseek apart, know of the blocks: which of them are in use, and that
`prev_node_block` and each `prev_block` lead to the latest node block before
(`Linked`), with the exceptions `allocate_new_block` makes on its way.  The
scan of `match` is a recursive definition: that it defines a function at all is
proved by giving one (`MetBy`: step k has met the node blocks with fewer than k
others above), and with the least number principle (`LeastNumber`) the scan is it.

It proves two more, of a process stopped at `NodeSafePoints` and as long as the
first node of the file stays (`FirstNodeStays`):

* `NodesOwnedOnceHolds`: `Spec /\ []FirstNodeStays => []NodesOwnedOnce`.
* `NodesAllScannedHolds`: `Spec /\ []FirstNodeStays => []NodesAllScanned`.

Each condition is one of the findings: without `FirstNodeStays` the link to the
first node, which is 0, is taken for none (`delete_first_node`), and a kill after a
creation loses the head of the pool (`kill_after_create`).  `NodeSafePoints` allows a
kill within a job that adds a property or a relation or removes one, and a `q` anywhere that
`SafePoints` does but while the control block is ahead of the file; the points of the
runs `crash` and `nodes` are such.  Both runs delete no first node (`FirstNodeKept`).
The properties speak of the nodes `create_node_cell` will hand out if it goes on
from the head of the pool.  This list is not walked in the proof: `PoolSound` says, of every
node at once, that the head is a freed node, or the first of its block that was never
used, or no room; that what a freed node leads to is such a node too, is led to by no
other, and is not the head (`LinksApart`); that behind a node never used there are
only such nodes (`FilledInOrder`), which is why the scan may give up a block at the first;
and that the first node of the file is in use unless none ever was.  The
inductive `NInv` has this of the memory copy (`MemSound`) and of the disk where a kill
may fall (`DiskSound`, `RestartSound`), and says what the executor is about to do to
nodes: the ones it has matched and not yet freed are in use (`NodesHeld`), the jobs of
a command come in an order in which freeing is last (`InOrder`), and a new
block holds nothing (`NewBlockBlank`).  TLC checked it on the `nodes` and `crash`
instances before the proof.  That the nodes that will be handed out are the members of a set
closed under `TurnAfter` is a recursive definition again, and proved by giving the
function (`TurnsBy`).

`DataFileCells` proves three properties that rest on the chains, of a process killed and stopped at `CellSafePoints`,
as long as the first node of the file stays and no node loses two cells of a chain to one
command (`OneCellEach`):

* `CellsOwnedOnceHolds`: `Spec /\ []FirstNodeStays /\ []OneCellEach => []CellsOwnedOnce`.
* `AlwaysReadableHolds`: the same with `[]AlwaysReadable`.
* `NeverWildHolds`: `Spec /\ []FirstNodeStays /\ []OneCellEach /\ []RoomForStrings /\
  [][OneResult]_vars => []NeverWild`, if `StringsShort`.

Each condition is needed.  `CellSafePoints` is `NodeSafePoints` with kills while cells
are removed only: `SetCommands` killed at `AddingPoints` (section 4) breaks
`CellsOwnedOnce`.  `OneCellEach` says that the walk that takes cells out of a chain frees the
first that matches and no second; a second one is looked for from the freed cell
on, in the free list (`delete_many_labels`), and it is why `crash` has
`OneRelationEach`.  A deleted first node leaves its chains in the file with nobody
to scan it.  TLC checked `OneCellEach` and `FirstNodeStays` as
invariants on the instances `cells`, `crash` and `nodes`, where they hold.

The inductive `KInv` has an owner for each cell of a kind (`Owners`): a node, the pool, or
nobody.  `ChainsApart` says, of every cell at once, that the last cell of a node in use is
the node's; that each cell of a node has its strings written, and leads to
another of the same node that no other leads to and that is not the last, or ends the
chain; and that no cell is at block 0, where the chain ends.  `PoolApart` is
`PoolSound` once more, for cells.  Both hold for the memory copy (`MemCells`)
with the cell in the executor's hands as the exception (`InHands`: until
`update_node_X` has written the pointer to a new cell it is nobody's, and after
`remove_X` has bridged a cell it is nobody's until `free_X_cell` has put it at
the head of the pool), and for the disk where a kill may fall (`DiskCells`,
`RestartCells`).  The same owner need not do for both, as the disk is one
write behind.  `ReadableChains` has of the disk at every moment what
`AlwaysReadable` needs, which is less; `StringsHeld`, that the strings the
executor is about to name are in the file *and* on disk by then; and
`RemovesFirst`, that a deletion removes before it frees.  A lemma says what a
change of owner does to the rest (`Moves`): a cell goes from the pool to nobody,
from nobody to a node, or back.

From owners to chains it takes three steps.  `Chain` is recursive, and is shown to be a
function by giving one (`ChainExists`, `ChainUnique`, `ChainIs`).  By the least
number principle all its cells are the node's and all are different, since each is led
to by one other.  And so there are no more of them than cells of the kind in the file
(`FewCells`), which is `MaxChain`, the bound where `Chain` gives up: the chain ends.

`NeverWildHolds` says that none of the checks the code leaves out would ever have failed.
Nearly all of it follows from the invariants above: the executor follows pointers
of nodes in use, which lead to cells of theirs, which name written strings; and the
pools lead to nodes and cells nobody uses.  What is new is the strings and what the
commands ask, and each condition is one way of going wrong that section 4 lists:

* `StringsShort` (every string with its length and its 0 byte fits in a block of its own) and
  `RoomForStrings` (the room left is never one or two bytes short of that): the
  test in `create_string_cell` takes the length of the string alone for enough
  (`datafile.c:53`; `CreateCommands` with `STRING_DATA` = 11).
* `OneResult` (no query finds a node by two of its relations), an action property, as
  it is about the graph at the moment a command begins: `match` frees such a node's
  lists twice (`datafile.c:160`; `TwoRelationsCommands`).
* `CellSafePoints`: a kill right after the first start leaves an empty file
  (`datafile.c:15`; `CreateCommands` killed at `IdlePoint`).

The inductive `TInv` adds to `NeverWild` that the first block is a control block, in memory and
on disk (`ControlThere`); that the pool of strings names a block of strings, if any
(`StringBlocks`); that no job is left when a command is over (`NothingToDo`); and that the
string being stored is a new value of a property found before only where the
job is to put one (`PutsValues`).  TLC checked these, `RoomForStrings` and `OneResult` on the instances
`cells`, `crash` and `nodes`, where they hold.

The last theorem of `DataFileCells` is the other half of `CellsOwnedOnce`, that nothing leaks:

* `NoCellLostHolds`: `Spec /\ []FirstNodeStays /\ []OneCellEach => []NoCellLost`, if `NoLossPoints`.

`NoLossPoints` is `NodeSafePoints` without kills, and without a `q` while a cell is on its way
between a chain and the pool (`update_node`, `free_cell`), or while the head of the pool is not yet
in the file (`update_control_block`).  The engine has no other record of such a cell, and nothing
ever looks for it: with any of the three as a quit point, or a kill in the midst of adding or removing
cells, TLC finds `NoCellLost` violated on the `cells` instance.  A kill while a value is
overwritten (`put`) loses no cell there, and the theorem does not say so.  The run `cells`, which
checks the property, has no points at all.

`NoCellLost` says that the walks of the chains and of the free list between them reach *every* cell,
which owners do not tell: two freed cells that lead to each other, and to which nothing leads, have an
owner and are lost.  So the invariant is about what a pointer leads to, and not by
counting steps: a chain leads to `p` if every set of pointers that has the beginning, and with each
cell the one it leads to, has `p` (`ChainLeads`); of the pool (`PoolLeads`) what comes after a cell
is what would be the head once it is taken (`AfterTaken`), be it linked or the next one
never used.  `LInv` says that every cell is led to by the chain of a node in use, or by
the pool, or is the one in the hands of the command (`InHand`); and of a process that is down, that
every cell is led to from what the file has.  Each lemma shows that a write that puts in,
bridges or takes off one cell leaves what the others are led to by; such a write changes a pointer at one
place, and no other chain comes by it, since by `KInv` no two pointers lead to one cell.

A node that is freed would take its chains with it.  `EInv` is why it has none by then: the jobs of a
deletion empty the three chains, of every node matched, before one is freed (`Emptied`), and the walk that
removes every cell is never past the beginning of the chain (`Walk`).  A walk that lost its place
(`lost_place`, section 2) ends with the process, before a node is freed.
TLC checked the parts of `LInv` and `EInv`, with `q` at every point the condition allows,
on the first million states of each of the instances `cells`, `crash` and `nodes`.

At rest, what is led to is what is read: the cells that `Chain` reads are a closed set (`ChainHas`),
and so are those that will be handed out (`HandoutsHas`), as `Chain` does not give
up early (`FewCells` again).

`ServerProofs` proves, for any number of clients, whichever of them may leave,
every `BUFSIZ`, all requests and every fate, effect and reply:

* `TypeCorrect`: `Spec => []TypeOK`.
* `MutualExclusionHolds`: `Spec => []MutualExclusion`.
* `NothingLeftOverHolds`: `Spec => []NothingLeftOver`.

from `ServerAssumption` (requests are not empty, replies are sequences of bytes, a fate is one of the three,
the holder of a free mutex is no client).  `TypeOK` is not inductive, since
`remain` is a difference: that it stays in `Nat` needs to know that the stream
holds no more than it announces.  `IInv` adds `Framed`, which says for each
connection what is where of a request and a response: a stream whose header is
still to be read begins with one, which gives the length of what follows it plus
what the sender has still to send (`Announces`); past the header, `remain` is
that sum; from a whole request to the first byte of its answer both streams are
empty; and the two ends are in states that fit each other.  It also adds
`Locked`: who is in the part under the mutex is its holder.  The proof has lemmas
on cutting and joining streams, one on a step that changes what belongs to one
client (`OneChanges`), and a lemma per action.

`ServerRefinement` proves, from the same assumptions:

* `Implements`: `Spec => Serial`, every step of `Server` is a step of
  `SerialService` or leaves it alone, under the mapping of `ServerProperties`.
* `OnlyForAReasonHolds`: `Spec => OnlyForAReason`.

`IInv` says where every message is but not what is in it.  `CInv` adds `Carried`
(what the thread has received, what is in the stream and what the client has
still to send are together the client's request; what the thread is about to
send is the reply to it on the data file it has read) and `Fresh` (what
`execute_reads` read is still in the file when `execute_writes` writes, as long as the server runs:
this is what the mutex is for, and it follows from `Locked`).  `OnlyForAReason` needs both:
that the process survives or not is decided by what `execute_reads` has read, and
the property speaks of the data file as it is.  A command that ends the process is
the abstract service's `Die` (`DieStep`).  The mapping
joins up the three parts of a response, so each step that moves bytes from
one place to another is a stutter by a lemma on cutting and joining
(`PacketJoin`, `BytesOfJoin`), and there is a lemma per action.

`SessionProofs` proves, for all sizes of the arrays, all names and values:

* `RoundTrip`: what `parse_client_xml_request` reads out of what
  `build_client_xml_request` made is the `query_info` that went in, each property
  copied into its arrays once more.  The children of a request are told apart
  by their place, and each of the four shapes has its case.
* `OnlyAsTypedHolds`: `Spec => OnlyAsTyped`, if every query in `Queries` is
  `Heeded`.  That is the use of the condition: it names everything by which the
  program makes of a query another one, and each of the workloads above that breaks
  `OnlyAsTyped` falsifies one conjunct of it.
* `AnsweredAsTypedHolds`: `Spec => []AnsweredAsTyped`, and `TypeCorrect`:
  `Spec => []TypeOK`, under the same condition.  (A SET without an item, or a
  path without a node, is not heeded either: the types of such a query's
  `query_info` are not claimed.)

The invariant of `OnlyAsTyped` (`OnItsWay`) is that the request is the one
`typed` becomes, and `received` what
is read out of it.  Of a query with a meaning the `query_info` is `Meaning`
(`MeaningArrives`, by `RoundTrip`); of one without, either the schema turns the
request down, or the command is one that changes nothing (`NothingArrives`).
`AnswerInv` adds that the response on its way is what `Response` says of the graph
as it is *now* (`Told`), though it was put together while the command ran: for a match
because a match leaves the graph alone, and its number counts the nodes listed
because the graph stays finite (`GraphFinite`, `OneLineEach`).  That `"down"` and `"astray"` have
the reasons claimed is about the query *typed*, where the server goes by what it has *received*:
`Runs` joins the two, and `PromiseSame` says that the reason is still to be seen in the graph.  That only a query
without meaning is turned down needs the converse of `NothingArrives`: what is
meant passes the schema (`MeantIsValid`).

`LinkedListProofs` proves, for any number of threads and every width of the counters:

* `ListsImplementAllocator`: `Spec => AllocSpec`, every step of a list is a step
  of the allocator, or leaves it alone.
* `NeverMoreHolds`: `Spec => []NeverMore`.
* `ExactHolds`: `Spec => []ExactUnlessRaced`.

The last two are proved of `AllocSpec`, with the inductive invariant `AllocInv`:
besides the type and `NeverMore` itself, `LoadedNoMore` (what a call has
loaded of the total is no more than was asked for when it stores: stores of others may
be undone, never added to) and `InTurn` (until calls overlap, at most one is under
way, and `Reached` says for each place in it how far the three counters have come).

`LinkedListHeap` proves, for any number of threads,
lists of any length and whatever free place `malloc` takes:

* `NothingElseLostHolds`: `Spec => []NothingElseLost`.
* `BothWaysHolds`: `Spec => []BothWays`.
* `ImplementsLists`: `Spec => Implements`, every list is the sequence of `Lists`.
* `TypeCorrect`: `Spec => []TypeOK`.

from `LinkedListAssumption` (blocks have sizes, there are finitely many
places, NULL is none of them), which TLC evaluates.  The properties speak of
lists by way of `Walk`, a recursive function along `next`.  `HeapInv` says the
same of a sequence: for every thread there is one, `Rest(t)`, whose members are
joined both ways, begin and end where `first` (or `current`, while the list is
freed) and `last` point, and number `size` (`Joined`); are nodes of the right
kind, all different, each with a value of its own if the list owns its values
(`Kept`); and are apart from the block in the thread's hands (`InHands`).  With
`NothingElseLost` as its last conjunct it is inductive: what one thread adds,
unlinks or frees is in no other thread's sequence (`KeepsOthers`), which is
where that conjunct is needed.  That a sequence joined so *is* the walk is a
statement about every length; it is proved with the least number principle
(`Least`: from the well-foundedness of finite sets, a library theorem without an
operator parameter), and the same principle shows that `Search` finds the first
value of its kind.  In the refinement `add_last` appends, `remove_element` takes
out the first (`RemoveFirstSkips`), the last step of `free_list` ends the list, and the rest
stutters.  `TypeOK` has a list no longer than there are places, since its nodes are
different ones.

### Only model-checked

* Of the engine: `OthersOnDisk`, `DyingRemoves` and `Implements`.
  `Implements` does not hold for all values of the constants: there are workloads
  above that break it, and a theorem needs a condition on `Commands` that names
  all of them.  `OthersOnDisk` and `DyingRemoves` compare the disk
  with the graph of the history variable, and need the same.
* Of `LinkedList`: `BytesHeld`, a sum over a set, which the library defines by a
  fold (induction over data).
* Liveness (`CommandsEnd`, `AnsweredUnlessOvertaken`): under fairness it is beyond
  the prover.

## 6. Plan

1. *Done*: `Layout`, `PropertyGraph`, `DataFile` with nodes, labels, properties
   and relations; type correctness and coherence of the control block proved.
2. *Done*: `Server`, `SerialService`; type correctness, mutual exclusion,
   framing, the refinement and `OnlyForAReason` proved.
3. *Done*: `Messages` and `Session`; the round trip and every property proved.
4. *Done*: `MyAlloc`, `LinkedList`, `Lists`; the counters, the heap and the
   refinement proved.
5. The engine's pools: *done* for the blocks (`BlocksLinked`), the nodes
   (`NodesOwnedOnce`, `NodesAllScanned`) and the cells (`CellsOwnedOnce`,
   `AlwaysReadable`, `NoCellLost`).  That nothing is taken for what it is not:
   *done* (`NeverWild`).  What is left: on top of them the
   refinement of `PropertyGraph` for commands without relations.

### Not modelled

* Writes that fail and blocks at 2 GiB and beyond (`datafile.c:36`, `datafile.c:242`):
  what the stream shows afterwards is the C library's, not this code's.
* The bytes of blocks; a header that arrives in pieces (`server.c:64`,
  `client_main.c:54`); the 0 byte that `strcat` writes behind `request_xml`
  (`server.c:71`): what follows depends on the stack of the build.
* The text of XML and its parser (libxml2), libcypher-parser, the wording of
  responses, the set-up of sockets: libraries, or no state of this code.
* `datafile_main.c`, a debug program that calls the engine's functions in a fixed
  order, and the build.
