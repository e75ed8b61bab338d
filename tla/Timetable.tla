----------------------------- MODULE Timetable -----------------------------
(***************************************************************************)
(* The operation-lowering loop of onnx_to_gwr_timetable                    *)
(* (onnx-to-gwr-timetable-yaml.py lines 413-528) with its helpers          *)
(* _get_pe_sram_bytes, _split_memory_op and _calculate_num_ops.            *)
(*                                                                         *)
(* The loop is sequential; each action is one step of it: take the next   *)
(* ONNX node and assign it a PE, lower one input slot to load chunks,      *)
(* emit the compute record and its incoming edges, lower one output slot   *)
(* to store chunks and their edges.  Every raise of the code is an action  *)
(* that moves pc to "failed" and records which check fired.  The KeyError *)
(* of lines 447/506 and the ValueError of _calculate_num_ops (line 312)   *)
(* need a tensor _collect_tensors did not record; Converter checks that   *)
(* no such lookup happens, so here the lookups are plain applications.    *)
(*                                                                         *)
(* graph, tensors, tensor_addresses and pes are the inputs of the loop     *)
(* (the ONNX graph, the results of _collect_tensors and _layout_tensors,   *)
(* the platform's processing_elements); no step changes them.              *)
(***************************************************************************)
EXTENDS OnnxMeta

CONSTANTS
    DEFAULT_SRAM_BYTES, \* SRAM of a PE without config.sram_bytes
    NoName,             \* an ONNX node whose name is ""
    Empty,              \* an unused optional input/output slot ("")
    NodeNames,          \* names of ONNX nodes
    PeNames             \* names of processing elements

VARIABLES
    graph,            \* graph.node: << [name, op_type, input, output] >>
    tensors,          \* tensor name -> [shape, dtype, size]
    tensor_addresses, \* tensor name -> base address
    pes,              \* processing_elements: << [name, sram] >>, sram may be None
    pc,               \* "check", "node", "load", "store", "done", "failed"
    error,            \* which raise ended the run, or None
    k,                \* 1 + onnx_node_index of the node being lowered
    current_pe_index, \* round-robin cursor over pes (0-based, as in the code)
    pe_name,          \* PE of the node being lowered
    sram_bytes,       \* its SRAM capacity
    io,               \* 1 + input_index or 1 + output_index
    load_node_ids,    \* ids of the load chunks of the node being lowered
    nodes,            \* the timetable's node list
    edges             \* the timetable's edge list

inputs == <<graph, tensors, tensor_addresses, pes>>
vars == <<graph, tensors, tensor_addresses, pes, pc, error, k,
          current_pe_index, pe_name, sram_bytes, io, load_node_ids, nodes, edges>>

(***************************************************************************)
(* Node ids.  The code formats "<node>_load_<i>", "<node>_store_<i>",      *)
(* "<base>_chunk_<c>" and "<node>_compute".  An id is kept as the record   *)
(* of the parts it is formatted from: the suffixes end in "_compute" or    *)
(* in "_<kind>_<digits>" / "_chunk_<digits>", so the formatted string      *)
(* determines its parts and two ids are equal exactly when their records   *)
(* are.                                                                    *)
(***************************************************************************)
MemBaseId(node, kind, index) == [node |-> node, kind |-> kind, index |-> index]
\* mutant: the "_chunk_<c>" suffix dropped for multi-chunk transfers
ChunkIdNoSuffix(base, chunk, num_chunks) == [base |-> base, chunk |-> None]
ChunkId(base, chunk, num_chunks) ==
    [base |-> base, chunk |-> IF num_chunks = 1 THEN None ELSE chunk]
ComputeId(node) == [base |-> MemBaseId(node, "compute", None), chunk |-> None]

\* _get_pe_sram_bytes: config.sram_bytes of the first PE of that name that
\* declares one, else the default.
GetPeSramBytes(name) ==
    LET declaring == {i \in DOMAIN pes : pes[i].name = name /\ pes[i].sram # None}
    IN  IF declaring = {} THEN DEFAULT_SRAM_BYTES
        ELSE pes[CHOOSE i \in declaring : \A j \in declaring : i <= j].sram

\* _split_memory_op: ceil(total / sram) chunks of at most sram bytes at
\* consecutive offsets.
\* mutants: floor instead of ceiling division; ceiling off by one
NumChunksFloor(total, sram) == total \div sram
NumChunksPlusOne(total, sram) == (total + sram) \div sram
NumChunks(total, sram) == (total + sram - 1) \div sram
\* mutant: every chunk sized sram bytes (min with the remainder dropped)
SplitMemoryOpNoMin(base, op, pe, addr, total, sram) ==
    LET n == NumChunks(total, sram) IN
    [c \in 1..n |->
        [id |-> ChunkId(base, c - 1, n), kind |-> "memory", op |-> op, pe |-> pe,
         addr |-> addr + (c - 1) * sram, num_bytes |-> sram]]
SplitMemoryOp(base, op, pe, addr, total, sram) ==
    LET n == NumChunks(total, sram) IN
    [c \in 1..n |->
        [id |-> ChunkId(base, c - 1, n), kind |-> "memory", op |-> op, pe |-> pe,
         addr |-> addr + (c - 1) * sram,
         num_bytes |-> IF sram < total - (c - 1) * sram THEN sram
                       ELSE total - (c - 1) * sram]]

\* _calculate_num_ops: element count of an output, at least 1 (its raises
\* need a tensor or a shape _collect_tensors never leaves out)
CalculateNumOps(name) ==
    LET n == NumElements(tensors[name].shape) IN IF n < 1 THEN 1 ELSE n

Ids(ops) == [i \in DOMAIN ops |-> ops[i].id]
DataEdge(from, to) == [from |-> from, to |-> to, kind |-> "data"]

Node == graph[k]
Named(names) == {i \in DOMAIN names : names[i] # Empty}

-----------------------------------------------------------------------------
Init ==
    /\ pc = "check"
    /\ error = None
    /\ k = 1
    /\ current_pe_index = 0
    /\ pe_name = None
    /\ sram_bytes = None
    /\ io = 1
    /\ load_node_ids = <<>>
    /\ nodes = <<>>
    /\ edges = <<>>

Fail(why) ==
    /\ pc' = "failed"
    /\ error' = why
    /\ UNCHANGED <<inputs, k, current_pe_index, pe_name, sram_bytes, io,
                   load_node_ids, nodes, edges>>

\* lines 414-416: no processing elements
NoProcessingElements ==
    /\ pc = "check"
    /\ pes = <<>>
    /\ Fail("no_pes")

StartNodes ==
    /\ pc = "check"
    /\ pes # <<>>
    /\ pc' = "node"
    /\ UNCHANGED <<inputs, error, k, current_pe_index, pe_name, sram_bytes, io,
                   load_node_ids, nodes, edges>>

\* lines 427-428: a node without a name
UnnamedNode ==
    /\ pc = "node"
    /\ k <= Len(graph)
    /\ Node.name = NoName
    /\ Fail("unnamed_node")

\* mutant: load_node_ids not reset for the next ONNX node
AssignPeKeepLoads ==
    /\ pc = "node"
    /\ k <= Len(graph)
    /\ Node.name # NoName
    /\ pe_name' = pes[current_pe_index + 1].name
    /\ current_pe_index' = (current_pe_index + 1) % Len(pes)
    /\ sram_bytes' = GetPeSramBytes(pes[current_pe_index + 1].name)
    /\ io' = 1
    /\ pc' = "load"
    /\ UNCHANGED <<inputs, error, k, nodes, edges, load_node_ids>>

\* mutant: the cursor advanced before the PE is picked
AssignPeAdvanceFirst ==
    LET next == (current_pe_index + 1) % Len(pes) IN
    /\ pc = "node"
    /\ k <= Len(graph)
    /\ Node.name # NoName
    /\ pe_name' = pes[next + 1].name
    /\ current_pe_index' = next
    /\ sram_bytes' = GetPeSramBytes(pes[next + 1].name)
    /\ load_node_ids' = <<>>
    /\ io' = 1
    /\ pc' = "load"
    /\ UNCHANGED <<inputs, error, k, nodes, edges>>

\* mutant: the SRAM looked up for the PE after the cursor has moved on
AssignPeSramOfNext ==
    /\ pc = "node"
    /\ k <= Len(graph)
    /\ Node.name # NoName
    /\ pe_name' = pes[current_pe_index + 1].name
    /\ current_pe_index' = (current_pe_index + 1) % Len(pes)
    /\ sram_bytes' = GetPeSramBytes(pes[((current_pe_index + 1) % Len(pes)) + 1].name)
    /\ load_node_ids' = <<>>
    /\ io' = 1
    /\ pc' = "load"
    /\ UNCHANGED <<inputs, error, k, nodes, edges>>

\* lines 429-439: round-robin PE, its SRAM, fresh load id list
AssignPe ==
    /\ pc = "node"
    /\ k <= Len(graph)
    /\ Node.name # NoName
    /\ pe_name' = pes[current_pe_index + 1].name
    /\ current_pe_index' = (current_pe_index + 1) % Len(pes)
    /\ sram_bytes' = GetPeSramBytes(pes[current_pe_index + 1].name)
    /\ load_node_ids' = <<>>
    /\ io' = 1
    /\ pc' = "load"
    /\ UNCHANGED <<inputs, error, k, nodes, edges>>

\* lines 441-443: an unused input slot
SkipInput ==
    /\ pc = "load"
    /\ io <= Len(Node.input)
    /\ Node.input[io] = Empty
    /\ io' = io + 1
    /\ UNCHANGED <<inputs, pc, error, k, current_pe_index, pe_name, sram_bytes,
                   load_node_ids, nodes, edges>>

\* line 364 raises ZeroDivisionError when the PE's SRAM is 0
LoadFails ==
    /\ pc = "load"
    /\ io <= Len(Node.input)
    /\ Node.input[io] # Empty
    /\ sram_bytes = 0
    /\ Fail("zero_sram")

\* lines 445-457: load chunks of one input
EmitLoad ==
    /\ pc = "load"
    /\ io <= Len(Node.input)
    /\ Node.input[io] # Empty
    /\ sram_bytes # 0
    /\ LET t == Node.input[io]
           ops == SplitMemoryOp(MemBaseId(Node.name, "load", io - 1), "load",
                                pe_name, tensor_addresses[t], tensors[t].size,
                                sram_bytes)
       IN  /\ nodes' = nodes \o ops
           /\ load_node_ids' = load_node_ids \o Ids(ops)
    /\ io' = io + 1
    /\ UNCHANGED <<inputs, pc, error, k, current_pe_index, pe_name, sram_bytes,
                   edges>>

\* mutant: the dtype of the first named output
ComputeDtypeFirst(outs) ==
    IF outs = {} THEN "fp32"
    ELSE DtypeToString(tensors[Node.output[CHOOSE i \in outs : \A j \in outs : i <= j]].dtype)

\* lines 464-473: the dtype of the last named output, "fp32" without one
ComputeDtype(outs) ==
    IF outs = {} THEN "fp32"
    ELSE DtypeToString(tensors[Node.output[CHOOSE i \in outs : \A j \in outs : j <= i]].dtype)

\* lines 459-496: the compute record (num_ops is the largest output element
\* count, at least 1; dtype is that of the last named output) and an edge
\* from every load chunk of this node to it
EmitCompute ==
    /\ pc = "load"
    /\ io > Len(Node.input)
    /\ LET outs == Named(Node.output)
           cid == ComputeId(Node.name)
           numOps == {CalculateNumOps(Node.output[i]) : i \in outs}
           dtype == ComputeDtype(outs)
       IN  /\ nodes' = Append(nodes,
                  [id |-> cid, kind |-> "compute", op |-> MapOnnxOpToGwrOp(Node.op_type),
                   pe |-> pe_name, dtype |-> dtype,
                   num_ops |-> CHOOSE m \in numOps \cup {1} :
                                   \A n \in numOps \cup {1} : n <= m])
           /\ edges' = edges \o [i \in DOMAIN load_node_ids |->
                                    DataEdge(load_node_ids[i], cid)]
    /\ io' = 1
    /\ pc' = "store"
    /\ UNCHANGED <<inputs, error, k, current_pe_index, pe_name, sram_bytes,
                   load_node_ids>>

\* lines 500-502: an unused output slot
SkipOutput ==
    /\ pc = "store"
    /\ io <= Len(Node.output)
    /\ Node.output[io] = Empty
    /\ io' = io + 1
    /\ UNCHANGED <<inputs, pc, error, k, current_pe_index, pe_name, sram_bytes,
                   load_node_ids, nodes, edges>>

\* line 364 (ZeroDivisionError) for a store
StoreFails ==
    /\ pc = "store"
    /\ io <= Len(Node.output)
    /\ Node.output[io] # Empty
    /\ sram_bytes = 0
    /\ Fail("zero_sram")

\* lines 504-523: store chunks of one output and an edge to each of them
EmitStore ==
    /\ pc = "store"
    /\ io <= Len(Node.output)
    /\ Node.output[io] # Empty
    /\ sram_bytes # 0
    /\ LET t == Node.output[io]
           ops == SplitMemoryOp(MemBaseId(Node.name, "store", io - 1), "store",
                                pe_name, tensor_addresses[t], tensors[t].size,
                                sram_bytes)
       IN  /\ nodes' = nodes \o ops
           /\ edges' = edges \o [i \in DOMAIN ops |->
                                    DataEdge(ComputeId(Node.name), ops[i].id)]
    /\ io' = io + 1
    /\ UNCHANGED <<inputs, pc, error, k, current_pe_index, pe_name, sram_bytes,
                   load_node_ids>>

\* end of the loop body (line 426): on to the next ONNX node
NextNode ==
    /\ pc = "store"
    /\ io > Len(Node.output)
    /\ k' = k + 1
    /\ pc' = "node"
    /\ UNCHANGED <<inputs, error, current_pe_index, pe_name, sram_bytes, io,
                   load_node_ids, nodes, edges>>

\* lines 525-528: every node lowered, the timetable is returned
Finish ==
    /\ pc = "node"
    /\ k > Len(graph)
    /\ pc' = "done"
    /\ UNCHANGED <<inputs, error, k, current_pe_index, pe_name, sram_bytes, io,
                   load_node_ids, nodes, edges>>

\* The conversion has returned or raised; nothing happens any more.
Terminated ==
    /\ pc \in {"done", "failed"}
    /\ UNCHANGED vars

Next ==
    \/ NoProcessingElements \/ StartNodes
    \/ UnnamedNode \/ AssignPe
    \/ SkipInput \/ LoadFails \/ EmitLoad
    \/ EmitCompute
    \/ SkipOutput \/ StoreFails \/ EmitStore
    \/ NextNode \/ Finish
    \/ Terminated


Spec == Init /\ [][Next]_vars

-----------------------------------------------------------------------------
(***************************************************************************)
(* Properties.                                                             *)
(***************************************************************************)
MemIds == {nodes[i].id : i \in {j \in DOMAIN nodes : nodes[j].kind = "memory"}}
Emitted(id) == \E i \in DOMAIN nodes : nodes[i].id = id
NodeNamed(name) == graph[CHOOSE j \in DOMAIN graph : graph[j].name = name]
SlotTensor(b) ==
    IF b.kind = "load" THEN NodeNamed(b.node).input[b.index + 1]
    ELSE NodeNamed(b.node).output[b.index + 1]
Group(b) == {i \in DOMAIN nodes : nodes[i].kind = "memory" /\ nodes[i].id.base = b}
CountIf(S, P(_)) == Cardinality({x \in S : P(x)})

MemNodes ==
    [id : [base : [node : NodeNames, kind : {"load", "store"}, index : Nat],
           chunk : Nat \cup {None}],
     kind : {"memory"}, op : {"load", "store"}, pe : PeNames,
     addr : Nat, num_bytes : Nat \ {0}]
ComputeNodes ==
    [id : {ComputeId(n) : n \in NodeNames}, kind : {"compute"}, op : {"add", "mul"},
     pe : PeNames, dtype : STRING, num_ops : Nat \ {0}]

TypeOK ==
    /\ pc \in {"check", "node", "load", "store", "done", "failed"}
    /\ error \in {None, "no_pes", "unnamed_node", "zero_sram"}
    /\ k \in 1..Len(graph) + 1
    /\ current_pe_index \in (0..Len(pes) - 1) \cup {0}
    /\ pe_name \in PeNames \cup {None}
    /\ sram_bytes \in Int \cup {None}
    /\ io \in Nat \ {0}
    /\ \A i \in DOMAIN nodes : nodes[i] \in MemNodes \cup ComputeNodes
    /\ \A i \in DOMAIN edges : edges[i].kind = "data"
    /\ \A i \in DOMAIN load_node_ids : load_node_ids[i] \in MemIds

\* Every timetable node id is unique: the "_chunk_<c>" suffix (lines
\* 370-373) is what separates the chunks of one transfer, and the node
\* name is what separates the transfers of different ONNX nodes.
UniqueIds ==
    \A i, j \in DOMAIN nodes : i # j => nodes[i].id # nodes[j].id

\* _split_memory_op tiles a tensor exactly: the chunks of one load or
\* store are contiguous in the node list, start at the tensor's address,
\* each follows the previous one without gap or overlap, each is 1..sram
\* bytes, there are ceil(size/sram) of them and they end at address+size.
ChunksTileTensor ==
    \A b \in {id.base : id \in MemIds} :
        LET G == Group(b)
            first == CHOOSE i \in G : \A j \in G : i <= j
            last == first + Cardinality(G) - 1
            t == SlotTensor(b)
            C == GetPeSramBytes(nodes[first].pe)
        IN  /\ G = first..last
            /\ nodes[first].addr = tensor_addresses[t]
            /\ \A i \in first..last - 1 :
                   nodes[i + 1].addr = nodes[i].addr + nodes[i].num_bytes
            /\ \A i \in G : nodes[i].num_bytes \in 1..C
            /\ Cardinality(G) = NumChunks(tensors[t].size, C)
            /\ nodes[last].addr + nodes[last].num_bytes
                   = tensor_addresses[t] + tensors[t].size

\* The edges are exactly the data dependencies of each ONNX node: every
\* edge goes from a load chunk of a node to that node's compute, or from
\* the compute to one of its store chunks; once a compute is emitted each
\* of its load chunks has exactly one edge into it, and each store chunk
\* has exactly one edge from its compute.  load_node_ids is reset per node
\* (line 439), so no edge crosses from one ONNX node to another.
EdgesFollowDataflow ==
    /\ \A e \in {edges[i] : i \in DOMAIN edges} :
          \/ /\ e.to = ComputeId(e.from.base.node)
             /\ e.from.base.kind = "load" /\ Emitted(e.from)
          \/ /\ e.from = ComputeId(e.to.base.node)
             /\ e.to.base.kind = "store" /\ Emitted(e.to)
    /\ \A m \in MemIds :
          LET cid == ComputeId(m.base.node) IN
          /\ m.base.kind = "load" /\ Emitted(cid) =>
                 CountIf(DOMAIN edges, LAMBDA i : edges[i] = DataEdge(m, cid)) = 1
          /\ m.base.kind = "store" =>
                 CountIf(DOMAIN edges, LAMBDA i : edges[i] = DataEdge(cid, m)) = 1

\* A completed timetable lowers every ONNX node: one compute per node, a
\* load for every named input slot and a store for every named output slot,
\* and nothing for the empty slots.
LoweringComplete ==
    pc = "done" =>
        /\ \A j \in DOMAIN graph :
              /\ CountIf(DOMAIN nodes, LAMBDA i : nodes[i].id = ComputeId(graph[j].name)) = 1
              /\ \A s \in DOMAIN graph[j].input :
                    Group(MemBaseId(graph[j].name, "load", s - 1)) # {}
                        <=> graph[j].input[s] # Empty
              /\ \A s \in DOMAIN graph[j].output :
                    Group(MemBaseId(graph[j].name, "store", s - 1)) # {}
                        <=> graph[j].output[s] # Empty
        /\ Len(nodes) = Len(graph)
              + CountIf(DOMAIN nodes, LAMBDA i : nodes[i].kind = "memory")

\* Round-robin PE assignment (lines 432-433): with K PEs and G ONNX nodes,
\* the i-th PE (0-based) runs ceil((G - i) / K) computes.
RoundRobinShare ==
    pc = "done" =>
        \A i \in DOMAIN pes :
            CountIf(DOMAIN nodes, LAMBDA j : nodes[j].kind = "compute"
                                             /\ nodes[j].pe = pes[i].name)
                = (Len(graph) - (i - 1) + Len(pes) - 1) \div Len(pes)

\* the capacity of a processing_elements entry (spec 3: "elements without
\* a declared capacity use a fixed default")
SramOf(pe) == IF pe.sram = None THEN DEFAULT_SRAM_BYTES ELSE pe.sram

\* the processing_elements entry the round-robin cursor picks for the
\* ONNX node of that name: the j-th node takes entry ((j - 1) mod K) + 1
AssignedPe(name) ==
    pes[(((CHOOSE j \in DOMAIN graph : graph[j].name = name) - 1) % Len(pes)) + 1]

\* Spec 4.3 steps 2-4: every load and store chunk runs on the element the
\* round-robin cursor assigned to its ONNX node (lines 432-433) and fits
\* that element's SRAM.  The code looks the SRAM up again by PE name
\* (_get_pe_sram_bytes, lines 324-336, called at line 434), after the
\* cursor has moved, so this ties the cursor to the lookup.
ChunksFitAssignedPe ==
    \A i \in DOMAIN nodes :
        nodes[i].kind = "memory" =>
            LET e == AssignedPe(nodes[i].id.base.node) IN
            /\ nodes[i].pe = e.name
            /\ nodes[i].num_bytes <= SramOf(e)

\* the builder's run seen from outside: nothing until it returns, then the
\* timetable it returned or the raise that ended it
Outcome ==
    CASE pc = "done" -> [status |-> "done", nodes |-> nodes, edges |-> edges]
      [] pc = "failed" -> [status |-> "failed", error |-> error]
      [] OTHER -> None

Abs == INSTANCE Lowering WITH outcome <- Outcome

\* The lowering loop (lines 413-528) implements spec 4.3: whatever the
\* graph and PE list, it returns exactly the timetable of Lowering (every
\* node, chunk, address, size, id, dtype, num_ops and edge, in order), or
\* raises the failure Lowering names for the first operation that fails.
\* Ties together the PE cursor, the per-node load id list, the chunking of
\* _split_memory_op and the order in which nodes and edges are appended.
LoweringRefinement == Abs!Spec

=============================================================================
