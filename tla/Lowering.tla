----------------------------- MODULE Lowering -----------------------------
(***************************************************************************)
(* What the timetable builder promises (spec section 4.3), stated without  *)
(* cursors or loops: the outcome of lowering a graph is a function of the  *)
(* graph, the resolved tensors, their addresses and the PE list.           *)
(*                                                                         *)
(* The j-th ONNX operation runs on PE ((j - 1) mod K) + 1 and contributes, *)
(* in this order, the load chunks of its non-empty inputs, its compute     *)
(* record and the store chunks of its non-empty outputs; its edges go from *)
(* each of its load chunks to its compute and from its compute to each of  *)
(* its store chunks.  A transfer of S bytes on a PE of capacity C is cut   *)
(* into the least n chunks with n * C >= S, all of C bytes but the last.   *)
(* The run fails when there is no PE, or at the first operation without a  *)
(* name or, as the code does, whose PE has capacity 0 and which has a      *)
(* transfer to cut (spec 4.3 names no such failure; the division raises).  *)
(*                                                                         *)
(* outcome is None until the builder returns, then the timetable or the    *)
(* failure.  The inputs are variables that no step changes.                *)
(***************************************************************************)
EXTENDS OnnxMeta, SequencesExt

CONSTANTS
    DEFAULT_SRAM_BYTES, \* capacity of a PE that declares none
    NoName,             \* an operation without a name
    Empty               \* an unused input/output slot

VARIABLES
    graph,            \* << [name, op_type, input, output] >>
    tensors,          \* tensor name -> [shape, dtype, size]
    tensor_addresses, \* tensor name -> base address
    pes,              \* << [name, sram] >>
    outcome           \* None, [status |-> "done", nodes, edges] or
                      \* [status |-> "failed", error]

vars == <<graph, tensors, tensor_addresses, pes, outcome>>

PeOf(j) == pes[((j - 1) % Len(pes)) + 1]
Capacity(j) == IF PeOf(j).sram = None THEN DEFAULT_SRAM_BYTES ELSE PeOf(j).sram

\* the least n with n * cap >= size
ChunkCount(size, cap) == CHOOSE n \in 0..size : n * cap >= size /\ (n - 1) * cap < size

Transfer(j, kind, index, t) ==
    LET cap == Capacity(j)
        n == ChunkCount(tensors[t].size, cap)
        base == [node |-> graph[j].name, kind |-> kind, index |-> index]
    IN  [c \in 1..n |->
            [id |-> [base |-> base, chunk |-> IF n = 1 THEN None ELSE c - 1],
             kind |-> "memory", op |-> kind, pe |-> PeOf(j).name,
             addr |-> tensor_addresses[t] + (c - 1) * cap,
             num_bytes |-> IF c < n THEN cap ELSE tensors[t].size - (n - 1) * cap]]

\* the chunks of every non-empty slot of a name list, slot by slot
Transfers(j, kind, slots) ==
    FlattenSeq([s \in DOMAIN slots |->
        IF slots[s] = Empty THEN <<>> ELSE Transfer(j, kind, s - 1, slots[s])])

Loads(j) == Transfers(j, "load", graph[j].input)
Stores(j) == Transfers(j, "store", graph[j].output)

ComputeOf(j) == [base |-> [node |-> graph[j].name, kind |-> "compute", index |-> None],
                 chunk |-> None]

Compute(j) ==
    LET outs == {s \in DOMAIN graph[j].output : graph[j].output[s] # Empty}
    IN  [id |-> ComputeOf(j), kind |-> "compute",
         op |-> MapOnnxOpToGwrOp(graph[j].op_type), pe |-> PeOf(j).name,
         dtype |-> IF outs = {} THEN "fp32"
                   ELSE DtypeToString(tensors[graph[j].output[Max(outs)]].dtype),
         num_ops |-> Max({1} \cup {NumElements(tensors[graph[j].output[s]].shape) :
                                      s \in outs})]

Edge(from, to) == [from |-> from, to |-> to, kind |-> "data"]

OpNodes(j) == Loads(j) \o <<Compute(j)>> \o Stores(j)
OpEdges(j) ==
    [i \in DOMAIN Loads(j) |-> Edge(Loads(j)[i].id, ComputeOf(j))]
    \o [i \in DOMAIN Stores(j) |-> Edge(ComputeOf(j), Stores(j)[i].id)]

HasTransfer(j) ==
    \E s \in DOMAIN graph[j].input \cup DOMAIN graph[j].output :
        \/ s \in DOMAIN graph[j].input /\ graph[j].input[s] # Empty
        \/ s \in DOMAIN graph[j].output /\ graph[j].output[s] # Empty

Failure(j) ==
    IF graph[j].name = NoName THEN "unnamed_node"
    ELSE IF Capacity(j) = 0 /\ HasTransfer(j) THEN "zero_sram"
    ELSE None

Result ==
    IF pes = <<>> THEN [status |-> "failed", error |-> "no_pes"]
    ELSE LET failing == {j \in DOMAIN graph : Failure(j) # None} IN
         IF failing # {} THEN [status |-> "failed", error |-> Failure(Min(failing))]
         ELSE [status |-> "done",
               nodes |-> FlattenSeq([j \in DOMAIN graph |-> OpNodes(j)]),
               edges |-> FlattenSeq([j \in DOMAIN graph |-> OpEdges(j)])]

Init == outcome = None

\* the builder returns (or raises) once, with the result
Return ==
    /\ outcome = None
    /\ outcome' = Result
    /\ UNCHANGED <<graph, tensors, tensor_addresses, pes>>

Spec == Init /\ [][Return]_vars

=============================================================================
