----------------------------- MODULE Converter -----------------------------
(***************************************************************************)
(* onnx_to_gwr_timetable (onnx-to-gwr-timetable-yaml.py lines 391-528):   *)
(* the three components run one after the other on one ONNX graph and one *)
(* platform: _collect_tensors (line 408), _layout_tensors (line 411), then *)
(* the lowering loop (lines 413-528).  Each phase is the component's own   *)
(* module, instantiated over the shared variables: the resolver's dict is  *)
(* the allocator's and the builder's tensors, the allocator's result is    *)
(* the builder's tensor_addresses, graph.node is the builder's graph and   *)
(* the platform's processing_elements its PE list.  A raise in the        *)
(* allocator ends the conversion before the builder starts.                *)
(***************************************************************************)
EXTENDS OnnxMeta, SequencesExt

CONSTANTS
    Empty, NoName, HBM0, Align, DEFAULT_SRAM_BYTES, NodeNames, PeNames

VARIABLES
    \* inputs: the ONNX graph's lists and the platform configuration
    value_info, graph_input, graph_output, initializer, node, platform,
    \* _collect_tensors
    tensor_order, tensors, di, ii, ni,
    \* _layout_tensors
    lpc, layout_error, ri, device_addresses, device_list, sorted_tensors, ti,
    current_device_index, tensor_addresses,
    \* the lowering loop
    pc, error, k, current_pe_index, pe_name, sram_bytes, io, load_node_ids,
    nodes, edges

collect_state == <<tensor_order, tensors, di, ii, ni>>
layout_state == <<lpc, layout_error, ri, device_addresses, device_list,
                  sorted_tensors, ti, current_device_index, tensor_addresses>>
lower_state == <<pc, error, k, current_pe_index, pe_name, sram_bytes, io,
                 load_node_ids, nodes, edges>>
all_vars == <<value_info, graph_input, graph_output, initializer, node, platform,
              collect_state, layout_state, lower_state>>

C == INSTANCE CollectTensors
L == INSTANCE LayoutTensors
T == INSTANCE Timetable WITH graph <- node, pes <- platform.processing_elements

ConverterInit ==
    /\ C!CollectInit
    /\ L!LayoutInit
    /\ T!Init

\* line 408
Collect ==
    /\ \/ C!DeclareTensor \/ C!AddInitializer
       \/ C!SkipNodeTensor \/ C!AddPlaceholder
    /\ UNCHANGED <<platform, layout_state, lower_state>>

\* mutant: the allocator starts before the resolver's re-scan has finished
LayoutEarly ==
    /\ ii > Len(initializer)
    /\ \/ L!NoMemoryMaps \/ L!NoMemoryRanges \/ L!StartRanges
       \/ L!ParseRange \/ L!BadBaseAddress \/ L!SortTensors
       \/ L!PlaceTensor \/ L!LayoutDone
    /\ UNCHANGED <<value_info, graph_input, graph_output, initializer, node,
                   di, ii, ni, lower_state>>

\* line 411, once _collect_tensors has returned
Layout ==
    /\ C!CollectFinished
    /\ \/ L!NoMemoryMaps \/ L!NoMemoryRanges \/ L!StartRanges
       \/ L!ParseRange \/ L!BadBaseAddress \/ L!SortTensors
       \/ L!PlaceTensor \/ L!LayoutDone
    /\ UNCHANGED <<value_info, graph_input, graph_output, initializer, node,
                   di, ii, ni, lower_state>>

\* lines 413-528, once _layout_tensors has returned
Lower ==
    /\ lpc = "done"
    /\ UNCHANGED <<value_info, graph_input, graph_output, initializer, platform,
                   collect_state, layout_state>>
    /\ \/ T!NoProcessingElements \/ T!StartNodes
       \/ T!UnnamedNode \/ T!AssignPe
       \/ T!SkipInput \/ T!LoadFails \/ T!EmitLoad
       \/ T!EmitCompute
       \/ T!SkipOutput \/ T!StoreFails \/ T!EmitStore
       \/ T!NextNode \/ T!Finish

\* the conversion has returned the timetable or raised
ConverterTerminated ==
    /\ lpc = "failed" \/ pc \in {"done", "failed"}
    /\ UNCHANGED all_vars

ConverterNext == Collect \/ Layout \/ Lower \/ ConverterTerminated

-----------------------------------------------------------------------------
(* Properties *)

\* Every tensor name a node of the graph reads or writes has a record and
\* an address by the time the builder starts, so the lookups tensors[name]
\* and tensor_addresses[name] of lines 311-318, 447 and 506 never raise:
\* the re-scan of lines 161-172 and the placement of every dict key
\* (lines 231-242) together make them total.
LookupsTotal ==
    lpc = "done" =>
        \A i \in DOMAIN node :
            \A t \in (ToSet(node[i].input) \cup ToSet(node[i].output)) \ {Empty} :
                /\ t \in DOMAIN tensors
                /\ t \in DOMAIN tensor_addresses

\* the tensor a memory record of the timetable transfers
TensorOf(op) == T!SlotTensor(op.id.base)
Apart(x, y) == x.addr + x.num_bytes <= y.addr \/ y.addr + y.num_bytes <= x.addr

\* The load and store chunks of two different tensors never touch the same
\* byte: the allocator's 64-byte-rounded cursor (line 241) leaves each
\* tensor a span at least its size, and the chunking of _split_memory_op
\* (lines 364-373) stays inside that span.  (The ranges of the checked
\* platforms lie far apart; cross-device collisions are a non-goal.)
DisjointTransfers ==
    \A i, j \in DOMAIN nodes :
        (/\ nodes[i].kind = "memory" /\ nodes[j].kind = "memory"
         /\ TensorOf(nodes[i]) # TensorOf(nodes[j]))
        => Apart(nodes[i], nodes[j])

=============================================================================
