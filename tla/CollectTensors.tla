-------------------------- MODULE CollectTensors --------------------------
(***************************************************************************)
(* _collect_tensors (onnx-to-gwr-timetable-yaml.py lines 113-174): build   *)
(* the ordered dict of tensor records in three passes: the declared        *)
(* tensors (value_info, then graph inputs, then graph outputs), the        *)
(* initializers, then every input and output name of every node.           *)
(*                                                                         *)
(* A Python dict is a pair: tensor_order, its keys in insertion order, and *)
(* tensors, the function from key to record.  Assigning to an existing key *)
(* replaces the record and keeps the key's position.                       *)
(*                                                                         *)
(* The graph lists are variables that no step changes.  A declared entry  *)
(* is [name, type]; type None stands for a ValueInfoProto whose type has   *)
(* no tensor_type, otherwise type is [shape, dtype] as _shape_from_type_   *)
(* proto and _dtype_from_type_proto return them: shape None (no shape      *)
(* field) or a sequence of dimensions, a dimension an integer (dim_value)  *)
(* or None (dim_param or neither); dtype None (no elem_type) or a code.    *)
(* An initializer is [name, dims, data_type]: a TensorProto always has    *)
(* both, so the hasattr fallbacks of lines 132-135 and 150-155 only ever   *)
(* take the attribute.                                                     *)
(***************************************************************************)
EXTENDS OnnxMeta, SequencesExt

CONSTANT Empty   \* the empty tensor name of an unused optional slot

VARIABLES
    value_info, graph_input, graph_output,  \* declared entries, in order
    initializer,                            \* initializers, in order
    node,                                   \* nodes: [input, output] name lists
    tensor_order,   \* keys of the tensors dict, in insertion order
    tensors,        \* tensor name -> [shape, dtype, size]
    di,             \* 1 + index of the declared entry being read
    ii,             \* 1 + index of the initializer being read
    ni              \* 1 + index of the node tensor name being scanned

collect_inputs == <<value_info, graph_input, graph_output, initializer, node>>
collect_vars == <<value_info, graph_input, graph_output, initializer, node,
                  tensor_order, tensors, di, ii, ni>>

\* line 126: list(value_info) + list(input) + list(output)
Declared == value_info \o graph_input \o graph_output

\* mutant: the re-scan reads only the nodes' inputs
NodeTensorNamesInputsOnly == FlattenSeq([i \in DOMAIN node |-> node[i].input])

\* lines 161-162: the names of the nodes' inputs then outputs, node by node
NodeTensorNames == FlattenSeq([i \in DOMAIN node |-> node[i].input \o node[i].output])

\* lines 84-110
ShapeFromTypeProto(tp) == IF tp = None THEN None ELSE tp.shape
DtypeFromTypeProto(tp) == IF tp = None THEN None ELSE tp.dtype

\* line 122: {init.name: init for init in graph.initializer}; the last
\* initializer of a name wins (0: none)
InitializerFor(name) == SelectLastInSeq(initializer, LAMBDA x : x.name = name)

Record(shape, dtype) == [shape |-> shape, dtype |-> dtype, size |-> SizeBytes(shape, dtype)]

\* lines 127-145: the record of a declared entry
DeclaredRecord(vi) ==
    LET j == InitializerFor(vi.name)
        shape0 == ShapeFromTypeProto(vi.type)
        dtype0 == DtypeFromTypeProto(vi.type)
        shape1 == IF shape0 = None /\ j # 0 THEN initializer[j].dims ELSE shape0
        dtype1 == IF dtype0 = None /\ j # 0 THEN initializer[j].data_type ELSE dtype0
    IN  Record(IF shape1 = None THEN <<1>> ELSE shape1,
               IF dtype1 = None THEN FLOAT ELSE dtype1)

\* lines 150-156
InitializerRecord(init) == Record(init.dims, init.data_type)

\* lines 164-171
PlaceholderRecord == Record(<<1>>, FLOAT)

\* mutant: an assignment never replaces an existing record
PutKeepExisting(name, rec) ==
    /\ tensors' = IF name \in DOMAIN tensors THEN tensors ELSE tensors @@ (name :> rec)
    /\ tensor_order' = IF name \in DOMAIN tensors THEN tensor_order
                       ELSE Append(tensor_order, name)

\* mutant: a replaced key moves to the end (delete and insert)
PutMoveToEnd(name, rec) ==
    /\ tensors' = [x \in DOMAIN tensors \cup {name} |->
                      IF x = name THEN rec ELSE tensors[x]]
    /\ tensor_order' = Append(SelectSeq(tensor_order, LAMBDA x : x # name), name)

\* mutant: every assignment appends its key
PutAppendAlways(name, rec) ==
    /\ tensors' = [x \in DOMAIN tensors \cup {name} |->
                      IF x = name THEN rec ELSE tensors[x]]
    /\ tensor_order' = Append(tensor_order, name)

\* tensors[name] = rec on an ordered dict
Put(name, rec) ==
    /\ tensors' = [x \in DOMAIN tensors \cup {name} |->
                      IF x = name THEN rec ELSE tensors[x]]
    /\ tensor_order' = IF name \in DOMAIN tensors THEN tensor_order
                       ELSE Append(tensor_order, name)

-----------------------------------------------------------------------------
CollectInit ==
    /\ tensor_order = <<>>
    /\ tensors = [x \in {} |-> Record(<<1>>, FLOAT)]
    /\ di = 1
    /\ ii = 1
    /\ ni = 1

\* lines 126-146
DeclareTensor ==
    /\ di <= Len(Declared)
    /\ Put(Declared[di].name, DeclaredRecord(Declared[di]))
    /\ di' = di + 1
    /\ UNCHANGED <<collect_inputs, ii, ni>>

\* lines 149-157
AddInitializer ==
    /\ di > Len(Declared)
    /\ ii <= Len(initializer)
    /\ Put(initializer[ii].name, InitializerRecord(initializer[ii]))
    /\ ii' = ii + 1
    /\ UNCHANGED <<collect_inputs, di, ni>>

\* lines 163-166: an empty slot, or a name already recorded
SkipNodeTensor ==
    /\ di > Len(Declared)
    /\ ii > Len(initializer)
    /\ ni <= Len(NodeTensorNames)
    /\ NodeTensorNames[ni] = Empty \/ NodeTensorNames[ni] \in DOMAIN tensors
    /\ ni' = ni + 1
    /\ UNCHANGED <<collect_inputs, tensor_order, tensors, di, ii>>

\* lines 166-171: a name no declaration or initializer recorded
AddPlaceholder ==
    /\ di > Len(Declared)
    /\ ii > Len(initializer)
    /\ ni <= Len(NodeTensorNames)
    /\ NodeTensorNames[ni] # Empty
    /\ NodeTensorNames[ni] \notin DOMAIN tensors
    /\ Put(NodeTensorNames[ni], PlaceholderRecord)
    /\ ni' = ni + 1
    /\ UNCHANGED <<collect_inputs, di, ii>>

\* line 174: the function has returned
CollectFinished ==
    /\ di > Len(Declared)
    /\ ii > Len(initializer)
    /\ ni > Len(NodeTensorNames)

CollectTerminated ==
    /\ CollectFinished
    /\ UNCHANGED collect_vars

CollectNext ==
    \/ DeclareTensor \/ AddInitializer \/ SkipNodeTensor \/ AddPlaceholder
    \/ CollectTerminated

-----------------------------------------------------------------------------
(* Properties *)

Names(entries) == [i \in DOMAIN entries |-> entries[i].name]

\* every name the three passes meet, in the order they meet it
ScanNames == SelectSeq(Names(Declared) \o Names(initializer) \o NodeTensorNames,
                       LAMBDA x : x # Empty)

FirstSeen(n) == SelectInSeq(ScanNames, LAMBDA x : x = n)

CollectTypeOK ==
    /\ DOMAIN tensors = ToSet(tensor_order)
    /\ \A i, j \in DOMAIN tensor_order : i # j => tensor_order[i] # tensor_order[j]
    /\ \A n \in DOMAIN tensors :
          /\ tensors[n].dtype \in Int
          /\ tensors[n].shape \in Seq(Int \cup {None})
          /\ tensors[n].size = SizeBytes(tensors[n].shape, tensors[n].dtype)
    /\ di \in 1..Len(Declared) + 1
    /\ ii \in 1..Len(initializer) + 1
    /\ ni \in 1..Len(NodeTensorNames) + 1

\* Spec 4.1 "output is a total function over referenced names": once
\* _collect_tensors returns, every non-empty name of a declaration, an
\* initializer or a node's input or output has a record, and no other
\* name has one, so the builder's lookups (lines 311-318, 447, 506) hold.
ReferencedNames ==
    ({Declared[k].name : k \in DOMAIN Declared}
     \cup {initializer[k].name : k \in DOMAIN initializer}
     \cup UNION {ToSet(node[k].input) \cup ToSet(node[k].output) : k \in DOMAIN node})
    \ {Empty}

ResolverTotal ==
    CollectFinished => DOMAIN tensors = ReferencedNames

\* Spec 4.1 "preserve insertion order of encountered tensor names": the
\* dict's keys are in the order the three passes first meet them, although
\* the initializer pass (line 157) overwrites declared records.  The
\* allocator's stable sort (line 225) takes its tie-break from this order.
InsertionOrder ==
    \A i, j \in DOMAIN tensor_order :
        i < j => FirstSeen(tensor_order[i]) < FirstSeen(tensor_order[j])

\* The record a name ends with: the last initializer of that name, else
\* the last declaration of it, else the placeholder.
ResolvedRecord(n) ==
    LET j == InitializerFor(n)
        k == SelectLastInSeq(Declared, LAMBDA x : x.name = n)
    IN  IF j # 0 THEN InitializerRecord(initializer[j])
        ELSE IF k # 0 THEN DeclaredRecord(Declared[k])
        ELSE PlaceholderRecord

\* The passes of lines 126-172 leave each name with the record its last
\* writer gives it: an initializer over any declaration, a later
\* declaration over an earlier one, a placeholder only where nothing else.
RecordsAsResolved ==
    CollectFinished => \A n \in DOMAIN tensors : tensors[n] = ResolvedRecord(n)

\* Spec 4.1 steps 1-3: a tensor declared (once) with a shape keeps that
\* shape; an initializer's dimensions are used only when the declaration
\* has none.  The initializer pass (lines 149-157) overwrites it.
DeclaredShapeKept ==
    CollectFinished =>
        \A k \in DOMAIN Declared :
            LET n == Declared[k].name
                shape == ShapeFromTypeProto(Declared[k].type)
            IN  (/\ shape # None
                 /\ \A m \in DOMAIN Declared : Declared[m].name = n => m = k)
                => tensors[n].shape = shape

=============================================================================
