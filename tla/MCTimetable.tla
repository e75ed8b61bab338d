---------------------------- MODULE MCTimetable ----------------------------
(***************************************************************************)
(* Model-checking instance of Timetable: every graph of up to MaxNodes     *)
(* ONNX nodes built from the node kinds below, every assignment of the     *)
(* tensor kinds below to the two tensors, every PE list of up to two PEs.  *)
(*                                                                         *)
(* Tensor sizes 8, 16 and 20 bytes against an SRAM of 8 bytes give one     *)
(* chunk exactly at the capacity, two full chunks, and three chunks with a *)
(* short last one; a PE without sram_bytes uses the 1 MiB default (one     *)
(* chunk); sram_bytes 0 reaches the ZeroDivisionError.                     *)
(***************************************************************************)
EXTENDS Timetable

CONSTANTS t1, t2, n1, n2, n3, p1, p2, MaxNodes

MCNodeNames == {n1, n2, n3}
MCPeNames == {p1, p2}
NodeOrder == <<n1, n2, n3>>
PeOrder == <<p1, p2>>
Sram == 8

\* input/output slot patterns: two inputs with a tensor both read and
\* written, an empty input and an empty output slot, no inputs, no outputs
NodeKinds ==
    { [op_type |-> "MatMul", input |-> <<t1, t2>>, output |-> <<t2>>],
      [op_type |-> "Add", input |-> <<Empty, t2>>, output |-> <<t1, Empty>>],
      [op_type |-> "Constant", input |-> <<>>, output |-> <<t1, t2>>],
      [op_type |-> "Erf", input |-> <<t1>>, output |-> <<>>] }

TensorKinds ==
    { [shape |-> <<2>>, dtype |-> FLOAT],
      [shape |-> <<2, None>>, dtype |-> INT64],
      [shape |-> <<5, 0>>, dtype |-> FLOAT] }

MkGraph(names, kinds) ==
    [j \in DOMAIN kinds |->
        [name |-> names[j], op_type |-> kinds[j].op_type,
         input |-> kinds[j].input, output |-> kinds[j].output]]

\* graphs of up to MaxNodes nodes; a node is unnamed or has the name of its
\* position, so named nodes have distinct names
Graphs ==
    UNION { {MkGraph(names, kinds) :
               names \in {f \in [1..n -> MCNodeNames \cup {NoName}] :
                             \A j \in 1..n : f[j] \in {NodeOrder[j], NoName}},
               kinds \in [1..n -> NodeKinds]} : n \in 0..MaxNodes }

\* graphs whose node names are drawn freely, so two nodes may share one
DupGraphs ==
    UNION { {MkGraph(names, kinds) :
               names \in [1..n -> MCNodeNames], kinds \in [1..n -> NodeKinds]} :
            n \in 0..MaxNodes }

PeLists ==
    {<<>>} \cup
    {<<[name |-> p1, sram |-> s]>> : s \in {None, Sram, 0}} \cup
    {<<[name |-> p1, sram |-> s1], [name |-> p2, sram |-> s2]>> : s1, s2 \in {None, Sram}}

\* two entries with the same name: one without sram_bytes, or both with
\* one, the first larger
DupPeLists ==
    {<<[name |-> p1, sram |-> s1], [name |-> p1, sram |-> s2]>> :
        <<s1, s2>> \in {<<None, Sram>>, <<2 * Sram, Sram>>}}

InputsInit(graphs, peLists) ==
    /\ graph \in graphs
    /\ tensors \in {[t \in {t1, t2} |->
                        [shape |-> f[t].shape, dtype |-> f[t].dtype,
                         size |-> SizeBytes(f[t].shape, f[t].dtype)]] :
                    f \in [{t1, t2} -> TensorKinds]}
    /\ tensor_addresses = (t1 :> 4096) @@ (t2 :> 4160)
    /\ pes \in peLists
    /\ Init

MCSpec == InputsInit(Graphs, PeLists) /\ [][Next]_vars

MCDupSpec == InputsInit(DupGraphs, PeLists) /\ [][Next]_vars

MCDupPeSpec == InputsInit(Graphs, DupPeLists) /\ [][Next]_vars

=============================================================================
