---------------------------- MODULE MCConverter ----------------------------
(***************************************************************************)
(* Model-checking instance of Converter.  Graphs of one or two named ONNX  *)
(* nodes over tensors a, b, c, d; declarations that give a a shape and c   *)
(* a dtype; an optional initializer b; platforms without memory_maps, with *)
(* the default range (hbm0 at 0x0) alone or with a second device at 8KB,   *)
(* and with no PE, one PE of default SRAM, or two PEs of which one has an  *)
(* 8-byte SRAM so that transfers are chunked.  Tensors not declared get    *)
(* the placeholder record.                                                  *)
(***************************************************************************)
EXTENDS Converter

CONSTANTS a, b, c, d, n1, n2, h1, p1, p2

MCNodeNames == {n1, n2}
MCPeNames == {p1, p2}
NodeOrder == <<n1, n2>>

NodeKinds ==
    { [op_type |-> "MatMul", input |-> <<a, b>>, output |-> <<c>>],
      [op_type |-> "Relu", input |-> <<c, Empty>>, output |-> <<d>>],
      [op_type |-> "Constant", input |-> <<>>, output |-> <<b>>] }

Graphs ==
    UNION {{[j \in 1..n |-> [name |-> NodeOrder[j], op_type |-> kinds[j].op_type,
                             input |-> kinds[j].input, output |-> kinds[j].output]] :
              kinds \in [1..n -> NodeKinds]} : n \in 1..2}

RangeOne == [device |-> None, base_address |-> None]
RangeTwo == [device |-> h1, base_address |-> [form |-> "KB", num |-> 8]]

Platforms ==
    [memory_maps : {None, <<[ranges |-> <<RangeOne>>]>>,
                    <<[ranges |-> <<RangeOne, RangeTwo>>]>>},
     processing_elements : {<<>>, <<[name |-> p1, sram |-> None]>>,
                            <<[name |-> p1, sram |-> 8], [name |-> p2, sram |-> None]>>}]

MCConverterInit ==
    /\ node \in Graphs
    /\ value_info \in {<<>>, <<[name |-> a, type |-> [shape |-> <<2, 3>>, dtype |-> None]]>>}
    /\ graph_input = <<>>
    /\ graph_output \in {<<>>, <<[name |-> c, type |-> [shape |-> None, dtype |-> INT64]]>>}
    /\ initializer \in {<<>>, <<[name |-> b, dims |-> <<5>>, data_type |-> FLOAT]>>}
    /\ platform \in Platforms
    /\ ConverterInit

MCConverterSpec == MCConverterInit /\ [][ConverterNext]_all_vars

=============================================================================
