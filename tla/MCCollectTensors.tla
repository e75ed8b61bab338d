------------------------- MODULE MCCollectTensors -------------------------
(***************************************************************************)
(* Model-checking instance of CollectTensors.  Tensor names a, b, c.  At   *)
(* most one entry in each of value_info, graph inputs and graph outputs,   *)
(* so one name can be declared twice or three times; at most one          *)
(* initializer; at most one node, whose slots may be empty and may name a *)
(* tensor nothing declares.                                                *)
(*                                                                         *)
(* Declared types: none, a dtype without a shape, a shape without a dtype, *)
(* a symbolic dimension with a dtype.  Initializers: a scalar or a         *)
(* 3-element tensor, FLOAT or INT8, so an initializer can differ from a    *)
(* declaration of its name in shape, dtype and size.                       *)
(***************************************************************************)
EXTENDS CollectTensors

CONSTANTS a, b, c

TypeProtos ==
    {None,
     [shape |-> None, dtype |-> INT64],
     [shape |-> <<2>>, dtype |-> None],
     [shape |-> <<None>>, dtype |-> INT64]}

DeclaredLists == {<<>>} \cup {<<[name |-> n, type |-> t]>> : n \in {a, b}, t \in TypeProtos}

InitializerLists ==
    {<<>>} \cup {<<[name |-> n, dims |-> d, data_type |-> dt]>> :
                    n \in {a, b}, d \in {<<>>, <<3>>}, dt \in {FLOAT, INT8}}

NodeLists ==
    {<<>>} \cup {<<[input |-> i, output |-> o]>> :
                    i \in {<<>>, <<a, Empty>>, <<c>>}, o \in {<<>>, <<b>>, <<c>>}}

MCCollectInit ==
    /\ value_info \in DeclaredLists
    /\ graph_input \in DeclaredLists
    /\ graph_output \in DeclaredLists
    /\ initializer \in InitializerLists
    /\ node \in NodeLists
    /\ CollectInit

MCCollectSpec == MCCollectInit /\ [][CollectNext]_collect_vars

=============================================================================
