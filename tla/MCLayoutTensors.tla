-------------------------- MODULE MCLayoutTensors --------------------------
(***************************************************************************)
(* Model-checking instance of LayoutTensors: up to three tensors recorded  *)
(* in any order with sizes 20 or 64 bytes (so ties and both a short and an *)
(* exact 64-byte block occur), platforms with no map, an empty map list, a *)
(* map without ranges, and one or two ranges over devices h1 and hbm0     *)
(* (named or by default) with every kind of base literal.                  *)
(***************************************************************************)
EXTENDS LayoutTensors

CONSTANTS t1, t2, t3, h1, MaxTensors, MaxRanges

MCTensorNames == {t1, t2, t3}
Sizes == {20, 64}

\* base literals: absent ("0x0"), an unaligned integer, "8KB", "1GB",
\* and a string int() rejects
BaseLiterals ==
    {None, [form |-> "int", num |-> 100], [form |-> "KB", num |-> 8],
     [form |-> "GB", num |-> 1], [form |-> "bad", num |-> 0]}

\* device None stands for a range without a "device" key
RangeRecords == [device : {None, h1, HBM0}, base_address : BaseLiterals]

RangeLists == UNION {[1..n -> RangeRecords] : n \in 1..MaxRanges}

Platforms ==
    {[memory_maps |-> None], [memory_maps |-> <<>>],
     [memory_maps |-> <<[ranges |-> None]>>]}
    \cup {[memory_maps |-> <<[ranges |-> rs]>>] : rs \in RangeLists}

\* the tensor names recorded, in insertion order (distinct keys)
Orders ==
    UNION {{f \in [1..n -> MCTensorNames] : \A i, j \in 1..n : i # j => f[i] # f[j]} :
           n \in 0..MaxTensors}

MCLayoutInit ==
    /\ tensor_order \in Orders
    /\ tensors \in {[t \in {tensor_order[i] : i \in DOMAIN tensor_order} |->
                       [shape |-> <<sz[t]>>, dtype |-> UINT8, size |-> sz[t]]] :
                    sz \in [{tensor_order[i] : i \in DOMAIN tensor_order} -> Sizes]}
    /\ platform \in Platforms
    /\ LayoutInit

MCLayoutSpec == MCLayoutInit /\ [][LayoutNext]_layout_vars

=============================================================================
