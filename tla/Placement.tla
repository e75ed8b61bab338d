----------------------------- MODULE Placement -----------------------------
(***************************************************************************)
(* What the device memory allocator promises (spec section 4.2), stated    *)
(* without cursors: tensors are taken largest first, equal sizes in the    *)
(* order the resolver recorded them; the i-th of them goes to the i-th     *)
(* device of the round-robin, devices taken in the order their ranges     *)
(* first appear; its address is the device's base plus the 64-byte-       *)
(* rounded sizes of the tensors that device received before it.           *)
(*                                                                         *)
(* placed grows one tensor at a time, in that order.  The inputs are       *)
(* variables that no step changes.                                         *)
(***************************************************************************)
EXTENDS Integers, Sequences, FiniteSets, TLC

CONSTANT Align   \* rounding granularity of a device cursor (64 bytes)

VARIABLES
    tensor_order, \* tensor names in the resolver's insertion order
    sizes,        \* tensor name -> size in bytes
    range_list,   \* << [device, base] >>: the ranges with parsed bases
    placed        \* tensor name -> address, for the tensors placed so far

vars == <<tensor_order, sizes, range_list, placed>>

RoundUp(n) == ((n + Align - 1) \div Align) * Align

\* the devices in order of first appearance, each with the base of the
\* first range that names it
FirstRange(i) == \A j \in 1..i - 1 : range_list[j].device # range_list[i].device
Devices ==
    LET firsts == {i \in DOMAIN range_list : FirstRange(i)}
        rank(i) == Cardinality({j \in firsts : j < i})
    IN  [r \in 1..Cardinality(firsts) |->
            range_list[CHOOSE i \in firsts : rank(i) = r - 1].device]
BaseOf(d) == range_list[CHOOSE i \in DOMAIN range_list :
                            range_list[i].device = d /\ FirstRange(i)].base

\* the tensors in allocation order: the arrangement of tensor_order in
\* which sizes never increase and equal sizes keep their recorded order
Position(t) == CHOOSE i \in DOMAIN tensor_order : tensor_order[i] = t
Before(s, t) ==
    \/ sizes[s] > sizes[t]
    \/ sizes[s] = sizes[t] /\ Position(s) < Position(t)
AllocationOrder ==
    CHOOSE s \in [1..Len(tensor_order) -> {tensor_order[i] : i \in DOMAIN tensor_order}] :
        \A i, j \in DOMAIN s : i < j => Before(s[i], s[j])

DeviceOfSlot(i) == Devices[((i - 1) % Len(Devices)) + 1]

RECURSIVE BytesBefore(_, _)
\* bytes the device of slot i received from slots 1..j
BytesBefore(i, j) ==
    IF j = 0 THEN 0
    ELSE BytesBefore(i, j - 1)
         + (IF DeviceOfSlot(j) = DeviceOfSlot(i)
            THEN RoundUp(sizes[AllocationOrder[j]]) ELSE 0)

AddressOfSlot(i) == BaseOf(DeviceOfSlot(i)) + BytesBefore(i, i - 1)

Init == placed = [t \in {} |-> 0]

PlaceNext ==
    LET i == Cardinality(DOMAIN placed) + 1 IN
    /\ range_list # <<>>          \* with no device nothing is placed
    /\ i <= Len(tensor_order)
    /\ placed' = placed @@ (AllocationOrder[i] :> AddressOfSlot(i))
    /\ UNCHANGED <<tensor_order, sizes, range_list>>

Spec == Init /\ [][PlaceNext]_vars

=============================================================================
