--------------------------- MODULE LayoutTensors ---------------------------
(***************************************************************************)
(* _layout_tensors (onnx-to-gwr-timetable-yaml.py lines 177-244): place    *)
(* every tensor the resolver recorded on a device of the platform's first  *)
(* memory map.  One step checks the map, one step parses each range, one   *)
(* step sorts, one step places each tensor.                                *)
(*                                                                         *)
(* tensor_order and tensors (the resolver's ordered dict) and platform are *)
(* inputs that no step changes.  A base address literal is None (absent)  *)
(* or a record [form, num]: form "int" for an integer from YAML or a       *)
(* string int(s, 0) accepts (num is its value), "KB"/"MB"/"GB" for a       *)
(* decimal with that suffix, "bad" for a string int() rejects (such as     *)
(* "0x10KB" or "8KiB").                                                    *)
(***************************************************************************)
EXTENDS OnnxMeta

CONSTANTS
    HBM0,     \* the device name "hbm0" used when a range names none
    Align     \* the cursor rounding of line 241 (64)

VARIABLES
    tensor_order,           \* keys of the tensors dict, in insertion order
    tensors,                \* tensor name -> [shape, dtype, size]
    platform,               \* [memory_maps]: None or << [ranges] >>
    lpc,                    \* "check", "ranges", "place", "done", "failed"
    layout_error,           \* which raise ended the layout, or None
    ri,                     \* 1 + index of the range being parsed
    device_addresses,       \* device -> its cursor
    device_list,            \* devices in first-appearance order
    sorted_tensors,         \* tensor names, largest first
    ti,                     \* 1 + index of the tensor being placed
    current_device_index,   \* round-robin cursor over device_list (0-based)
    tensor_addresses        \* tensor name -> address

layout_inputs == <<tensor_order, tensors, platform>>
layout_vars == <<tensor_order, tensors, platform, lpc, layout_error, ri,
                 device_addresses, device_list, sorted_tensors, ti,
                 current_device_index, tensor_addresses>>

\* lines 186-194: platform_config.get("memory_maps"), memory_maps[0].get("ranges")
Ranges == platform.memory_maps[1].ranges

\* lines 201-214: the device a range names, and its parsed base address
RangeDevice(r) == IF r.device = None THEN HBM0 ELSE r.device
ParseBaseAddress(lit) ==
    CASE lit = None          -> 0            \* default "0x0"
      [] lit.form = "GB"     -> lit.num * 1024 * 1024 * 1024
      [] lit.form = "MB"     -> lit.num * 1024 * 1024
      [] lit.form = "KB"     -> lit.num * 1024
      [] OTHER               -> lit.num      \* int, or int(s.replace("_", ""), 0)

\* mutant: rounding down instead of up
AlignedSizeFloor(size_bytes) == (size_bytes \div Align) * Align

\* line 241
AlignedSize(size_bytes) == ((size_bytes + Align - 1) \div Align) * Align

\* mutant: equal sizes in reverse recorded order (an unstable sort)
SortBySizeUnstable(order) ==
    LET rank(i) == Cardinality({j \in DOMAIN order :
                      \/ tensors[order[j]].size > tensors[order[i]].size
                      \/ tensors[order[j]].size = tensors[order[i]].size /\ j > i})
    IN  [p \in DOMAIN order |-> order[CHOOSE i \in DOMAIN order : rank(i) = p - 1]]

\* lines 225-227: sorted(..., key=size, reverse=True) is stable, so a
\* tensor's place is the number of larger tensors plus the number of equal
\* ones recorded before it
SortBySize(order) ==
    LET rank(i) == Cardinality({j \in DOMAIN order :
                      \/ tensors[order[j]].size > tensors[order[i]].size
                      \/ tensors[order[j]].size = tensors[order[i]].size /\ j < i})
    IN  [p \in DOMAIN order |-> order[CHOOSE i \in DOMAIN order : rank(i) = p - 1]]

-----------------------------------------------------------------------------
LayoutInit ==
    /\ lpc = "check"
    /\ layout_error = None
    /\ ri = 1
    /\ device_addresses = [d \in {} |-> 0]
    /\ device_list = <<>>
    /\ sorted_tensors = <<>>
    /\ ti = 1
    /\ current_device_index = 0
    /\ tensor_addresses = [t \in {} |-> 0]

LayoutFail(why) ==
    /\ lpc' = "failed"
    /\ layout_error' = why
    /\ UNCHANGED <<layout_inputs, ri, device_addresses, device_list,
                   sorted_tensors, ti, current_device_index, tensor_addresses>>

\* lines 186-188: no (or an empty) memory_maps entry
NoMemoryMaps ==
    /\ lpc = "check"
    /\ platform.memory_maps \in {None, <<>>}
    /\ LayoutFail("no_memory_maps")

\* lines 192-194: the first memory map has no (or empty) ranges
NoMemoryRanges ==
    /\ lpc = "check"
    /\ platform.memory_maps \notin {None, <<>>}
    /\ Ranges \in {None, <<>>}
    /\ LayoutFail("no_memory_ranges")

StartRanges ==
    /\ lpc = "check"
    /\ platform.memory_maps \notin {None, <<>>}
    /\ Ranges \notin {None, <<>>}
    /\ lpc' = "ranges"
    /\ UNCHANGED <<layout_inputs, layout_error, ri, device_addresses, device_list,
                   sorted_tensors, ti, current_device_index, tensor_addresses>>

Parses(lit) == IF lit = None THEN TRUE ELSE lit.form # "bad"

\* mutant: every range appends its device to the device list
ParseRangeAppendAlways ==
    LET r == Ranges[ri]
        d == RangeDevice(r)
    IN
    /\ lpc = "ranges"
    /\ ri <= Len(Ranges)
    /\ Parses(r.base_address)
    /\ device_addresses' = IF d \in DOMAIN device_addresses THEN device_addresses
                           ELSE device_addresses @@ (d :> ParseBaseAddress(r.base_address))
    /\ device_list' = Append(device_list, d)
    /\ ri' = ri + 1
    /\ UNCHANGED <<layout_inputs, lpc, layout_error, sorted_tensors, ti,
                   current_device_index, tensor_addresses>>

\* mutant: a later range of a device overwrites its base
ParseRangeLastWins ==
    LET r == Ranges[ri]
        d == RangeDevice(r)
    IN
    /\ lpc = "ranges"
    /\ ri <= Len(Ranges)
    /\ Parses(r.base_address)
    /\ device_addresses' = [x \in DOMAIN device_addresses \cup {d} |->
                              IF x = d THEN ParseBaseAddress(r.base_address)
                              ELSE device_addresses[x]]
    /\ device_list' = IF d \in DOMAIN device_addresses THEN device_list
                      ELSE Append(device_list, d)
    /\ ri' = ri + 1
    /\ UNCHANGED <<layout_inputs, lpc, layout_error, sorted_tensors, ti,
                   current_device_index, tensor_addresses>>

\* mutant: a range of an already-seen device is skipped before its literal
\* is parsed
ParseRangeSkipRepeated ==
    LET r == Ranges[ri]
        d == RangeDevice(r)
    IN
    /\ lpc = "ranges"
    /\ ri <= Len(Ranges)
    /\ Parses(r.base_address) \/ d \in DOMAIN device_addresses
    /\ IF d \in DOMAIN device_addresses
       THEN UNCHANGED <<device_addresses, device_list>>
       ELSE /\ device_addresses' = device_addresses @@ (d :> ParseBaseAddress(r.base_address))
            /\ device_list' = Append(device_list, d)
    /\ ri' = ri + 1
    /\ UNCHANGED <<layout_inputs, lpc, layout_error, sorted_tensors, ti,
                   current_device_index, tensor_addresses>>

\* lines 200-217: a range's device keeps the base of its first range; the
\* base of every range is parsed, a repeated device's included
ParseRange ==
    LET r == Ranges[ri]
        d == RangeDevice(r)
    IN
    /\ lpc = "ranges"
    /\ ri <= Len(Ranges)
    /\ Parses(r.base_address)
    /\ IF d \in DOMAIN device_addresses
       THEN UNCHANGED <<device_addresses, device_list>>
       ELSE /\ device_addresses' = device_addresses @@ (d :> ParseBaseAddress(r.base_address))
            /\ device_list' = Append(device_list, d)
    /\ ri' = ri + 1
    /\ UNCHANGED <<layout_inputs, lpc, layout_error, sorted_tensors, ti,
                   current_device_index, tensor_addresses>>

\* lines 205-212: int() raises ValueError on the literal
BadBaseAddress ==
    /\ lpc = "ranges"
    /\ ri <= Len(Ranges)
    /\ ~Parses(Ranges[ri].base_address)
    /\ LayoutFail("bad_base_address")

\* lines 220-227 (device_list is never empty here: every range names a
\* device, so the raise of line 222 cannot fire)
SortTensors ==
    /\ lpc = "ranges"
    /\ ri > Len(Ranges)
    /\ sorted_tensors' = SortBySize(tensor_order)
    /\ lpc' = "place"
    /\ UNCHANGED <<layout_inputs, layout_error, ri, device_addresses, device_list,
                   ti, current_device_index, tensor_addresses>>

\* lines 231-242: next device round-robin, tensor at its cursor, cursor
\* advanced by the aligned size
PlaceTensor ==
    LET t == sorted_tensors[ti]
        device == device_list[current_device_index + 1]
    IN
    /\ lpc = "place"
    /\ ti <= Len(sorted_tensors)
    /\ current_device_index' = (current_device_index + 1) % Len(device_list)
    /\ tensor_addresses' = tensor_addresses @@ (t :> device_addresses[device])
    /\ device_addresses' = [device_addresses EXCEPT
                               ![device] = @ + AlignedSize(tensors[t].size)]
    /\ ti' = ti + 1
    /\ UNCHANGED <<layout_inputs, lpc, layout_error, ri, device_list, sorted_tensors>>

\* line 244
LayoutDone ==
    /\ lpc = "place"
    /\ ti > Len(sorted_tensors)
    /\ lpc' = "done"
    /\ UNCHANGED <<layout_inputs, layout_error, ri, device_addresses, device_list,
                   sorted_tensors, ti, current_device_index, tensor_addresses>>

\* the function has returned or raised
LayoutTerminated ==
    /\ lpc \in {"done", "failed"}
    /\ UNCHANGED layout_vars

LayoutNext ==
    \/ NoMemoryMaps \/ NoMemoryRanges \/ StartRanges
    \/ ParseRange \/ BadBaseAddress \/ SortTensors \/ PlaceTensor \/ LayoutDone
    \/ LayoutTerminated

-----------------------------------------------------------------------------
(* Properties *)

TensorNames == {tensor_order[i] : i \in DOMAIN tensor_order}

\* the device the round-robin gives the tensor at place i of sorted_tensors
SlotDevice(i) == device_list[((i - 1) % Len(device_list)) + 1]
Placed == {i \in DOMAIN sorted_tensors : sorted_tensors[i] \in DOMAIN tensor_addresses}

LayoutTypeOK ==
    /\ lpc \in {"check", "ranges", "place", "done", "failed"}
    /\ layout_error \in {None, "no_memory_maps", "no_memory_ranges", "bad_base_address"}
    /\ (lpc = "failed") <=> (layout_error # None)
    /\ device_list \in Seq(DOMAIN device_addresses)
    /\ \A i, j \in DOMAIN device_list : i # j => device_list[i] # device_list[j]
    /\ device_addresses \in [DOMAIN device_addresses -> Int]
    /\ sorted_tensors \in Seq(TensorNames)
    /\ current_device_index \in 0..(IF device_list = <<>> THEN 0 ELSE Len(device_list) - 1)
    /\ DOMAIN tensor_addresses \subseteq TensorNames
    /\ tensor_addresses \in [DOMAIN tensor_addresses -> Int]

\* Spec 8 on the allocation loop (lines 229-242): on every device, the
\* address of a tensor lies a multiple of 64 bytes and at least the
\* previous tensor's true size after the address of the tensor that device
\* received before it, so tensors of one device never overlap.
SuccessiveGapsOnDevice ==
    \A i, j \in Placed :
        LET gap == tensor_addresses[sorted_tensors[j]]
                   - tensor_addresses[sorted_tensors[i]]
        IN  (j = i + Len(device_list)) =>
                /\ gap % Align = 0
                /\ gap >= tensors[sorted_tensors[i]].size

\* Lines 200-212 parse the base literal of every range before they look at
\* its device, so the layout raises ValueError exactly when some range of
\* the first memory map (one of an already-seen device included) has a
\* literal int() rejects.
BadLiteralAbortsLayout ==
    lpc \in {"done", "failed"} =>
        ((layout_error = "bad_base_address") <=>
            /\ platform.memory_maps \notin {None, <<>>}
            /\ Ranges \notin {None, <<>>}
            /\ \E i \in DOMAIN Ranges : ~Parses(Ranges[i].base_address))

\* The allocator as section 4.2 of the spec states it, with the inputs
\* read as the code reads them: sizes from the records, ranges with the
\* device default applied and the base literals parsed.
ParsedRanges ==
    IF platform.memory_maps \in {None, <<>>} \/ Ranges \in {None, <<>>} THEN <<>>
    ELSE [i \in DOMAIN Ranges |->
            [device |-> RangeDevice(Ranges[i]),
             base |-> IF Parses(Ranges[i].base_address)
                      THEN ParseBaseAddress(Ranges[i].base_address) ELSE 0]]

Abs == INSTANCE Placement WITH
    tensor_order <- tensor_order,
    sizes <- [t \in DOMAIN tensors |-> tensors[t].size],
    range_list <- ParsedRanges,
    placed <- tensor_addresses,
    Align <- Align

\* _layout_tensors (lines 197-242) places tensors one at a time exactly as
\* the reference placement does: largest first with ties in recorded
\* order, devices in turn in the order their ranges first appear, each at
\* its device's first-range base plus the rounded sizes placed there.
Refinement == Abs!Spec

=============================================================================
