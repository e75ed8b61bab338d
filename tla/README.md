# TLA+ models of the gwr ONNX-to-timetable converter

This directory holds TLA+ models of the two Python scripts of the
repository, checked with TLC:

- `src/gwr-timetable/scripts/onnx-to-gwr-timetable-yaml.py` (the
  *converter*): it lowers an ONNX graph onto a gwr platform and writes a
  timetable of load, compute and store operations with data edges;
- `src/gwr-platform/scripts/gen_fabric.py` (the *platform generator*): it
  writes a platform YAML with processing elements (PEs), caches, HBM memories
  and a 2D fabric.

Line numbers below refer to the converter unless the generator is named.

## 1. Inventory

### Components

| Component | Code | State it keeps | Operations |
|---|---|---|---|
| Tensor metadata resolver | `_collect_tensors` 113-174, `_shape_from_type_proto` 84-100, `_dtype_from_type_proto` 103-110, size helpers 60-81 | the ordered dict `tensors` (name -> shape, dtype, size), built in three passes | declare from value_info/inputs/outputs (126-146), add initializers (149-157), add placeholders for names only the nodes mention (161-172) |
| Device memory allocator | `_layout_tensors` 177-244 | per-device cursor `device_addresses`, the device order, the round-robin device index, the result `tensor_addresses` | reject missing maps/ranges (186-194), parse each range's base (200-217), sort tensors by size (225), place each tensor on the next device and advance that device's cursor by the 64-byte-aligned size (231-242) |
| Timetable builder | `onnx_to_gwr_timetable` 413-528 with `_get_pe_sram_bytes`, `_split_memory_op`, `_calculate_num_ops`, `_map_onnx_op_to_gwr_op`, `_dtype_to_string` | PE round-robin cursor, the node and edge lists, the current node's load ids | reject an empty PE list (415) and unnamed nodes (427), assign a PE, emit load chunks per input, the compute record and its in-edges, store chunks per output and their edges |
| Converter pipeline | `onnx_to_gwr_timetable` 405-411 | none of its own | collect, then lay out, then lower |
| CLI driver and I/O | `main` 531-582 | the phase it is in, the exit status | load ONNX and YAML, convert, dump YAML; a caught exception gives one message and exit status 1, a failing output write a traceback and status 1 |
| Platform generator | `gen_fabric.py` | the parsed arguments, the `PeIdGen`/`HbmIdGen` counters; the emitted platform map | parse the options over their defaults (argparse exits 2 on a bad value, the L2-without-L1 check exits 1), enumerate PE and HBM fabric positions, build caches, memories, memory map ranges, PEs and connections, open and dump the output file |

### Interaction

Everything is one sequential, single-threaded pass: `main` calls
`onnx_to_gwr_timetable`, which calls `_collect_tensors`, hands its dict to
`_layout_tensors`, and then lowers the nodes using both results and the
platform's `processing_elements`. The components share state only by
passing these dicts along; the only mutable state that survives across
loop iterations is the device cursors (allocator) and the PE cursor
(builder). The platform generator is a separate program whose output file is
meant to be the converter's platform input.

### What is hard here

There is no concurrency, no I/O failure handling beyond "abort", and no
timing. What makes the code hard to test is the data-dependent control:

- boundary arithmetic: ceiling division into chunks, the last short chunk,
  an SRAM of 0, 64-byte rounding relative to an unaligned base;
- state carried across loop iterations: the PE cursor, the per-node load
  id list, the per-device cursors;
- order: the three resolver passes overwrite each other while the dict keeps
  first-insertion order, which then decides the stable-sort tie-break of the
  allocator;
- identity: ids are formatted from ONNX node names, which nothing checks;
- the contract between the two scripts: the key under which the generator
  writes memory ranges, and the generator's unchecked geometry.

The full list, each at its line, is the `hazards` list of `PROJECT.json`.

### Properties that make each component correct

- Resolver: every referenced non-empty name gets exactly one record with
  size >= 1; the precedence declared -> initializer -> placeholder; the
  insertion order is first-appearance order.
- Allocator: tensors on one device never overlap; the offset from the
  device base is a multiple of 64; devices receive tensors in turn; tensors
  on different devices do not overlap (the code does not guarantee this);
  a base literal `int()` rejects aborts the layout whichever range holds it.
- Builder: ids are unique; the chunks of a transfer tile the tensor; edges
  are exactly load -> compute -> store of the same ONNX node; every node is
  lowered completely; PE i receives ceil((G - i) / K) nodes.
- Pipeline: every lookup the builder makes succeeds.
- Generator: PE and HBM positions are distinct fabric positions inside the
  grid; each PE is wired in one line through its own L1, then its own L2,
  to its own fabric port; the emitted platform is one the converter accepts;
  the exit status is 0 exactly when `--out` holds the whole platform.

## 2. Module structure

| Module | Models | Checked by |
|---|---|---|
| `OnnxMeta` | the dtype tables and size helpers (41-81, 247-299), shared by all | through the others |
| `CollectTensors` | `_collect_tensors` (113-174) | `MCCollectTensors` |
| `LayoutTensors` | `_layout_tensors` (177-244) | `MCLayoutTensors` |
| `Placement` | the allocator contract of spec section 4.2, in closed form | refined by `LayoutTensors` |
| `Timetable` | the lowering loop of `onnx_to_gwr_timetable` (413-528) | `MCTimetable` |
| `Lowering` | the builder contract of spec section 4.3, in closed form | refined by `Timetable` |
| `Converter` | `onnx_to_gwr_timetable` (391-528): the three phases composed | `MCConverter` |
| `ConverterMain` | `main` (531-582) around `Converter`, with failing loads and writes | `MCConverterMain` |
| `PlatformGen` | `gen_fabric.py`'s `main`, `parse_args`, builders and `write_platform`, and the converter's reading of a platform (186-194) | `MCPlatformGen` |

Each component module keeps its inputs as variables no step changes, so
that `Converter` can instantiate `CollectTensors`, `LayoutTensors` and
`Timetable` over shared state with `INSTANCE ... WITH` (the builder's
`graph` is `graph.node`, its `pes` the platform's `processing_elements`).
Each MC module chooses the inputs in its initial predicate.

Every component ends in a `...Terminated` step (returned or raised) that
stutters, so deadlock checking stays on: a state with no step would be a
state the code cannot leave. The runs assume no fairness: their
properties are invariants and refinements of safety specifications
(`Placement`, `Lowering`). No liveness property is stated: `main` is
straight-line code whose loops run over finite inputs and which never
retries, so that it exits would hold of any model of this shape and says
nothing about the code.

## 3. Modules

### `OnnxMeta`

Operators for `_DTYPE_SIZES` (41-57), `_get_tensor_num_elements` (60-70),
`_get_tensor_size_bytes` (73-81), `_dtype_to_string` (247-264) and
`_map_onnx_op_to_gwr_op` (267-299). A dimension is an integer or the model
value `None`; a dtype is its `TensorProto` integer code (`STRING_` stands for
`TensorProto.STRING`, whose name is a TLA+ keyword).

### `CollectTensors`

The ordered dict is two variables: `tensor_order` (keys in insertion order)
and `tensors` (key -> `[shape, dtype, size]`); `Put` is `tensors[name] = rec`
(replace the record, keep the position). One action per loop iteration:

| Action | Code |
|---|---|
| `DeclareTensor` | 126-146: read shape/dtype of the declared type, initializer fallback, FLOAT / `[1]` defaults |
| `AddInitializer` | 149-157: the initializer's dims and data type, unconditionally |
| `SkipNodeTensor`, `AddPlaceholder` | 160-171: an empty or known name is skipped, an unknown one gets `[1]`/FLOAT |
| `CollectTerminated` | the function has returned (174) |

A declared type is `None` (no `tensor_type`) or `[shape, dtype]` with
`None` for a missing field; `_shape_from_type_proto` maps a symbolic
dimension to `None`. A `TensorProto` initializer always has `dims` and
`data_type`, so the `hasattr` fallbacks only take the attribute.

### `LayoutTensors` and `Placement`

| Action | Code |
|---|---|
| `NoMemoryMaps`, `NoMemoryRanges`, `StartRanges` | 186-194 |
| `ParseRange`, `BadBaseAddress` | 200-217: device default `hbm0`, base literal parsed (or `ValueError`), first range of a device wins |
| `SortTensors` | 220-227: stable sort by size, largest first (a rank-count operator) |
| `PlaceTensor` | 229-242: next device round-robin, address = its cursor, cursor += size rounded up to 64 |
| `LayoutDone`, `LayoutTerminated` | 244 |

A base literal is `None` (absent, `"0x0"`), `[form: "int", num]` (a YAML
integer, or a string `int(s, 0)` accepts), `[form: "KB"|"MB"|"GB", num]`, or
`[form: "bad"]` for a string `int()` rejects (for example `"0x10KB"`).

`Placement` states what spec 4.2 promises without cursors: the allocation
order is the arrangement of the tensors in which sizes never increase and
equal sizes keep their recorded order; slot i goes to device
`((i-1) mod D) + 1` of the first-appearance device list; its address is
that device's first-range base plus the rounded sizes of the earlier slots
on the same device (a recursive sum). `LayoutTensors` maps onto it with
`sizes <- [t |-> tensors[t].size]`, `range_list <-` the parsed ranges and
`placed <- tensor_addresses`.

### `Timetable`

| Action | Code |
|---|---|
| `NoProcessingElements`, `StartNodes` | 413-418 |
| `UnnamedNode` | 427-428 |
| `AssignPe` | 429-439 (round-robin PE, its SRAM, fresh `load_node_ids`) |
| `SkipInput`, `EmitLoad`, `LoadFails` | 440-457 with `_split_memory_op` (ZeroDivisionError for SRAM 0) |
| `EmitCompute` | 459-496 with `_calculate_num_ops` |
| `SkipOutput`, `EmitStore`, `StoreFails` | 498-523 |
| `NextNode`, `Finish` | the loop head 426, the return 525-528 |

`pc = "failed"` with `error` stands for a raise, which `main` turns into
exit status 1 without output. Ids are records of the parts they are
formatted from (`node`, `kind`, `index`, `chunk`): the code's strings end in
`_compute` or in `_<kind>_<digits>` optionally followed by `_chunk_<digits>`,
so reading a string from the right recovers its parts and two formatted ids
are equal exactly when the records are. The `KeyError`/`ValueError` raises
on a tensor the resolver did not record (311-318, 447, 506) are not
actions: `Converter` checks that they cannot happen.

`Lowering` states spec 4.3 without cursors or loops: operation j runs on
PE `((j-1) mod K) + 1` and contributes its load chunks, its compute record and
its store chunks, in that order, with edges from each load chunk to the compute
and from the compute to each store chunk. A transfer of S bytes on a
PE of capacity C has the least n chunks with n*C >= S (a CHOOSE, independent
of the code's ceiling division). The run fails with `no_pes`, or with the
failure of the first operation that is unnamed or that has a transfer on
a PE of capacity 0. `Timetable` maps onto it with `outcome <-` the returned
nodes and edges, or the raise, once `pc` is `done` or `failed`.

### `Converter`

`Collect`, `Layout` and `Lower` take the steps of the three instances, each
once the previous phase has returned (`CollectFinished`, `lpc = "done"`);
an allocator raise ends the run before the builder's PE check, as in the
code (lines 408-416).

### `ConverterMain`

| Action | Code |
|---|---|
| `LoadOnnx`, `LoadOnnxFails` | 547-552 |
| `LoadPlatform`, `LoadPlatformFails` | 554-560 |
| `Convert`, `ConvertDone`, `ConvertFails` | 562-567 (a step of `Converter`; any raise of it) |
| `WriteOutput`, `OpenFails`, `WriteFails` | 569-578: open `-o` with `"w"` or print; either can raise outside any `try` |
| `MainTerminated` | 581-582 |

Loading a file either succeeds, and its content is the converter input
chosen at the start, or raises. Which of the two happens is a
nondeterministic choice. `sink` records whether nothing, part or all of
the text went out; `stderr` records whether a message or a traceback was
printed.

### `PlatformGen`

`argv` is the command line: the options given, as a function from option
to value (`NotAnInt` for a text `int()` rejects). `main` takes two steps.
`parse_args` is `ArgparseError` (exit 2: a non-integer, or a fabric model
outside `FABRIC_MODELS`), `RejectL2WithoutL1` (374-376, exit 1) or
`ParseArguments`, which sets `args` to `ParseArgs(argv) == argv @@ Defaults`
(the defaults of lines 240-371, each passed through `int`). Then
`file` is what `--out` holds: `"previous"`, `"partial"` or `"platform"`;
`ExitCode` is the status each final `gpc` gives (2, 1, or 0 from line 392).
`BuildCrashes` (a `ZeroDivisionError`: `build_cache` with zero ways, when
there is a PE to build a cache for, or `__next__` on 0 rows, when a
generator yields an id), `OpenFails` (line 231), `DumpFails` (line 232,
after the file was truncated: `file' = "partial"`), or `WritePlatform` with `BuildPlatform`
(210-227) composed of one operator per builder. The constant `GIB` stands
for `1024*1024*1024` (line 308). `PeIdGen` and
`HbmIdGen` are the recursive `IdsFrom`, which follows `__next__`
(`id // rows`, `id % rows`, Python's floor semantics, which TLA+'s `\div`
and `%` share). Names are records of their parts; `f"0x{n:x}"` (`HexLiteral`) is the
integer literal it parses back to when `n >= 0`, and for a negative `n`
the `0x-...` text that `int(..., 0)` rejects. `ConverterRanges` is the converter's
reading of a platform (186-194), so a generated platform can be fed to it.

## 4. Runs

| Run | What it checks |
|---|---|
| `timetable` (pass) | `MCTimetable.cfg`: graphs of 0-3 nodes, each unnamed or with its own name, of four input/output patterns; two tensors of 8, 16 or 20 bytes; PE lists of 0, 1 or 2 PEs with SRAM unset (1 MiB), 8 or (single PE) 0. `TypeOK`, `UniqueIds`, `ChunksTileTensor`, `EdgesFollowDataflow`, `LoweringComplete`, `RoundRobinShare`, `ChunksFitAssignedPe` (every chunk fits the SRAM of the entry the cursor assigned), and `LoweringRefinement` (= `Lowering`'s spec: the exact timetable or failure). |
| `timetable_duplicate_pe_names` (violation) | `MCTimetableDupPe.cfg`: two PE entries named `p1`; `ChunksFitAssignedPe` fails: with SRAMs 16 and 8, the second entry's transfers are cut into 16-byte chunks. |
| `timetable_duplicate_names` (violation) | `MCTimetableDup.cfg`: node names drawn freely; `UniqueIds` fails: two nodes named `n1` both emit `n1_load_0`. |
| `collect` (pass) | `MCCollectTensors.cfg`: at most one entry in each of value_info, inputs, outputs (four type shapes), one initializer (scalar or 3 elements, FLOAT or INT8), one node with empty slots and undeclared names. `CollectTypeOK` (keys unique, sizes consistent), `ResolverTotal`, `InsertionOrder`, `RecordsAsResolved`. |
| `collect_declared_precedence` (violation) | `MCCollectTensorsPrecedence.cfg`: `DeclaredShapeKept` fails: output `a` declared `[N]` INT64 (8 bytes) and initializer `a` with dims `[]` FLOAT end as `[]`, FLOAT, 4 bytes. |
| `layout` (pass) | `MCLayoutTensors.cfg`: up to three tensors of 20 or 64 bytes in any order; no map, an empty map list, a map without ranges, or one or two ranges over `h1` and `hbm0` (named or by default) with five kinds of base literal. `LayoutTypeOK` (the device list has no duplicates), `SuccessiveGapsOnDevice`, `BadLiteralAbortsLayout` (the layout fails with `bad_base_address` exactly when some range of the first map, an already-seen device's included, has a literal `int()` rejects), and `Refinement` (= `Placement`'s spec). |
| `converter` (pass) | `MCConverter.cfg`: graphs of one or two nodes of three kinds over tensors a-d, optional declarations and initializer, platforms with no map, one or two devices, and 0-2 PEs (one with an 8-byte SRAM). `LookupsTotal`, `DisjointTransfers`. |
| `cli` (pass) | `MCConverterMain.cfg`: the `converter` inputs, output to stdout or a file, every load/open/write outcome. `MainTypeOK` and `ExitStatusReportsOutcome` (status 0 exactly when the timetable was returned and fully written, stderr empty exactly then). |
| `platform` (pass) | `MCPlatformGen.cfg`: every command line that leaves each option at its default or gives: 1 or 3 columns or a non-number, 0, 1 or 3 rows, 0 up to columns x rows HBMs, HBM base 0 (`HbmBases`), `--l1-kib 1` with 4 (default) or 0 ways (the `L1Ways` constant), `--l2-kib 2`, fabric model `routed` or an unknown one; with `GIB = 4096`. `GenTypeOK`, `AttachPointsPartitionGrid`, `ConnectionsMatchEntities`, `MemoriesMatchRanges`, `CacheHierarchy` (each PE reaches its own fabric port through exactly its own configured caches, L1 first, without branching), `PlatformFileMatchesExit` (exit status 0 exactly when `--out` holds the whole platform, so a dump that raises after truncating the file is reported). |
| `platform_too_many_hbms` (violation) | `MCPlatformGenHbms.cfg`: HBM counts from -1 to one more than the positions; `AttachPointsPartitionGrid` fails: `--num-hbms -1` on the default 2x2 fabric gives a fifth PE at `(2,0)` (and 2 HBMs on a 1x1 fabric attach `hbm0` at `(-1,0)`). |
| `platform_converter_contract` (violation) | `MCPlatformGenConverter.cfg`: `GeneratedPlatformReadable` (the converter finds ranges whose base literals it parses) fails for every written platform with an HBM, through the `memory_maps` key. |
| `platform_cache_geometry` (violation) | `MCPlatformGenCaches.cfg`: L1 ways 4 (default), 3 or 64; `CachesHoldConfiguredCapacity` fails: 1 KiB with 3 ways gives 10 sets (960 bytes), and with 64 ways it gives 0 sets. |

Why the bounds are enough:

- builder: sizes 8, 16, 20 against an SRAM of 8 give the exact-fit single
  chunk, two full chunks, and three chunks with a short last one; three
  nodes on two PEs give an uneven share and make the cursor wrap, and
  the two-PE lists include both orders of a default and an 8-byte SRAM,
  so a lookup of the wrong entry changes chunk sizes;
- resolver: one name can be declared up to three times and also be an
  initializer and a node input, which exercises every overwrite; a node
  slot can be empty, known or unknown;
- allocator: three tensors of two sizes give ties in every position of the
  recorded order, 20 bytes is rounded and 64 is not; two ranges give a
  repeated device (first wins), two devices (round-robin wraps with three
  tensors), and an unaligned base (100);
- generator: grids up to 3x3 include non-square ones (where a row/column
  mix-up shows), the default 2x2, and 0 rows; HBM counts go from none to
  all positions; every option can be left at its default.

The default 1 GiB HBM size of the generator and multi-GB bases would
overflow TLC's 32-bit integers (the second HBM's base is 2^31), so `GIB` is
4096 in the model; smaller sizes exercise the same arithmetic.

## 5. Findings

- Duplicate ONNX node names give duplicate timetable ids
  (`timetable_duplicate_names`). The spec says ids are unique within the
  output; the code relies on the ONNX exporter for that.
- The initializer pass overwrites declared metadata
  (`collect_declared_precedence`), against the declared-first precedence of
  spec 4.1. The initializer fallback inside the declared loop (132-135) is
  dead as a consequence (`RecordsAsResolved` states the actual rule).
- `gen_fabric.py` writes the ranges under `memory` as a flat list; the
  converter reads `memory_maps[0].ranges` (`platform_converter_contract`).
- `gen_fabric.py` does not check the HBM count against the fabric size or
  against 0 (`platform_too_many_hbms`).
- PE SRAM is looked up by name (`_get_pe_sram_bytes`, line 329), while
  the round-robin picks PE entries by position. Two entries with the same
  name therefore share the SRAM of the first one that declares it, and a
  smaller entry gets chunks larger than its SRAM
  (`timetable_duplicate_pe_names`).
- `build_cache` truncates `kib*1024 // ways // 32` without a check, so
  the cache written holds less than `--l1-kib` asks for, or has 0 sets
  (`platform_cache_geometry`).

## 6. Not modelled

- What the loaders parse and what `yaml.safe_dump` produces: a load is a
  success or a raise, its content is the converter's input; the converter's argparse usage
  errors (exit status 2) are not modelled.
- The formatting of ids, names and hex strings (kept as their parts, see
  above), the arguments the generator only copies into its output, and
  the name of `--out`. A negative `--hbm-base` or `--hbm-size` is not
  enumerated: `HexLiteral` gives its `0x-...` literal, which the
  converter rejects, but the converter contract already fails on the
  `memory_maps` key for every generated platform, so no run can show the
  literal failing on its own.
- The content of a partial platform file: `file = "partial"` stands for
  every prefix `yaml.dump` may have written.
- Parsing of `sram_bytes` strings (line 336): every accepted literal is
  modelled by the integer it denotes. A negative one (which `int()`
  accepts) makes the chunk count negative and silently drops the transfer;
  `LoweringComplete` is violated then, but no run enumerates it, since no
  negative capacity is meaningful.
- An output write that fails part-way leaves a truncated file and a
  traceback (the model's `WriteFails`, `sink = "partial"`), where spec
  section 7 promises no partial output and a single descriptive message.
  `ExitStatusReportsOutcome` checks the part that the exit status reports
  (status 1); the file content is not a property of any run.
- Cross-device collisions and range capacities: the converter never reads
  `size_bytes`, and spec sections 1 and 9 list this as a non-goal.
