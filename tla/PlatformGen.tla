---------------------------- MODULE PlatformGen ----------------------------
(***************************************************************************)
(* gen_fabric.py: build a platform of PEs, optional L1/L2 caches, HBMs     *)
(* and one 2D fabric from the command-line arguments, and write it.        *)
(*                                                                         *)
(* main() runs three steps.  parse_args (lines 235-378) lays the options  *)
(* given on the command line over their defaults; argparse itself exits    *)
(* with status 2 on a value its type or choices reject, and the L2-without-*)
(* L1 check exits with status 1.  build_platform (lines 210-227) computes *)
(* every part at once; a ZeroDivisionError (build_cache, or the id         *)
(* generators on a fabric of 0 rows) aborts it before anything is written. *)
(* write_platform (lines 229-232) opens --out with "w", which can raise,   *)
(* and dumps into it, which can raise after the file was truncated.  The   *)
(* PeIdGen and HbmIdGen iterators are a recursive operator that follows    *)
(* their __next__.                                                         *)
(*                                                                         *)
(* Names are records of the parts they are formatted from: create_name's   *)
(* "<prefix>_<column>_<row>", "hbm<i>", "fabric0@(<column>,<row>)"; each   *)
(* format is read back unambiguously.  f"0x{n:x}" is the base-address     *)
(* literal of LayoutTensors it parses to: [form |-> "int", num |-> n] for  *)
(* n >= 0, and "bad" for the "0x-..." of a negative n.  The --out file is  *)
(* "previous" (what it held before, if anything), "partial" or            *)
(* "platform".  Arguments that are only copied                             *)
(* into the output (bandwidths, latencies, PE rates) and --out are left    *)
(* out: argparse treats them as it treats the integer options modelled.    *)
(***************************************************************************)
EXTENDS Integers, Sequences, SequencesExt

CONSTANTS
    None,
    NotAnInt,   \* an option's text that int() rejects
    GIB         \* hbm_size = 1024*1024*1024 of line 308

VARIABLES
    argv,   \* the options given on the command line: option -> value
    args,   \* the parsed arguments, None before parse_args returns
    gpc,    \* "start", "parsed", "usage", "exited", "crashed",
            \* "open_failed", "dump_failed", "written"
    out,    \* the platform written, or None
    file    \* what --out holds: "previous", "partial" or "platform"

gen_vars == <<argv, args, gpc, out, file>>

FABRIC_NAME == "fabric0"
LINE_SIZE_BYTES == 32

\* lines 31-35 (and 53-57): __next__ yields ids first..max-1 as
\* (id // num_rows, id % num_rows)
RECURSIVE IdsFrom(_, _, _)
IdsFrom(id, max_id, num_rows) ==
    IF id < max_id
    THEN <<[column |-> id \div num_rows, row |-> id % num_rows]>>
         \o IdsFrom(id + 1, max_id, num_rows)
    ELSE <<>>

\* mutant: ids laid out row-major, dividing by the column count
PeIdsRowMajor(a) ==
    IdsFrom(0, a.num_columns * a.num_rows - a.num_hbms, a.num_columns)

\* lines 16-35: PeIdGen
PeIds(a) == IdsFrom(0, a.num_columns * a.num_rows - a.num_hbms, a.num_rows)

\* lines 38-57: HbmIdGen
HbmIds(a) ==
    IdsFrom(a.num_columns * a.num_rows - a.num_hbms, a.num_columns * a.num_rows,
            a.num_rows)

\* line 61
CreateName(prefix, column, row) == [prefix |-> prefix, column |-> column, row |-> row]
HbmName(i) == [prefix |-> "hbm", index |-> i]
FabricPort(pos) == [fabric |-> FABRIC_NAME, column |-> pos.column, row |-> pos.row]
HexLiteral(n) == IF n >= 0 THEN [form |-> "int", num |-> n] ELSE [form |-> "bad", num |-> 0]

\* lines 86-95
BuildCache(name, kib, num_ways) ==
    [name |-> name, line_size_bytes |-> LINE_SIZE_BYTES, num_ways |-> num_ways,
     num_sets |-> ((kib * 1024) \div num_ways) \div LINE_SIZE_BYTES]

\* mutant: no caches unless both levels are configured
BuildCachesNeedBoth(a) ==
    IF a.l1_kib = 0 \/ a.l2_kib = 0 THEN None
    ELSE FlattenSeq([i \in DOMAIN PeIds(a) |->
            LET p == PeIds(a)[i] IN
            (IF a.l1_kib # 0
             THEN <<BuildCache(CreateName("l1", p.column, p.row), a.l1_kib, a.l1_num_ways)>>
             ELSE <<>>)
            \o (IF a.l2_kib # 0
                THEN <<BuildCache(CreateName("l2", p.column, p.row), a.l2_kib, a.l2_num_ways)>>
                ELSE <<>>)])

\* lines 98-120 (None when neither level is configured)
BuildCaches(a) ==
    IF a.l1_kib = 0 /\ a.l2_kib = 0 THEN None
    ELSE FlattenSeq([i \in DOMAIN PeIds(a) |->
            LET p == PeIds(a)[i] IN
            (IF a.l1_kib # 0
             THEN <<BuildCache(CreateName("l1", p.column, p.row), a.l1_kib, a.l1_num_ways)>>
             ELSE <<>>)
            \o (IF a.l2_kib # 0
                THEN <<BuildCache(CreateName("l2", p.column, p.row), a.l2_kib, a.l2_num_ways)>>
                ELSE <<>>)])

\* lines 123-138
BuildMemories(a) ==
    [i \in 1..a.num_hbms |->
        [name |-> HbmName(i - 1), kind |-> "hbm",
         base_address |-> HexLiteral(a.hbm_base + (i - 1) * a.hbm_size),
         capacity_bytes |-> HexLiteral(a.hbm_size)]]

\* lines 141-163: PE -> [L1 ->] [L2 ->] fabric chains, then HBM -> fabric
Entity(kind, name) == [kind |-> kind, name |-> name]
PeChain(a, p) ==
    <<Entity("pe", CreateName("pe", p.column, p.row))>>
    \o (IF a.l1_kib # 0 THEN <<Entity("cache", CreateName("l1", p.column, p.row))>> ELSE <<>>)
    \o (IF a.l2_kib # 0 THEN <<Entity("cache", CreateName("l2", p.column, p.row))>> ELSE <<>>)
    \o <<Entity("fabric", FabricPort(p))>>
\* mutant: every entity of the chain linked to the PE
LinksStar(chain) == [i \in 1..Len(chain) - 1 |-> <<chain[1], chain[i + 1]>>]
Links(chain) == [i \in 1..Len(chain) - 1 |-> <<chain[i], chain[i + 1]>>]
BuildConnections(a) ==
    FlattenSeq([i \in DOMAIN PeIds(a) |-> Links(PeChain(a, PeIds(a)[i]))])
    \o [i \in DOMAIN HbmIds(a) |->
           <<Entity("mem", HbmName(i - 1)), Entity("fabric", FabricPort(HbmIds(a)[i]))>>]

\* lines 166-175 (the other PE settings are copied from the arguments)
BuildPeConfig(a) == [sram_bytes |-> a.pe_sram_bytes]

\* mutant: the base is not advanced from one range to the next
BuildMemoryMapsSameBase(a) ==
    [mm \in 1..a.num_hbms |->
        [base_address |-> HexLiteral(a.hbm_base), size_bytes |-> HexLiteral(a.hbm_size),
         device |-> HbmName(mm - 1)]]

\* lines 178-192
BuildMemoryMaps(a) ==
    [mm \in 1..a.num_hbms |->
        [base_address |-> HexLiteral(a.hbm_base + (mm - 1) * a.hbm_size),
         size_bytes |-> HexLiteral(a.hbm_size), device |-> HbmName(mm - 1)]]

\* lines 195-207
BuildProcessingElements(a) ==
    [i \in DOMAIN PeIds(a) |->
        [name |-> CreateName("pe", PeIds(a)[i].column, PeIds(a)[i].row),
         memory_map |-> [ranges |-> BuildMemoryMaps(a)],
         config |-> BuildPeConfig(a)]]

\* lines 67-81
BuildFabrics(a) ==
    <<[name |-> FABRIC_NAME, kind |-> a.fabric_model, columns |-> a.num_columns,
       rows |-> a.num_rows, routing |-> "column-first"]>>

\* mutant: the caches left out of the platform map
BuildPlatformNoCaches(a) ==
    [memory |-> BuildMemoryMaps(a), config |-> BuildPeConfig(a),
     fabrics |-> BuildFabrics(a), processing_elements |-> BuildProcessingElements(a),
     memories |-> BuildMemories(a), connections |-> BuildConnections(a)]

\* lines 210-227
BuildPlatform(a) ==
    [memory |-> BuildMemoryMaps(a), config |-> BuildPeConfig(a),
     fabrics |-> BuildFabrics(a), processing_elements |-> BuildProcessingElements(a),
     memories |-> BuildMemories(a), caches |-> BuildCaches(a),
     connections |-> BuildConnections(a)]

\* line 87: build_cache divides by the number of ways of each configured
\* level, once per PE
CacheDivisionByZero(a) ==
    /\ PeIds(a) # <<>>
    /\ \/ a.l1_kib # 0 /\ a.l1_num_ways = 0
       \/ a.l2_kib # 0 /\ a.l2_num_ways = 0

\* lines 33 and 55: __next__ divides by num_rows each time it yields an
\* id, and PeIdGen (line 31) or HbmIdGen (line 53) yields at least one
IdDivisionByZero(a) ==
    /\ a.num_rows = 0
    /\ \/ 0 < a.num_columns * a.num_rows - a.num_hbms
       \/ a.num_columns * a.num_rows - a.num_hbms < a.num_columns * a.num_rows

\* build_platform (lines 210-227) raises ZeroDivisionError
BuildRaises(a) == CacheDivisionByZero(a) \/ IdDivisionByZero(a)

\* lines 240-371: the modelled options and their defaults; argparse passes
\* a string default through the option's type, so default="8" gives 8
Defaults ==
    [fabric_model |-> "functional", num_columns |-> 2, num_rows |-> 2,
     num_hbms |-> 2, hbm_base |-> GIB, hbm_size |-> GIB,
     pe_sram_bytes |-> 1024 * 1024, l1_kib |-> 0, l1_num_ways |-> 4,
     l2_kib |-> 0, l2_num_ways |-> 8]

\* line 284: the choices of --fabric-model
FABRIC_MODELS == {"routed", "functional"}

\* line 372: argparse rejects a value that int() cannot parse, or a
\* fabric model outside its choices
ArgparseRejects(cl) ==
    \/ \E o \in DOMAIN cl \ {"fabric_model"} : cl[o] = NotAnInt
    \/ "fabric_model" \in DOMAIN cl /\ cl.fabric_model \notin FABRIC_MODELS

\* line 372: the options given override the defaults
ParseArgs(cl) == cl @@ Defaults

\* line 374: an L2 cache without an L1
L2WithoutL1(a) == a.l2_kib # 0 /\ a.l1_kib = 0

-----------------------------------------------------------------------------
GenInit ==
    /\ args = None
    /\ gpc = "start"
    /\ out = None
    /\ file = "previous"

\* line 372: argparse prints the usage and exits with status 2
ArgparseError ==
    /\ gpc = "start"
    /\ ArgparseRejects(argv)
    /\ gpc' = "usage"
    /\ UNCHANGED <<argv, args, out, file>>

\* lines 374-376: print the message, exit with status 1
RejectL2WithoutL1 ==
    /\ gpc = "start"
    /\ ~ArgparseRejects(argv)
    /\ L2WithoutL1(ParseArgs(argv))
    /\ gpc' = "exited"
    /\ UNCHANGED <<argv, args, out, file>>

\* lines 372-378: parse_args returns the arguments
ParseArguments ==
    /\ gpc = "start"
    /\ ~ArgparseRejects(argv)
    /\ ~L2WithoutL1(ParseArgs(argv))
    /\ args' = ParseArgs(argv)
    /\ gpc' = "parsed"
    /\ UNCHANGED <<argv, out, file>>

\* line 387: build_platform raises ZeroDivisionError and write_platform is
\* never reached
BuildCrashes ==
    /\ gpc = "parsed"
    /\ BuildRaises(args)
    /\ gpc' = "crashed"
    /\ UNCHANGED <<argv, args, out, file>>

\* lines 387-388 with write_platform (229-232): build the platform, open
\* --out and dump the platform into it
WritePlatform ==
    /\ gpc = "parsed"
    /\ ~BuildRaises(args)
    /\ out' = BuildPlatform(args)
    /\ file' = "platform"
    /\ gpc' = "written"
    /\ UNCHANGED <<argv, args>>

\* line 231: open(file_name, "w") raises; nothing is written
OpenFails ==
    /\ gpc = "parsed"
    /\ ~BuildRaises(args)
    /\ gpc' = "open_failed"
    /\ UNCHANGED <<argv, args, out, file>>

\* mutant: a raise of yaml.dump is swallowed and main returns normally
DumpFailsSwallowed ==
    /\ gpc = "parsed"
    /\ ~BuildRaises(args)
    /\ out' = BuildPlatform(args)
    /\ file' = "partial"
    /\ gpc' = "written"
    /\ UNCHANGED <<argv, args>>

\* line 232: yaml.dump raises after open truncated the file, which is
\* left holding part of the platform
DumpFails ==
    /\ gpc = "parsed"
    /\ ~BuildRaises(args)
    /\ file' = "partial"
    /\ gpc' = "dump_failed"
    /\ UNCHANGED <<argv, args, out>>

Exited == {"usage", "exited", "crashed", "open_failed", "dump_failed", "written"}

\* the exit status: argparse's 2 (line 372), sys.exit(1) (line 376), 1 for
\* an uncaught exception, 0 when main returns (line 392)
ExitCode == CASE gpc = "usage" -> 2 [] gpc = "written" -> 0 [] OTHER -> 1

\* the program has exited
GenTerminated ==
    /\ gpc \in Exited
    /\ UNCHANGED gen_vars

GenNext ==
    \/ ArgparseError \/ RejectL2WithoutL1 \/ ParseArguments
    \/ BuildCrashes \/ WritePlatform \/ OpenFails \/ DumpFails
    \/ GenTerminated

-----------------------------------------------------------------------------
(* Properties *)

\* gen_fabric.py exits with status 0 exactly when --out holds the whole
\* platform: write_platform (lines 229-232) has no try, so a dump that
\* raises after open truncated the file must reach the process's status.
PlatformFileMatchesExit ==
    gpc \in Exited => ((ExitCode = 0) <=> (file = "platform"))

GenTypeOK ==
    /\ gpc \in {"start", "parsed"} \cup Exited
    /\ file \in {"previous", "partial", "platform"}
    /\ (gpc = "written") <=> (out # None)
    /\ (args = None) <=> (gpc \in {"start", "usage", "exited"})
    /\ gpc = "written" =>
          DOMAIN out = {"memory", "config", "fabrics", "processing_elements",
                        "memories", "caches", "connections"}

\* the fabric ports the connections attach something to
FabricLinks == SelectSeq(out.connections, LAMBDA l : l[2].kind = "fabric")

\* PeIdGen and HbmIdGen (lines 16-57) attach the PEs and the HBMs to the
\* fabric so that every position of the columns x rows grid gets exactly
\* one of them: the ports are inside the grid, no two links share one,
\* and there are as many links as positions.
AttachPointsPartitionGrid ==
    gpc = "written" =>
        /\ Len(FabricLinks) = args.num_columns * args.num_rows
        /\ \A i \in DOMAIN FabricLinks :
              /\ FabricLinks[i][2].name.column \in 0..args.num_columns - 1
              /\ FabricLinks[i][2].name.row \in 0..args.num_rows - 1
        /\ \A i, j \in DOMAIN FabricLinks :
              i # j => FabricLinks[i][2].name # FabricLinks[j][2].name

Defines(kind, name) ==
    CASE kind = "pe" -> \E i \in DOMAIN out.processing_elements :
                           out.processing_elements[i].name = name
      [] kind = "cache" -> out.caches # None /\ \E i \in DOMAIN out.caches :
                                                  out.caches[i].name = name
      [] kind = "mem" -> \E i \in DOMAIN out.memories : out.memories[i].name = name
      [] kind = "fabric" -> TRUE

Connected(kind, name) ==
    \E i \in DOMAIN out.connections, e \in 1..2 :
        out.connections[i][e] = Entity(kind, name)

\* build_connections (lines 141-163) names only entities that build_caches,
\* build_processing_elements and build_memories define, and connects every
\* PE, cache and memory they define.
ConnectionsMatchEntities ==
    gpc = "written" =>
        /\ \A i \in DOMAIN out.connections, e \in 1..2 :
              Defines(out.connections[i][e].kind, out.connections[i][e].name)
        /\ \A i \in DOMAIN out.processing_elements :
              Connected("pe", out.processing_elements[i].name)
        /\ \A i \in DOMAIN out.memories : Connected("mem", out.memories[i].name)
        /\ out.caches # None =>
              \A i \in DOMAIN out.caches : Connected("cache", out.caches[i].name)

\* the entities the connections link e to
LinkedFrom(e) ==
    {out.connections[i][2] : i \in {j \in DOMAIN out.connections : out.connections[j][1] = e}}

\* the entities reached from e by following links, n links at most
RECURSIVE PathFrom(_, _)
PathFrom(e, n) ==
    IF n = 0 \/ LinkedFrom(e) = {} THEN <<e>>
    ELSE <<e>> \o PathFrom(CHOOSE y \in LinkedFrom(e) : TRUE, n - 1)

\* build_connections (lines 143-156) links each PE in a single unbranched
\* line through its own L1 and then its own L2 cache, each only when its
\* --l<n>-kib is non-zero, to the fabric port at the PE's own position.
CacheHierarchy ==
    gpc = "written" =>
        \A i \in DOMAIN out.processing_elements :
            LET n == out.processing_elements[i].name
                cache(prefix) == Entity("cache", CreateName(prefix, n.column, n.row))
                path == PathFrom(Entity("pe", n), 3)
            IN  /\ \A j \in 1..Len(path) - 1 : Cardinality(LinkedFrom(path[j])) = 1
                /\ path = <<Entity("pe", n)>>
                          \o (IF args.l1_kib # 0 THEN <<cache("l1")>> ELSE <<>>)
                          \o (IF args.l2_kib # 0 THEN <<cache("l2")>> ELSE <<>>)
                          \o <<Entity("fabric", [fabric |-> FABRIC_NAME,
                                                 column |-> n.column, row |-> n.row])>>

\* build_memory_maps (lines 178-192) and build_memories (lines 123-138)
\* advance their bases separately; they must agree on every HBM's base and
\* size, and the address ranges of different HBMs must not overlap.
MemoriesMatchRanges ==
    gpc = "written" =>
        /\ Len(out.memory) = Len(out.memories)
        /\ \A i \in DOMAIN out.memory :
              /\ out.memory[i].device = out.memories[i].name
              /\ out.memory[i].base_address = out.memories[i].base_address
              /\ out.memory[i].size_bytes = out.memories[i].capacity_bytes
        /\ \A i, j \in DOMAIN out.memory :
              i < j => out.memory[i].base_address.num + out.memory[i].size_bytes.num
                         <= out.memory[j].base_address.num

\* dict.get on the YAML mapping
Get(r, key) == IF key \in DOMAIN r THEN r[key] ELSE None

\* onnx-to-gwr-timetable-yaml.py lines 186-194: the ranges the converter
\* reads from a platform, or None where it raises
ConverterRanges(p) ==
    LET mm == Get(p, "memory_maps") IN
    IF mm \in {None, <<>>} THEN None
    ELSE LET r == Get(mm[1], "ranges") IN IF r = <<>> THEN None ELSE r

\* Spec sections 1 and 6: the generator produces the PlatformConfig the
\* converter consumes, whose device ranges are memory_maps[0].ranges.  A
\* platform written with at least one HBM gives _layout_tensors ranges
\* whose base literals it parses (lines 200-212).
GeneratedPlatformReadable ==
    (gpc = "written" /\ args.num_hbms > 0) =>
        LET r == ConverterRanges(out) IN
        /\ r # None
        /\ \A i \in DOMAIN r : LET l == Get(r[i], "base_address")
                                IN l = None \/ l.form = "int"

\* the --l1-kib or --l2-kib a cache was built from
CacheKib(c) == IF c.name.prefix = "l1" THEN args.l1_kib ELSE args.l2_kib

\* parse_args documents --l1-kib and --l2-kib as the cache capacity in
\* KiB; build_cache (line 87) turns it into num_sets sets of num_ways
\* lines of 32 bytes.  Every cache written has at least one set and holds
\* exactly the capacity asked for.
CachesHoldConfiguredCapacity ==
    (gpc = "written" /\ out.caches # None) =>
        \A i \in DOMAIN out.caches :
            /\ out.caches[i].num_sets >= 1
            /\ out.caches[i].num_sets * out.caches[i].num_ways * LINE_SIZE_BYTES
                   = CacheKib(out.caches[i]) * 1024

=============================================================================
