--------------------------- MODULE MCPlatformGen ---------------------------
(***************************************************************************)
(* Model-checking instance of PlatformGen: every command line that leaves  *)
(* each option at its default or gives one of a few values: fabrics of     *)
(* 1-3 columns and 0-3 rows, up to MaxExtraHbms HBMs fewer than none or    *)
(* more than the fabric has positions, L1 of 1 KiB with the L1Ways ways,   *)
(* L2 of 2 KiB, the HBM bases HbmBases, a fabric model outside the        *)
(* choices and a column count that is not a number.  GIB stands for       *)
(* 1024*1024*1024:                                                         *)
(* the default base plus one HBM of that size would overflow TLC's         *)
(* integers, and any size shows the same base arithmetic.                  *)
(***************************************************************************)
EXTENDS PlatformGen

CONSTANTS
    MaxExtraHbms,   \* HBMs allowed beyond the number of fabric positions
    L1Ways,         \* the --l1-num-ways values tried
    HbmBases        \* the --hbm-base values tried

\* the value of each option on a command line, None where it is not given
OptionValues ==
    [fabric_model : {None, "routed", "mesh"},
     num_columns : {None, 1, 3, NotAnInt}, num_rows : {None, 0, 1, 3},
     num_hbms : {None} \cup -MaxExtraHbms..(9 + MaxExtraHbms),
     hbm_base : {None} \cup HbmBases, l1_kib : {None, 1}, l1_num_ways : {None} \cup L1Ways,
     l2_kib : {None, 2}]

Given(c) == [o \in {o \in DOMAIN c : c[o] # None} |-> c[o]]

\* a command line whose HBM count is within MaxExtraHbms of the positions
\* of its fabric (a fabric of 0 rows fails before the count matters)
InBounds(cl) ==
    \/ ArgparseRejects(cl)
    \/ LET a == ParseArgs(cl) IN
          \/ a.num_rows = 0
          \/ -MaxExtraHbms <= a.num_hbms /\ a.num_hbms <= a.num_columns * a.num_rows + MaxExtraHbms

CommandLines == {cl \in {Given(c) : c \in OptionValues} : InBounds(cl)}

MCGenInit ==
    /\ argv \in CommandLines
    /\ GenInit

MCGenSpec == MCGenInit /\ [][GenNext]_gen_vars

=============================================================================
