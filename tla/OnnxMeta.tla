------------------------------ MODULE OnnxMeta ------------------------------
(***************************************************************************)
(* Static tables and pure helpers of                                       *)
(* src/gwr-timetable/scripts/onnx-to-gwr-timetable-yaml.py that the        *)
(* resolver, the allocator and the timetable builder share: element        *)
(* counts, byte sizes, dtype names and the op-category table.              *)
(*                                                                         *)
(* A shape is a sequence of dimensions; a dimension is an integer or None  *)
(* (a symbolic dim_param or an absent dim_value).  A dtype is the integer  *)
(* code of onnx.TensorProto.DataType.                                      *)
(***************************************************************************)
EXTENDS Integers, Sequences, FiniteSets, TLC

CONSTANT None   \* Python None: an unknown dimension, dtype or shape

\* onnx.TensorProto.DataType codes used by the tables below.
FLOAT == 1
UINT8 == 2
INT8 == 3
UINT16 == 4
INT16 == 5
INT32 == 6
INT64 == 7
STRING_ == 8   \* TensorProto.STRING (STRING is a TLA+ keyword)
BOOL == 9
FLOAT16 == 10
DOUBLE == 11
UINT32 == 12
UINT64 == 13
COMPLEX64 == 14
COMPLEX128 == 15
BFLOAT16 == 16

\* _DTYPE_SIZES: bytes per element; STRING and codes outside the table
\* fall back to 4 in _get_tensor_size_bytes.
DTYPE_SIZES ==
    (FLOAT :> 4) @@ (UINT8 :> 1) @@ (INT8 :> 1) @@ (UINT16 :> 2)
    @@ (INT16 :> 2) @@ (INT32 :> 4) @@ (INT64 :> 8) @@ (BOOL :> 1)
    @@ (FLOAT16 :> 2) @@ (DOUBLE :> 8) @@ (UINT32 :> 4) @@ (UINT64 :> 8)
    @@ (COMPLEX64 :> 8) @@ (COMPLEX128 :> 16) @@ (BFLOAT16 :> 2)

ElemSizeBytes(dtype) ==
    IF dtype \in DOMAIN DTYPE_SIZES THEN DTYPE_SIZES[dtype] ELSE 4

\* _get_tensor_num_elements: an unknown or non-positive dimension counts 1.
DimCount(dim) == IF dim = None THEN 1 ELSE IF dim <= 0 THEN 1 ELSE dim

RECURSIVE NumElements(_)
NumElements(shape) ==
    IF shape = <<>> THEN 1 ELSE DimCount(Head(shape)) * NumElements(Tail(shape))

\* _get_tensor_size_bytes
SizeBytes(shape, dtype) == NumElements(shape) * ElemSizeBytes(dtype)

\* _dtype_to_string: names of the codes the simulator knows, else "fp32".
DTYPE_NAMES ==
    (FLOAT :> "fp32") @@ (FLOAT16 :> "fp16") @@ (BFLOAT16 :> "bf16")
    @@ (DOUBLE :> "fp64") @@ (INT8 :> "int8") @@ (INT16 :> "int16")
    @@ (INT32 :> "int32") @@ (INT64 :> "int64") @@ (UINT8 :> "uint8")
    @@ (UINT16 :> "uint16") @@ (UINT32 :> "uint32") @@ (UINT64 :> "uint64")
    @@ (BOOL :> "bool")

DtypeToString(dtype) ==
    IF dtype \in DOMAIN DTYPE_NAMES THEN DTYPE_NAMES[dtype] ELSE "fp32"

\* _map_onnx_op_to_gwr_op: the kinds the table maps to "mul"; the table's
\* other entries (Add, Sub, Mul, Div) and every unlisted kind give "add".
MUL_OPS == {"MatMul", "Conv", "Relu", "Sigmoid", "Tanh", "BatchNormalization",
            "MaxPool", "AveragePool", "Flatten", "Reshape", "Transpose",
            "Concat", "Softmax", "Gemm", "Cast", "Constant", "Gather",
            "GroupQueryAttention", "MatMulNBits", "QMoE", "ReduceSum",
            "Shape", "SimplifiedLayerNormalization",
            "SkipSimplifiedLayerNormalization"}

MapOnnxOpToGwrOp(op_type) == IF op_type \in MUL_OPS THEN "mul" ELSE "add"

=============================================================================
