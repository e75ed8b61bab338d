-------------------------- MODULE MCConverterMain --------------------------
(***************************************************************************)
(* Model-checking instance of ConverterMain: the graphs and platforms of   *)
(* MCConverter, output to stdout or to a file, and every outcome of the    *)
(* loads and of the output write.                                          *)
(***************************************************************************)
EXTENDS ConverterMain, MCConverter

MCMainInit == MCConverterInit /\ MainInit

MCMainSpec == MCMainInit /\ [][MainNext]_cli_vars

=============================================================================
