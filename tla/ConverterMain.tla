--------------------------- MODULE ConverterMain ---------------------------
(***************************************************************************)
(* main() of onnx-to-gwr-timetable-yaml.py (lines 531-582) around the      *)
(* conversion of Converter: load the ONNX model, load the platform YAML,   *)
(* convert, dump the timetable to the -o file or to stdout, exit.          *)
(*                                                                         *)
(* The files' contents are the Converter's inputs, chosen at the start;    *)
(* loading one either succeeds or raises (a missing file, a parse error),  *)
(* a nondeterministic choice.  The three try/except blocks turn a raise    *)
(* into one message on stderr and exit status 1.  Writing the output is    *)
(* outside any try: opening the -o file can raise before anything is       *)
(* written, and the write (f.write or print) can raise after part of the   *)
(* text went out (a full disk, a closed pipe); either ends the process     *)
(* with a traceback and status 1.  yaml.safe_dump of the plain timetable  *)
(* does not raise.                                                         *)
(***************************************************************************)
EXTENDS Converter

VARIABLES
    output_arg, \* args.output: None (stdout) or "file"
    mpc,        \* "load_onnx", "load_platform", "convert", "output", "exited"
    exit_code,  \* the process exit status, None while running
    sink,       \* what reached the output: "none", "partial" or "full"
    stderr      \* "none", "message" (a caught error) or "traceback"

main_vars == <<output_arg, mpc, exit_code, sink, stderr>>
cli_vars == <<main_vars, all_vars>>

\* a step of main that does not touch the conversion
MainStep(from, to) ==
    /\ mpc = from
    /\ mpc' = to
    /\ UNCHANGED all_vars

\* lines 550-552, 558-560, 565-567: print the error, return 1
Abort(from) ==
    /\ MainStep(from, "exited")
    /\ exit_code' = 1
    /\ stderr' = "message"
    /\ UNCHANGED <<output_arg, sink>>

MainInit ==
    /\ output_arg \in {None, "file"}
    /\ mpc = "load_onnx"
    /\ exit_code = None
    /\ sink = "none"
    /\ stderr = "none"

\* lines 548-549: onnx.load
LoadOnnx ==
    /\ MainStep("load_onnx", "load_platform")
    /\ UNCHANGED <<output_arg, exit_code, sink, stderr>>

LoadOnnxFails == Abort("load_onnx")

\* lines 555-557: yaml.safe_load of the platform file
LoadPlatform ==
    /\ MainStep("load_platform", "convert")
    /\ UNCHANGED <<output_arg, exit_code, sink, stderr>>

LoadPlatformFails == Abort("load_platform")

\* line 564: one step of onnx_to_gwr_timetable
Convert ==
    /\ mpc = "convert"
    /\ UNCHANGED main_vars
    /\ Collect \/ Layout \/ Lower

\* mutant: success is reported as soon as the conversion returns
ConvertDoneEarlyStatus ==
    /\ pc = "done"
    /\ MainStep("convert", "output")
    /\ exit_code' = 0
    /\ UNCHANGED <<output_arg, sink, stderr>>

\* the conversion returned the timetable
ConvertDone ==
    /\ pc = "done"
    /\ MainStep("convert", "output")
    /\ UNCHANGED <<output_arg, exit_code, sink, stderr>>

\* mutant: a failed conversion returns status 0
ConvertFailsExitZero ==
    /\ lpc = "failed" \/ pc = "failed"
    /\ MainStep("convert", "exited")
    /\ exit_code' = 0
    /\ stderr' = "message"
    /\ UNCHANGED <<output_arg, sink>>

\* lines 565-567: any exception of the conversion (the allocator's or the
\* lowering loop's)
ConvertFails ==
    /\ lpc = "failed" \/ pc = "failed"
    /\ Abort("convert")

\* lines 570-578: dump, write to the file or print, return 0
WriteOutput ==
    /\ MainStep("output", "exited")
    /\ sink' = "full"
    /\ exit_code' = 0
    /\ UNCHANGED <<output_arg, stderr>>

\* line 573: open(args.output, "w") raises; nothing is written
OpenFails ==
    /\ output_arg = "file"
    /\ MainStep("output", "exited")
    /\ exit_code' = 1
    /\ stderr' = "traceback"
    /\ UNCHANGED <<output_arg, sink>>

\* lines 574 / 576: the write raises after part of the text is out (the
\* file was truncated by open(..., "w") and holds the part)
WriteFails ==
    /\ MainStep("output", "exited")
    /\ sink' = "partial"
    /\ exit_code' = 1
    /\ stderr' = "traceback"
    /\ UNCHANGED output_arg

\* sys.exit(main()) (line 582): the process is gone
MainTerminated ==
    /\ mpc = "exited"
    /\ UNCHANGED cli_vars

MainProgress ==
    \/ LoadOnnx \/ LoadOnnxFails \/ LoadPlatform \/ LoadPlatformFails
    \/ Convert \/ ConvertDone \/ ConvertFails
    \/ WriteOutput \/ OpenFails \/ WriteFails

MainNext == MainProgress \/ MainTerminated

-----------------------------------------------------------------------------
(* Properties *)

\* main's control state agrees with its exit status: the status is set
\* exactly when main has returned or raised.
MainTypeOK ==
    /\ mpc \in {"load_onnx", "load_platform", "convert", "output", "exited"}
    /\ (mpc = "exited") <=> (exit_code \in {0, 1})
    /\ sink \in {"none", "partial", "full"}
    /\ stderr \in {"none", "message", "traceback"}

\* Spec section 6 (CLI): exit status 0 exactly when the conversion returned
\* a timetable and the whole text was written, and then nothing is printed
\* to stderr; every non-zero exit leaves a message or a traceback.  The
\* three except clauses (lines 550, 558, 565) must each return 1, and the
\* allocator's raises must reach the one around the conversion.
ExitStatusReportsOutcome ==
    mpc = "exited" =>
        /\ (exit_code = 0) <=> (pc = "done" /\ sink = "full")
        /\ (exit_code = 0) <=> (stderr = "none")

=============================================================================
