-------------------------------- MODULE Driver --------------------------------
(***************************************************************************)
(* The compiler's driver, from the command line to the exit code (main.rs, *)
(* driver/pipeline.rs, backend/linker.rs).                                 *)
(*                                                                         *)
(* Stages 1 to 3, which decide what is compiled and in which order, are    *)
(* the module ModuleGraph; Load is what they hand over.  From there on the *)
(* driver reads every file again, runs the front end over each, lowers all *)
(* of them and writes what was asked for, each step behind a gate that     *)
(* reads the error count of the diagnostic sink.                           *)
(*                                                                         *)
(* What a pass reports is chosen freely: the driver must be right whatever *)
(* its passes find.  LLVM, clang and the file system are external and may  *)
(* fail at every call.                                                     *)
(***************************************************************************)
EXTENDS DiagSink, TestAnnotations

CONSTANTS
  MaxArgs,       \* bound: arguments on the command line
  MaxFiles,      \* bound: modules that are compiled
  MaxReports,    \* bound: diagnostics the passes report in all
  MaxAnnots,     \* bound: annotations in a file
  Limits         \* the values of --error-limit that are tried

ASSUME DriverAssumption ==
  /\ {MaxArgs, MaxFiles, MaxReports, MaxAnnots} \subseteq Nat
  /\ Limits \subseteq Nat

Passes == <<"lex", "parse", "resolve", "escape", "typecheck">>

Places == {1, 2}

(* The stages of --emit that a run tells apart: nothing is implemented for *)
(* tokens, ast, resolved and typed, and `ir` goes to standard output.      *)
EmitStages == {"typed", "ir", "llvm-ir", "obj"}

Files == {"stage", "out", "tempObj", "runtimeObj"}

VARIABLES
  opts,      \* Options
  argc,      \* arguments parsed so far
  pc,        \* where compile() stands
  order,     \* the sorted modules that are left to read again
  sources,   \* the files that were read and are left to compile
  files,     \* number of files the registry has seen (file_id_map)
  sink,      \* the shared DiagSink
  own,       \* verify mode: the DiagSink of the file at hand
  pass,      \* the pass of the front end that runs
  before,    \* errors in the sink when this file's front end began
  outs,      \* frontend_outputs
  lowered,   \* how many of them are in merged_hir
  annots,    \* verify mode: the annotations of the file at hand
  verdict,   \* verify mode: what the annotations say of the file
  stage,     \* index of the --emit stage that is produced next
  disk,      \* what the compiler has written: path -> contents
  said,      \* error lines written past the sink
  shown,     \* the diagnostics that were rendered
  exit,      \* the exit code, "none" while the compiler runs
  reports,   \* history: how many errors and warnings the shared sink was given
  failed     \* history: per file the pass that reported its first error

vars == <<opts, argc, pc, order, sources, files, sink, own, pass, before, outs,
          lowered, annots, verdict, stage, disk, said, shown, exit, reports, failed>>

modules == <<order, sources, files>>
frontEnd == <<own, pass, before, outs, annots, verdict>>
backEnd == <<lowered, stage, disk>>
history == <<reports, failed>>

Init ==
  /\ opts = [inputs |-> 0, emit |-> <<>>, output |-> FALSE, verify |-> FALSE,
             limit |-> ErrorLimitFromArg(2)]
  /\ argc = 0
  /\ pc = "args"
  /\ order = <<>>
  /\ sources = <<>>
  /\ files = 0
  /\ sink = WithErrorLimit(NoLimit)
  /\ own = WithErrorLimit(NoLimit)
  /\ pass = 0
  /\ before = 0
  /\ outs = <<>>
  /\ lowered = 0
  /\ annots = <<>>
  /\ verdict = "none"
  /\ stage = 1
  /\ disk = [f \in Files |-> "nothing"]
  /\ said = FALSE
  /\ shown = <<>>
  /\ exit = "none"
  /\ reports = [error |-> 0, warning |-> 0]
  /\ failed = <<>>

-----------------------------------------------------------------------------
(* The end of the compiler: one exit code, and the diagnostics with it.    *)

Stop(code) == exit' = code /\ pc' = "stopped"

ExitCodeOf(s) == IF HasErrors(s) THEN "CompileError" ELSE "Ok"

(* finish: everything the sink holds is rendered, and any error decides.   *)
Finish(s) ==
  /\ sink' = s
  /\ shown' = Finished(s)
  /\ Stop(ExitCodeOf(s))

GoOn(s, next) == sink' = s /\ pc' = next /\ UNCHANGED <<shown, exit>>

GateLeaks(s, next) == IF s.errs > before THEN Finish(s) ELSE GoOn(s, next)

(* A gate: with errors the compiler finishes, otherwise it goes on.        *)
Gate(s, next) == IF HasErrors(s) THEN Finish(s) ELSE GoOn(s, next)

(* finish_backend_error: a failure that is not in the sink is printed, and *)
(* nothing is rendered.                                                    *)
BackendError == said' = TRUE /\ Stop("CompileError") /\ UNCHANGED <<sink, shown>>

Received(sev) == reports' = [reports EXCEPT ![sev] = @ + 1]

-----------------------------------------------------------------------------
(* parse_args: the arguments from left to right; the first that decides    *)
(* ends the parse.                                                         *)

Usage == Stop("UsageError") /\ said' = TRUE

ParseArg ==
  /\ pc = "args" /\ argc < MaxArgs
  /\ argc' = argc + 1
  /\ \/ /\ \/ opts' = [opts EXCEPT !.inputs = @ + 1]
           \/ \E s \in EmitStages : opts' = [opts EXCEPT !.emit = Append(@, s)]
           \/ opts' = [opts EXCEPT !.output = TRUE]
           \/ opts' = [opts EXCEPT !.verify = TRUE]
           \/ \E n \in Limits : opts' = [opts EXCEPT !.limit = ErrorLimitFromArg(n)]
        /\ UNCHANGED <<pc, exit, said>>
     \/ \* -h or --help, and --explain of a registered code
        Stop("Ok") /\ UNCHANGED <<opts, said>>
     \/ \* an unknown option, a bad value or an -o without its path
        Usage /\ UNCHANGED opts
  /\ UNCHANGED <<sink, shown, modules, frontEnd, backEnd, history>>

(* What parse_args rejects after the last argument.                        *)
Incomplete == opts.inputs = 0 \/ (Len(opts.emit) > 1 /\ ~opts.output)

ParseArgsEnd ==
  /\ pc = "args"
  /\ IF argc = 0 THEN Stop("Ok") /\ UNCHANGED <<said, sink>>
     ELSE IF Incomplete THEN Usage /\ UNCHANGED sink
     ELSE pc' = "load" /\ sink' = WithErrorLimit(opts.limit) /\ UNCHANGED <<said, exit>>
  /\ UNCHANGED <<opts, argc, shown, modules, frontEnd, backEnd, history>>

-----------------------------------------------------------------------------
(* Stages 1 to 3, as ModuleGraph shows them: every input is registered     *)
(* once, imports follow, and a cycle always ends the compiler.  In verify  *)
(* mode errors of stage 1 do not.                                          *)

Orders(n) == {s \in [1..n -> 0..(n - 1)] : \A i, j \in 1..n : s[i] = s[j] => i = j}

GateUnlessVerifying(s, next) == IF opts.verify THEN GoOn(s, next) ELSE Gate(s, next)

Load ==
  /\ pc = "load"
  /\ \E n \in 1..MaxFiles : \E s \in Orders(n) :
       /\ files' = n
       /\ order' = s
       /\ failed' = [f \in 0..(n - 1) |-> 0]
  /\ \/ GoOn(sink, "read") /\ UNCHANGED reports
     \/ GateUnlessVerifying(Emit(sink, Diag("error", "lex", 0, 1)), "read") /\ Received("error")
     \/ Finish(Emit(sink, Diag("error", "cycle", Nowhere, Nowhere))) /\ Received("error")
  /\ UNCHANGED <<opts, argc, said, sources, frontEnd, backEnd>>

(* Stage 4 reads every module again; a file may have gone since.           *)
ReadAgain ==
  /\ pc = "read" /\ order # <<>>
  /\ order' = Tail(order)
  /\ \/ sources' = Append(sources, Head(order)) /\ UNCHANGED <<sink, reports>>
     \/ /\ sink' = Emit(sink, Diag("error", "read", Head(order), 0))
        /\ Received("error")
        /\ UNCHANGED sources
  /\ UNCHANGED <<opts, argc, pc, files, said, shown, exit, frontEnd, backEnd, failed>>

ReadAll ==
  /\ pc = "read" /\ order = <<>>
  /\ GateUnlessVerifying(sink, "file")
  /\ UNCHANGED <<opts, argc, said, modules, frontEnd, backEnd, history>>

-----------------------------------------------------------------------------
(* run_frontend and run_frontend_with_registry: the passes over one file,  *)
(* into the shared sink or, in verify mode, into one of its own.           *)

Current == IF opts.verify THEN own ELSE sink

Into(s) == IF opts.verify THEN own' = s /\ UNCHANGED sink ELSE sink' = s /\ UNCHANGED own

ErrorsBeforeZero == 0

ErrorsBefore == IF opts.verify THEN 0 ELSE sink.errs

StartFile ==
  /\ pc = "file" /\ sources # <<>>
  /\ pc' = "front"
  /\ pass' = 1
  /\ before' = ErrorsBefore
  /\ own' = WithErrorLimit(opts.limit)
  /\ UNCHANGED <<opts, argc, said, sink, shown, exit, modules, outs, annots, verdict, backEnd,
                 history>>

Report ==
  /\ pc = "front"
  /\ reports.error + reports.warning < MaxReports
  /\ \E lo \in Places :
       Into(Emit(Current, Diag("error", Passes[pass], Head(sources), lo)))
  /\ failed' = [failed EXCEPT ![Head(sources)] = IF @ = 0 THEN pass ELSE @]
  /\ Received("error")
  /\ UNCHANGED <<opts, argc, pc, said, shown, exit, modules, pass, before, outs, annots, verdict,
                 backEnd>>

(* What a front end that stopped after a pass hands over.                  *)
Output(p) ==
  [file |-> Head(sources), stage |-> p, module |-> p >= 2, symbols |-> p >= 3, types |-> p = 5]

(* The gate between passes asks for errors of this file only.              *)
StopsHere == Current.errs > before

EndPass ==
  /\ pc = "front"
  /\ IF StopsHere \/ pass = Len(Passes)
       THEN /\ outs' = IF opts.verify THEN outs ELSE Append(outs, Output(pass))
            /\ pc' = IF opts.verify THEN "verify" ELSE "file"
            /\ sources' = IF opts.verify THEN sources ELSE Tail(sources)
            /\ UNCHANGED pass
       ELSE pass' = pass + 1 /\ UNCHANGED <<outs, pc, sources>>
  /\ UNCHANGED <<opts, argc, order, files, said, sink, shown, exit, own, before, annots, verdict,
                 backEnd, history>>

-----------------------------------------------------------------------------
(* --verify-test-annotations                                               *)

Annotations ==
  {Malformed} \cup [line : {1, 2}, sev : {"error"}, code : {"lex", "typecheck"}]

Verify ==
  /\ pc = "verify"
  /\ \E n \in 0..MaxAnnots : \E a \in [1..n -> Annotations] :
       annots' = a /\ verdict' = VerifyTestAnnotations(a, Finished(own))
  /\ pc' = "verdict"
  /\ UNCHANGED <<opts, argc, said, sink, shown, exit, modules, own, pass, before, outs, backEnd,
                 history>>

(* Every outcome names opts.inputs[file_id], and file ids count imported   *)
(* files too.                                                              *)
IndexOutOfBounds == Head(sources) >= opts.inputs

ReactForever ==
  /\ pc = "verdict" /\ verdict = "Pass"
  /\ pc' = "file"
  /\ UNCHANGED <<opts, argc, said, sink, shown, exit, modules, frontEnd, backEnd, history>>

React ==
  /\ pc = "verdict"
  /\ sink' = EmitAll(sink, Finished(own))
  /\ sources' = Tail(sources)
  /\ IF IndexOutOfBounds THEN Stop("panic") /\ UNCHANGED said
     ELSE IF verdict = "Pass" THEN pc' = "file" /\ UNCHANGED <<exit, said>>
     ELSE Stop(IF verdict = "Malformed" THEN "UsageError" ELSE "CompileError") /\ said' = TRUE
  /\ UNCHANGED <<opts, argc, order, files, shown, frontEnd, backEnd, history>>

(* All annotations held: the diagnostics are shown and decide nothing.     *)
Verified ==
  /\ pc = "file" /\ sources = <<>> /\ opts.verify
  /\ shown' = Finished(sink)
  /\ Stop("Ok")
  /\ UNCHANGED <<opts, argc, said, sink, modules, frontEnd, backEnd, history>>

-----------------------------------------------------------------------------
(* Lowering                                                                *)

FrontEndDone ==
  /\ pc = "file" /\ sources = <<>> /\ ~opts.verify
  /\ Gate(sink, "lower")
  /\ UNCHANGED <<opts, argc, said, modules, frontEnd, backEnd, history>>

Complete(out) == out.module /\ out.symbols /\ out.types

(* lower_module reports errors, and as a warning that `!` has no error     *)
(* union to propagate (W3001).                                             *)
LowerCode(sev) == IF sev = "error" THEN "lower" ELSE "propagate"

LowerReport ==
  /\ pc = "lower" /\ lowered < Len(outs)
  /\ reports.error + reports.warning < MaxReports
  /\ opts.emit # <<>> \/ opts.output
  /\ Complete(outs[lowered + 1])
  /\ \E sev \in {"error", "warning"}, lo \in Places :
       /\ sink' = Emit(sink, Diag(sev, LowerCode(sev), outs[lowered + 1].file, lo))
       /\ Received(sev)
  /\ UNCHANGED <<opts, argc, pc, said, shown, exit, modules, frontEnd, backEnd, failed>>

Lower ==
  /\ pc = "lower"
  /\ IF opts.emit = <<>> /\ ~opts.output THEN Finish(sink) /\ UNCHANGED lowered
     ELSE IF lowered = Len(outs) THEN Gate(sink, "emit") /\ UNCHANGED lowered
     ELSE IF ~Complete(outs[lowered + 1]) THEN Finish(sink) /\ UNCHANGED lowered
     ELSE lowered' = lowered + 1 /\ UNCHANGED <<sink, pc, shown, exit>>
  /\ UNCHANGED <<opts, argc, said, modules, frontEnd, stage, disk, history>>

-----------------------------------------------------------------------------
(* The back end.  compile_to_object writes one file, or fails: code        *)
(* generation and LLVM's verifier go through the sink (E7002), the target  *)
(* machine and the file system do not.                                     *)

CodegenFailed ==
  Finish(Emit(sink, Diag("error", "codegen", Nowhere, Nowhere))) /\ Received("error") /\ UNCHANGED said

CompileToObject(path, what, done) ==
  \/ disk' = [disk EXCEPT ![path] = what] /\ done /\ UNCHANGED <<said, reports>>
  \/ CodegenFailed /\ UNCHANGED <<disk, stage>>
  \/ BackendError /\ UNCHANGED <<disk, stage, reports>>

(* opts.output or the default name of the stage.                           *)
EmitPath == IF opts.output THEN "out" ELSE "stage"

EmitStage ==
  /\ pc = "emit" /\ stage <= Len(opts.emit)
  /\ LET next == stage' = stage + 1 /\ UNCHANGED <<sink, pc, shown, exit>>
     IN IF opts.emit[stage] \in {"llvm-ir", "obj"}
          THEN CompileToObject(EmitPath, opts.emit[stage], next)
          ELSE next /\ UNCHANGED <<disk, said, reports>>
  /\ UNCHANGED <<opts, argc, modules, frontEnd, lowered, failed>>

(* compile_and_link writes a temporary object first.                       *)
TempObject ==
  /\ pc = "emit" /\ opts.emit = <<>>
  /\ CompileToObject("tempObj", "obj", GoOn(sink, "runtime") /\ UNCHANGED stage)
  /\ UNCHANGED <<opts, argc, modules, frontEnd, lowered, failed>>

EmitDone ==
  /\ pc = "emit" /\ opts.emit # <<>> /\ stage > Len(opts.emit)
  /\ Finish(sink)
  /\ UNCHANGED <<opts, argc, said, modules, frontEnd, backEnd, history>>

(* link_executable: clang compiles the runtime,                            *)
CompileRuntime ==
  /\ pc = "runtime"
  /\ \/ disk' = [disk EXCEPT !["runtimeObj"] = "obj"] /\ GoOn(sink, "link") /\ UNCHANGED said
     \/ BackendError /\ UNCHANGED disk
  /\ UNCHANGED <<opts, argc, modules, frontEnd, lowered, stage, history>>

Removed(fs) == [f \in Files |-> IF f \in fs THEN "nothing" ELSE disk[f]]

LinkKeepsRuntime ==
  /\ pc = "link"
  /\ \/ BackendError /\ UNCHANGED disk
     \/ /\ disk' = [Removed({"tempObj"}) EXCEPT !["out"] = "exe"]
        /\ Finish(sink) /\ UNCHANGED said
  /\ UNCHANGED <<opts, argc, modules, frontEnd, lowered, stage, history>>

(* and links: it may not start, fail, or leave an executable.              *)
Link ==
  /\ pc = "link"
  /\ \/ BackendError /\ UNCHANGED disk
     \/ BackendError /\ disk' = Removed({"runtimeObj"})
     \/ /\ disk' = [Removed({"runtimeObj", "tempObj"}) EXCEPT !["out"] = "exe"]
        /\ Finish(sink) /\ UNCHANGED said
  /\ UNCHANGED <<opts, argc, modules, frontEnd, lowered, stage, history>>

Next ==
  \/ ParseArg \/ ParseArgsEnd \/ Load \/ ReadAgain \/ ReadAll
  \/ StartFile \/ Report \/ EndPass \/ Verify \/ React \/ Verified
  \/ FrontEndDone \/ LowerReport \/ Lower
  \/ EmitStage \/ TempObject \/ EmitDone \/ CompileRuntime \/ Link

Spec == Init /\ [][Next]_vars /\ WF_vars(Next)

-----------------------------------------------------------------------------
(* Properties                                                              *)

Finishing == pc = "stopped" /\ files > 0

(* Every variable keeps its type; in particular a limit of zero errors     *)
(* (--error-limit=0) never reaches the sink as a limit.                    *)
SinkOK(s) ==
  /\ {s.errs, s.warns, s.suppressed} \subseteq Nat
  /\ s.limit = NoLimit \/ s.limit \in Nat \ {0}
  /\ \A i \in DOMAIN s.diags :
       s.diags[i].sev \in {"error", "warning"} /\ s.diags[i].occurrences \in Nat \ {0}

TypeOK ==
  /\ opts.inputs \in 0..MaxArgs /\ opts.emit \in Seq(EmitStages)
  /\ opts.output \in BOOLEAN /\ opts.verify \in BOOLEAN
  /\ pc \in {"args", "load", "read", "file", "front", "verify", "verdict", "lower", "emit",
             "runtime", "link", "stopped"}
  /\ SinkOK(sink) /\ SinkOK(own)
  /\ pass \in 0..Len(Passes) /\ stage \in 1..(MaxArgs + 1) /\ lowered \in 0..Len(outs)
  /\ disk \in [Files -> {"nothing", "llvm-ir", "obj", "exe"}]
  /\ exit \in {"none", "Ok", "CompileError", "UsageError", "panic"}
  /\ (exit = "none") = (pc # "stopped")

(* sink.rs: counting always happens, storing may not.  Whatever is merged  *)
(* or throttled, every report the shared sink was given is counted once,   *)
(* and is stored, an occurrence of a stored one, or among the suppressed.  *)
EveryReportCounted ==
  ~opts.verify =>
    /\ sink.errs = reports.error /\ sink.warns = reports.warning
    /\ sink.errs = Occurrences(sink, "error") + sink.suppressed
    /\ sink.warns = Occurrences(sink, "warning")

(* A compiler that fails says why: an error among the rendered diagnostics *)
(* or an error line, under every --error-limit.                            *)
FailureIsExplained ==
  exit \in {"CompileError", "UsageError"} =>
    said \/ \E i \in DOMAIN shown : shown[i].sev = "error"

(* The gates: once anything was written, no error of the reading, of the   *)
(* front end of any file or of the lowering is in the sink.                *)
ErrorsWriteNothing ==
  (\E f \in Files : disk[f] # "nothing") =>
    \A i \in DOMAIN sink.diags : sink.diags[i].sev = "error" => sink.diags[i].code = "codegen"

(* Exit code 0 means that nothing went wrong: no error was reported, every *)
(* module of the graph was compiled, an executable that was asked for is   *)
(* there and the two temporary objects are gone.                           *)
SuccessMeansDone ==
  (Finishing /\ exit = "Ok" /\ ~opts.verify) =>
    /\ reports.error = 0
    /\ Len(outs) = files
    /\ disk["tempObj"] = "nothing" /\ disk["runtimeObj"] = "nothing"
    /\ (opts.output /\ opts.emit = <<>>) => disk["out"] = "exe" /\ lowered = files

(* pipeline.rs: the gate looks at the errors of this file.  Each file goes *)
(* as far as its own first error lets it, whatever the files before it     *)
(* reported.                                                               *)
GatePerFile ==
  \A i \in DOMAIN outs :
    outs[i].stage = IF failed[outs[i].file] = 0 THEN Len(Passes) ELSE failed[outs[i].file]

(* test_verifier.rs: a file passes only if every annotation names the line *)
(* and the code of a diagnostic, and every diagnostic is named.            *)
PassMeansAnnotated ==
  (pc = "verdict" /\ verdict = "Pass") =>
    /\ \A i \in DOMAIN annots : \E j \in DOMAIN own.diags : Matches(annots[i], own.diags[j])
    /\ \A j \in DOMAIN own.diags : \E i \in DOMAIN annots : Matches(annots[i], own.diags[j])
    /\ Len(own.diags) <= Len(annots)

(* Whatever fails, the compiler ends with an exit code.  Fairness: nothing *)
(* but the compiler itself decides when its next step is taken.            *)
Exits == <>(exit # "none")
=============================================================================
