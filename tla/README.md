# A TLA+ verification of the korec stage0 compiler

The repository is *kore-lang*; its program is `korec`, the stage0 compiler for the
language Kore, written in Rust under `src/stage0/src` (81 files, 23,187 lines).
One process, one thread, one compilation per run: nothing here interleaves, is
sent or survives a crash.  What makes the compiler hard is *protocol*: stacks,
ids, blocks, names, sizes and flags that dozens of mutually recursive functions have
to keep in step, over every program that may be written.  That is what these modules
model, by letting the actions choose the program.

Line numbers below are those of `src/stage0/src/...` unless a path says otherwise.

## 1. The system

`compile` (main.rs) runs the stages in order and stops at a gate when the
diagnostic sink holds errors.

| component | state it keeps | operations | what makes it correct | module |
| --- | --- | --- | --- | --- |
| driver (main.rs, driver/pipeline.rs, backend/linker.rs) | options, sources, outputs of the front end, files written | parse arguments, read again, five passes per file, lower, emit, link | nothing is written after an error; a failure is explained; success means all was done | Driver |
| diagnostic sink (diag/sink.rs) | diagnostics, counts, limit | `emit`, `finish` | every report is counted once, whatever is merged or throttled | DiagSink |
| test annotations (driver/test_verifier.rs) | nothing | match expected against emitted | a pass means both agree | TestAnnotations |
| loading, `ModuleRegistry` (main.rs, resolve/module.rs, resolve/path.rs) | worklist, processed files, modules, names, edges | read, parse, register, link, `check_cycles`, `topological_sort` | every import is loaded once; exactly the cyclic graphs are rejected; imports come first; it ends | ModuleGraph |
| parser and AST (frontend/parser) | position, errors | items, statements, expressions by binding power, recovery | the tree of the documents' grammar; nothing lost quietly; progress | Grammar, Parser |
| name resolution (resolve/builder.rs, scope.rs, symbols.rs) | scopes, symbols, phase, exports | define, look up, import | a name means the declaration the documents say; exactly the wrong uses are reported | Names |
| move and escape checker (escape/) | scopes of named bindings and their moves | walk a function, snapshot and restore around branches | exactly the uses after a move and the escaping borrows are reported | EscapeCheck; EscapeProofs |
| type checker (typecheck/) | types, signatures, variable scopes, the flag `branch_in_stmt_pos` | collect, check | accepted functions do not go wrong, rejected ones do | TypeCheck |
| lowering (middleend/lower) | `LoweringContext`: blocks, current block, scope, defer, loop and label stacks, moved locals | one function per construct | the graph is well formed; every way out of a scope cleans it up | Lowering, Cleanup, ScopedCleanup; LoweringProofs |
| HIR, validators, passes (middleend/hir, validate, pass) | a body of blocks | validate, eliminate, fold | the passes keep what the function does | Hir, Passes; PassesProofs |
| LLVM back end (backend/llvm) | symbols, types, locals | declare, define, lay out, store, load | a use reaches its item; memory holds what the HIR means | Calls, Layout; CallsProofs |
| lexer, evaluator, renderers, panic report, trace, runtime library | | | | none |

The stages call each other directly; the only object shared across them is the
`DiagSink`, and the only data are the AST, the symbols, the type context and the HIR.
What of a component is left out, and why, is in `components` of PROJECT.json.

The hard behaviours, each with its line in `hazards` of PROJECT.json:

- a scope can be left by its end, `ret`, `stop`/`skip`/`jmp`, or the error path of
  `!`, and each of these emits clean-up code in a function of its own;
- functions return early (`?`) between the push and the pop of a stack;
- ids of blocks are handed out long before the blocks are pushed, and one id may
  have two uses (the last arm of a branch and the target of unmatched values);
- after a return or a jump there is no current block, and every construct has to cope;
- facts about *names* are saved and restored while names change their meaning, and two
  components keep a map of names of their own;
- a flag says what position an expression is in, taken and handed on by hand;
- what one pass takes from another is a number that starts again in each module, or a
  size computed without LLVM's help;
- a graph is searched while a worklist grows, over containers without an order;
- any of the calls to LLVM, clang and the file system may fail with files written.

## 2. The modules

```
Hir <- Lowering <- Cleanup -- refines --> ScopedCleanup     DiagSink, TestAnnotations <- Driver
 ^                                                          Grammar <- Parser
 |
Passes <- MCPasses       EscapeCheck   ModuleGraph   Names   TypeCheck   Layout   Calls

Cleanup, SequenceFacts <- LoweringProofs              Driver, SequenceFacts <- DriverProofs
ModuleGraph, SequenceFacts <- ModuleGraphProofs       Names, SequenceFacts <- NamesProofs
EscapeCheck, SequenceFacts <- EscapeProofs            Calls, SequenceFacts <- CallsProofs
Passes, SequenceFacts <- PassesProofs
```

The runs' specifications are the modules' own; their bounds and sets are constants of
the .cfg files.  Only the graphs and statements that Passes is checked with have a module
of their own, MCPasses.  RECURSIVE operators occur in
Grammar, Parser, TypeCheck and Layout only, which hold no theorems.

### Hir
`HirBody` as a sequence of blocks in push order, found by id and never by position
(as the code does), with terminators reduced to a kind and a set of targets.
`UniqueIds`, `Dangling` and `Reachable` are what `validate_cfg` checks.

### Lowering
The state is `LoweringContext` (mod.rs:34-94) without types, operands and symbols.
The recursive descent is the variable `frames`, one frame for each call of
`lower_func`, `Expr::Block`, `lower_loop` or `lower_branch` that has not returned;
`result` is what the callee returned: no value, `Const::Void` or a value.  An action
is the part of a function between two recursive calls, whole:

| actions | code |
| --- | --- |
| `BeginFunc`, `EndFunc` | `lower_func`, `reset_function_state`, `lower_block_body`, `ensure_termination` |
| `Defer`, `LetOwned`, `LetMoved`, `PassOwned`, `Simple` | `lower_stmt`, `lower_let`, the arguments of a call, literals and calls |
| `EnterBlock`, `LeaveBlock`, `AbandonBlock` | `Expr::Block` in `lower_expr`, and its early return |
| `BeginLoop`, `LoopInDeadCode`, `EndLoop` | `lower_loop` |
| `BeginBranch`, `BranchInDeadCode`, `NextArm`, `EndBranch` | `lower_branch`, with `compile_patterns` and `materialize` in `Decision` |
| `Ret`, `RetInDeadCode` | `lower_ret` |
| `Jump`, `JumpNowhere` | `lower_stop`, `lower_skip`, `lower_jmp`, `unwind_scopes_to_depth` |
| `Propagate` | `lower_propagate`, for an error union and for another union |

The program is not stored: each action *chooses* the next construct.  The code looks
ahead in one place, `expr_always_terminates`; the model turns this into a promise made
when the branch is opened (`ends`) and kept by the guards (`Expected`).
`code` keeps, per block, only what clean-up is about: `init`, `take`, `drop`, `run`.
`taken` and `event` are history variables, read by properties only.

`CONSTANT Features` selects the constructs of a run.  Six of them exist to separate
what holds from what does not: `deepRet` and `deepJump` (a return or jump out of more
than one scope), `bareTail` (a block whose last expression has no value), `armFlow`
(control flow nested in an arm), `lateDefer` (a `defer` below an owned local of its scope)
and `unionPropagate` (`!` on a union that is no error union, after which the function is
lowered into a block that nobody pushes).  Section 4 lists what fails when one of them is
on; the invariants about the stacks hold with all of them on, and are proved so.
LoweredFunctions has all of them but the last.

Abstractions: the conditions of loops and guards open no blocks; a literal pattern has
a constant; operands, types and the position of values are left out; a deferred
expression is one statement.

### ScopedCleanup and Cleanup
ScopedCleanup states what `docs/spec/05-memory.md` promises: a stack of open scopes,
and each way out runs the clean-up of exactly the scopes it leaves, the innermost
first, each in reverse order of declaration, without what has been moved.  A defer may
use what was declared above it: of `f := open()!` and `defer f.close()` (05-memory.md:42-46)
the defer has to run before `f` is dropped, so a scope that is `late` runs its defers
first.  The code drops first in each of its five copies; `lateDefer` is that gap.
Where every defer stands above the owned locals of its scope, the last declared go first
and both orders are one.  Cleanup maps the frames of functions and blocks to the open scopes --
the *lexical* scopes, not the code's own stacks -- and `event`, the statements the last
exit emitted, to `exit`, and checks `ScopedCleanup!Spec` as a property.

### EscapeCheck
`EscapeContext` and the walk of `EscapeChecker` over one function.  The checker works
on names; beside its state the module keeps what is true of the program: variables
numbered in order of declaration, those that may have been moved on some path
(`moved`), and the errors the function deserves (`faults`).  A path into a loop body a
second time is accounted for in `LeaveLoop`; that a `ret` ends a path is not, so what the
truth says of moves may be too much in a function with one: `MovesNotInvented` is asked of
functions without (`ret` is recorded with the gaps).  Left out are `defer`, whose
expression is walked where it stands and runs when its scope ends, and the jumps `skip`,
`stop` and `jmp`, at which the checker does nothing.

A snapshot is a set of entries, one for each own binding, with its position: the order in
which `snapshot_moves` lists them, so that "one entry after the other" in `restore_snapshot`
comes to "the last entry of a name" (`LastEntry`).  `EnterArm` restores, `LeaveArm` takes,
`EndBranch` joins, each in one step as in the code.

Of the constructs modelled the checker and the documents take seven for different things;
`gaps` records which of them a function has come through, and a property is asked of
functions without the gaps it names: assignments and stores (`assign`), loops, bindings
without a type (`infer`), hidden names (`shadow`), the value of the body (`value`),
arguments that are only lent (`lend`: a call marks every own argument, whatever the
parameter is) and expressions that the walk does not enter (`unwalked`: array literals,
constructors such as `ret .Ok(b)`, and conditions of arms).  `CONSTANT Trusted` takes gaps back: with `Trusted = {"loop"}` the property must
hold of functions with that gap too.

### ModuleGraph
Stages 1 to 3 of `compile`.  Files, their imports and their contents are chosen in
`Init`; the recursion of `dfs_cycle_check` is the stack `calls`; HashMaps are walked in
every order.  A file's name is its stem, the canonical path is the file itself.  `Release`
is one turn of the inner loop of `topological_sort`, so that the in-degrees can be followed
edge by edge.  What the imports *mean* (`Imported`, the least set closed under imports) is
stated without the registry.

### DiagSink, TestAnnotations and Driver
DiagSink is a sink record with its operators, `Emit` the handler: count, then merge with
a stored diagnostic of the same key, or throttle, or store.  `Finished` sorts by rank: the
place of a diagnostic in the result is how many are not behind it.  TestAnnotations has the
matching of annotations with diagnostics.  Driver is `main`: `pc` is where `compile`
stands, and there is one action for each piece between two choices:

| actions | code |
| --- | --- |
| `ParseArg`, `ParseArgsEnd` | `parse_args`, left to right, and what it rejects after the last argument |
| `Load` | stages 1 to 3: what ModuleGraph hands over, errors and cycles included |
| `ReadAgain`, `ReadAll` | stage 4's reading of every module, its gate |
| `StartFile`, `Report`, `EndPass` | `run_frontend_with_registry`: five passes, a gate after each |
| `Verify`, `React`, `Verified` | verify mode, a sink for each file, its verdicts |
| `FrontEndDone`, `LowerReport`, `Lower` | the gate, `lower_module` for each output |
| `EmitStage`, `EmitDone` | `--emit`, with `compile_to_object` |
| `TempObject`, `CompileRuntime`, `Link` | `compile_and_link`, `link_executable` |

What a pass reports is chosen freely, since the driver has to be right whatever its passes
find.  LLVM, clang and the file system may fail at every call.  `disk` is what the
compiler has written, four paths.  `reports` and `failed` are history variables.

### Grammar and Parser
Grammar generates programs from what `docs/spec/02-syntax.md` and
`docs/kore0-boundary.md` say: a piece is a tree with the tokens that write it down and a
level that decides where parentheses stand.  Parser is the recursive descent over those
tokens, as operators on a cursor `[p, bad]`; a step of the machine is one round of the
loop over items in `parse`.  `Forever` marks a loop that goes round without reading.
With `Damage` the files are also tried with one token removed, inserted or replaced.
Spans, comments, visibility of fields and the texts of messages are left out.

`CONSTANT Forms` adds forms of the documents that the parser takes for something else or
rejects.  Not in the grammar at all: closures, ranges and what iterates in a loop, `|>`,
`~x, ~y := e`, struct literals, texts and patterns of lists.

### Names
The two passes of the resolver over two modules, the second of which may import the first;
each step is an item, a parameter list, a statement or the end of a block or arm.  `scopes`
and `module_scope` are the resolver's, `local_map` the lowering's, `truth` and
`true_module` what ADR 004 says, where built-in functions come last and any item may hide
them; `faults` are the errors it asks for.  The resolver reports an item with a built-in
function's name (`BuiltinsCanBeHidden`, section 4), and the properties ask for items without
one (`BuiltinHidden`).  All uses a
function could make at a place are looked at together, in `Lookup` against `Meant`.  In
verify mode (`registry = FALSE`) a file is resolved on its own.

### TypeCheck
Collection of the types and signatures, one action per kind of item, in two orders of the
items; then `CheckF` chooses the signature and the body of a function, and `Check` is
`check_expr` on it.  Next to it `Yields` is a collecting semantics: the kinds of values an
expression may have over all paths, and whether some path goes wrong.  It finds nothing by
position or flags.  Bodies are all of a grammar: a simple expression or a branch in each
of twenty-two contexts.  `gaps` and `Trusted` work as in EscapeCheck; there are seventeen
gaps.  Struct literals are not modelled, since the parser builds none (expr.rs:272-304 is
commented out).

### Passes
One of `Graphs` is filled with `Statements`, then handed to the passes: `RunPass` is one pass,
and there are up to three rounds of three.  A graph is any sequence of terminators that lead to its
own blocks, numbered from the entry as the lowering numbers them; a statement is any of
`Statement`: every rvalue, on constants and on places, which are a local, a part of one, or
what a local points to.  Of these the dead-store pass reads only whole locals (`Uses`).  The
bitwise binary operations are left out, since no pass touches them, and so are operands that
are array indices, which the pass does not look at either.

`Run` interprets a body with `Fuel` blocks over cells: one for each local, and cell 0 for the
memory outside.  An address leads to the local it was taken of (`At`), if the body takes
addresses of that local (`own`), and to cell 0 otherwise.  Two bodies behave the same if they
make the same calls and drops with the same values, return the same, and all that is told can
be followed to the same values.  `not` and `~` flip the bits of an int, as `codegen_unop` has it,
and logical operations are refused, as `codegen_binop` does.  The largest int is `IntMax`, while
folding is done without a width as in the code (an i128).  The worklists and loops "until nothing
changes" of the code are recursive functions with as many rounds as there can be changes.

### Layout
Composite types over integers and `str`, nested twice: the size the compiler computes
itself, the LLVM type it makes, and the actions that build, copy, borrow, take apart, match
and propagate.  A byte of memory remembers which byte of which value was stored there;
`held` is what the HIR says.  LLVM's own layout, the same on the 64-bit targets of
linker.rs, is external (`LStruct`).  A store beyond its local is recorded in `overrun`, for
the values and, apart from them, for the temporaries `!` makes: every `!` stores its i64 tag
into an u8 (`TemporariesHold`, section 4).  What such a store hits is not modelled: nothing
is claimed of the memory after it.

### Calls
The functions, with the uses in their bodies, and the structs of one or more modules;
lowering with merging, declaration, each function's generation and the C main are one
action each.  A use keeps beside the number it was lowered to the item it means.  What the
back end declares is a sequence of symbols with their bodies: that LLVM gives a taken name
another name, and finds by name what is declared already, is external (`Added`,
`SymbolNames`).  `free`, which a drop declares, is left out: no use names it.

## 3. What the runs check

The bounds are constants of the .cfg files.  For each property a plausible bug in a mapped
definition (`mutants` of PROJECT.json) is found within the same bounds.

| run | module | distinct states | question |
| --- | --- | --- | --- |
| LoweredFunctions | Cleanup | 948k | every construct but `!` on a plain union: do the stacks stay in step, is a decided block never written again, is the current block open, does straight-line code run each defer and drop each owned local exactly once? |
| CleanupPaths | Cleanup | 245k | outside the gaps `deepRet`, `deepJump`, `propagate`, `lateDefer`, `bareTail`, `move` and `pass`: does the emitted clean-up refine the promise; without `match`, `armFlow` and `unionPropagate`: does every jump lead to a block and every path end decided? |
| Escape | EscapeCheck | 429k | outside the named gaps, does the checker report exactly the moves and borrows it should? |
| ImportGraphs | ModuleGraph | 492k | is what is imported loaded, are exactly the cyclic graphs rejected, do imports come first, does it end? |
| Driving | Driver | 662k | every command line, any reports and failures: counts, explanations, gates, files, verdicts, exit |
| NamesAndScopes | Names | 715k | do resolver, lowering and ADR 004 mean the same by a name, and are exactly the wrong ones reported? |
| OptimisedBodies | MCPasses | 1.35M | do the passes keep behaviour and the body valid, and leave no useless store when they end by themselves? |
| ValueLayouts | Layout | 175k | until a `!` writes beyond its temporaries, does memory hold what the HIR means; does no access to a value leave its slot? |
| CallTargets | Calls | 59k | does every use reach its item, is every function defined once? |
| Parsing | Parser | 50k | is every file of the grammar parsed into its tree; is nothing lost quietly; does every loop read? |
| TypedFunctions | TypeCheck | 380k | outside the named gaps, is it exactly the functions that go wrong that are rejected? |
| LoopConditions | Parser | violation | a loop whose condition begins with a name (section 4) |

Why the bounds are enough:

- *Lowering*: two source statements with (nearly) all features on, three without the ones that
  multiply the choices.  A statement may be a block, a loop or a branch that holds the
  next; a loop in a block in a branch takes three, and every hazard above involves at
  most three nested constructs.  Two arms tell a first from a last one.
- *EscapeCheck*: four statements and names, two names, so that one may hide the other in a
  branch and be used after it.  One gap per function is enough to ask each property of
  functions with any other gap.
- *ModuleGraph*: three files give diamonds, self-imports, cycles that are only reached, and
  double imports.
- *Driver*: two files show what one leaves to the next, three reports fill a limit of one and
  merge, three arguments combine any two stages with an output.  Reports of the
  lowering and the back end come on top of the front end's.
- *Names*: two names, two items, three statements: a block in an arm, a name hidden twice.
- *Passes*: four shapes of graphs (a sequence, a loop, a branch with a join, a block no path
  leads to) and three statements over two locals, among them an address, a store and a read
  through it; or one operation alone.  Three bits have every boundary of a width, and the literals go one beyond it at both ends;
  five blocks run a loop twice.
- *Layout*: one width and `str` (a composite of sixteen bytes) nested twice already differ in
  size and alignment; arrays of one and two elements.
- *Calls*: main and two more names, two items with two uses each.
- *Parser*: operators two deep in every combination, statements two in a row, items two in a
  file.
- *TypeCheck*: expressions three deep, eleven types of the parameter, five of the result.

Deadlock is checked in EscapeCheck, which goes from function to function, and in Layout;
the compiler stops in all the others, when the file, function or module it works on is done.

**Fairness.**  `Decides` of ModuleGraph and `Exits` of Driver are stated under
`WF_vars(Next)`: a single thread that runs until it is done, and calls that return.  Driver
has no fairness on what passes report: reports are bounded, so a pass ends.  Every other
machine is bounded by the choice of a finite program.

## 4. Where code and documents disagree

One run with `expect: violation` shows one of them, with the quotation in `findings`:
**LoopConditions**: `@ y != 0 { ... }` (02-syntax.md:97) takes `y` for a label
(frontend/parser/expr.rs:474) and reports an error.

Each of the others is left out of a passing run by a constant or a premise.  To see one,
change the constant in the .cfg, or add the property named; TLC prints the program.

| run | change | what TLC finds |
| --- | --- | --- |
| Parsing | `Forms = {"trailing match"}` | `WellFormedParses`: a match at the end of a block (parser/expr.rs:344-411) |
| | `{"guards"}` | two guards in a row are one branch (expr.rs:342-402) |
| | `{"guard then match"}` | a match after a guard changes places with it (expr.rs:374, 401) |
| | `{"mutable with a type"}` | `~x : T = e` is an error (parser/stmt.rs:24; 02-syntax.md:11) |
| | `{"parameters of one type"}` | `(a, b T)` is an error (parser/decl.rs:62; 02-syntax.md:37) |
| | `{"not of a field"}` | `not a.f` is `(not a).f` (expr.rs:115-150; 05-memory.md:78) |
| CleanupPaths | `propagate` in `Features` | `CleanupAsPromised`: the error path of `!` runs no defer (lower/expr.rs:1018; 05-memory.md:95) |
| | `deepRet` | a return runs the clean-up of the innermost scope only (control.rs:603; 05-memory.md:99); `ReturnRunsEveryDefer` says so by itself |
| | `deepJump`, with `MaxStmts = 4` and only `defer`, `block`, `loop`, `jump` beside it | the outer scope is cleaned up first (control.rs:804; 05-memory.md:89) |
| | `lateDefer` | an owned local is dropped before the defers that use it (lower/expr.rs:357; func.rs:103; 05-memory.md:42-46) |
| | `bareTail` | a block whose last expression has no value loses its defers (lower/expr.rs:350; lower/mod.rs:82) |
| | `move` or `pass` | an owned value is dropped by its old owner too: `y := x` marks a temporary, `f(x)` marks nothing (func.rs:258; 05-memory.md:36) |
| | `match` | `NoDanglingTarget`: a valued first arm and returning others jump to a block never created (control.rs:290; the comment at 291) |
| | `armFlow` | `NoDeadEnd`: control flow nested in an arm is not linked to what follows (control.rs:251; control.rs:33) |
| | `propagate` and `unionPropagate` | `NoDanglingTarget`, `NoDeadEnd`: the blocks of a `!` on a union are switched to and never created (lower/expr.rs:1149, 1225) |
| LoweredFunctions | `unionPropagate` | `CurrentBlockOpen`: what follows that `!` is lowered into a block that is not there, and lost (lower/expr.rs:1225); the other properties of the run hold (1.65M states) |
| | property `MovedIsNotDropped` | `y := x` marks a temporary, x is dropped as well (func.rs:258; the comment at mod.rs:215) |
| Escape | `Trusted = {"loop"}` | `MovesAreCaught`: a move in a loop body does not reach the next iteration (checker.rs:122; 05-memory.md:36) |
| | `{"assign"}` | an assignment or a store moves nothing: `MovesRemembered`, `MovesAreCaught` (checker.rs:175; 05-memory.md:29) |
| | `{"unwalked"}` | array literals, constructors and the conditions of arms are not walked: a move or a use in them goes unseen, and so does a local borrow in `ret .Ok(b)`: `MovesRemembered`, `MovesAreCaught`, `BorrowsStayLocal` (checker.rs:148, 67, 239; 05-memory.md:36, 37) |
| | `{"lend"}` | `MovesNotInvented`: what a call only borrows is reported when it is used again (checker.rs:88; 05-memory.md:45) |
| | `{"infer"}` | a binding without an annotation is neither own nor borrow: `MovesAreCaught`, `BorrowsStayLocal` (checker.rs:166; 05-memory.md:43, 49) |
| | `{"value"}` | `BorrowsStayLocal`: a borrow that is the value of the body (checker.rs:65; 05-memory.md:37) |
| | `{"shadow"}` | `MovesNotInvented`: a live variable is reported for a hidden one (checker.rs:141; adr/004:36) |
| ImportGraphs | `SameStem = TRUE`, `EdgesLeadToImports` | two files of one name: an edge to the wrong one (main.rs:340; path.rs:5) |
| NamesAndScopes | invariant `ArmsAreScopes` | two arms that bind one name are rejected (builder.rs:384) |
| | `BuiltinsCanBeHidden` | an item named like a built-in function is a redefinition (builder.rs:139; adr/004:178) |
| | `ShadowingKept` | after an inner declaration the outer name means the inner local (lower/mod.rs:173) |
| OptimisedBodies | `NothingReadIsLost` | stores read by calls, drops, parts or through an address are deleted (dead_store.rs:58, although :3 says those never read) |
| | `FixedPoint`, with `MaxStmts = 4` | three rounds are not a fixed point (pass/mod.rs:32, although :49 says they are) |
| | `FoldedIsComputed` | `not 5` is folded to 0 and computed as -6 (const_fold.rs:98; rvalue.rs:499); a comparison of a literal that is no int is folded without a width, while the back end cuts the literal down first (const_fold.rs:75; rvalue.rs:128); `and`, `or` of constants are folded, and of anything else refused (const_fold.rs:81; rvalue.rs:453) |
| | `UndefinedIsReported` | the validator takes every local for defined (validate/local.rs:187) |
| ValueLayouts | `TemporariesHold` | `!` stores the i64 tag into an u8, and a large ok-typed value into the local of a small error (lower/expr.rs:989, 1061; ty.rs:41) |
| | `ErrorArrivesWhole` | `!` reads the error as the ok type (lower/expr.rs:1030; rvalue.rs:42) |
| | `EveryVariantCanBeBuilt` | a variant whose payload is not the largest cannot be built (rvalue.rs:598) |
| CallTargets | `MaxModules = 2`, `Names = {"f", "g"}`, `MaxItems = 1`, `MaxUses = 1` | `UsesReachTheirItem`: ids of the second module point into the first (main.rs:522, lower/mod.rs:312) |
| | `Names = {"main", "printf"}` | `UsesReachTheirItem`: a builtin calls the program's function of that name (runtime.rs:34) |

Gaps of TypeCheck; `Trusted = {"<gap>"}` breaks the property marked, A for
`AcceptedNeverGoesWrong` and R for `RejectedForAReason`:

| gap | | what the checker does |
| --- | --- | --- |
| operators | A R | rejects `not` and `~` (checker.rs:342) and gives `and`, `or`, `%` no type (701) |
| literals | R | an integer literal is i32 and never i64 (255; ADR 003) |
| bits | A | accepts `&` of two f64 (691) |
| calls | A | does not look at the arguments (284) |
| returns | A | does not compare the value of `ret` with the result (485) |
| never | R | an expression that does not return fits nowhere (226) |
| arms | A | arms of two kinds other than void have no type (446, 466) |
| bindings | A R | names bound by patterns have no type (755), so `v + 1` is rejected (648) |
| conditions, patterns, indices | A | are not looked at |
| loops | R | rejects mixed arms at the end of a loop's body (480; 21) |
| bare | R | rejects a bare value in a function with an error union (231; 05-memory.md) |
| slices | R | an array fits a slice in a binding but not in a result or payload (234, 780) |
| shared | R | a variant of two unions belongs to whichever a HashMap yields (context.rs:69) |
| order | R | a type named before it is defined is a struct (context.rs:104; 01-overview.md:33) |
| propagation | A | `!` in a function without error union (05-memory.md:83) |

Visible in the actions themselves: `BranchInDeadCode` is the panic of `lower_branch` on a
branch in unreachable code (control.rs:127); `IndexOutOfBounds` of Driver is the panic of
verify mode on an imported file (main.rs:418); `Link` leaves the first temporary object
behind when linking fails (linker.rs:223); and the list that a rejected graph is reported
with also contains modules that merely lead to the cycle (module.rs:190, although :152
says the cycle), which `CyclesAreRejected` does not ask about.

## 5. What is proved

LoweringProofs, for *every* value of the constants (any labels, features and bounds;
the assumption is `LoweringAssumption`):

- `StacksNested`: `Spec => [](TypeOK /\ StackShape)`, the inductive invariant;
- `TypeCorrect`: `Spec => []TypeOK`;
- `UnwindingStaysInside`: `Spec => []UnwindsWithinStack`.  `exit_scope` answers an empty
  stack with an empty scope, so going too far would go unnoticed;
- `LabelsResolveToOpenLoops`: `Spec => []LabelsNameOpenLoops`;
- `FunctionsStartClean`: `Spec => []LoopContextBalanced`, a conjunct of `StackShape`,
  although `reset_function_state` resets neither the loop stack nor the labels.

None of the three properties is inductive: that a scope is there to pop, or a label to
remove, depends on the call stack of the descent.  `StackShape` adds how the stacks fit
together: the depths recorded in the frames grow, strictly above a function or a block
(`FrameNesting`); the n-th loop frame owns the n-th entry of the loop stack
(`LoopNesting`); a bound label belongs to a loop frame (`LabelNesting`).  It has to
tolerate `AbandonBlock`, which leaves a scope on the stack that no frame owns: this is why
a frame's depth is a lower bound and not an equality.  `TypeStep` and `StackStep` have
one step per action; the lemmas `Push`, `PushLoop`, `Pop`, `PopLoop`, `Steady` and `Stay`
are the six things an action can do to the stacks.

TLC checks `StackShape` itself in LoweredFunctions, with every feature on, so the
strengthening is no stronger than the code.

LoweringProofs, for every value of the constants as well, about the blocks:

- `IdsAreReserved`: `Spec => []GraphShape`, the inductive invariant;
- `CurrentIsOpen`: `Spec => []CurrentBlockOpen`, if `"unionPropagate" \notin Features`;
- `DecidedIsFinal`: `Spec => DecidedBlocksAreFinal`, an action property;
- `EveryTargetIsPushed`: `Spec => []NoDanglingTarget`, if neither `match` nor
  `unionPropagate` is in `Features`;
- `NothingEndsDead`: `Spec => []NoDeadEnd`, if `armFlow` is not in `Features` either.

`lower_loop` and `lower_branch` take the ids of the blocks they will need when they begin
and push these blocks much later.  `GraphShape` says which ids are `Pending` for which
frame: they are below the counter (`IdsBelow`), each frame's are its own, and an inner
construct's are later ones (`Reservations`, `Apart`).  What is pending is in no block that is
decided (`StillOpen`), and the current block has an id below the counter, is undecided and
pending for nobody (`Building`); that it *exists* is part of `Building` only without
`unionPropagate`, while `IdsAreReserved` and `DecidedIsFinal` need no hypothesis.  That ids are unique is *not* part of it: the last arm of a branch and the
target of unmatched values may share an id, so two blocks can have one.  What does hold is
that only the first of them, the one a search by id finds, is ever decided
(`FirstsDecided`), and that is what makes `DecidedIsFinal` go through.
`EveryTargetIsPushed` adds `TargetShape`: every target of a terminator is a block that exists
or one that a frame has still to push (`Promised`), and a frame returns only when it
has pushed what it promised (`Kept`).  The hypotheses are those section 4 shows to be
needed: a `match` with a valued first arm and returning others, and a `!` on a union, promise
blocks that nobody pushes.  TLC checked `GraphShape` and `TargetShape` on the configurations of section 3
before they were proved.

`NothingEndsDead` is about a search: no block that control can reach lacks a terminator.
Its invariant `EndShape` avoids the search and speaks of all loose ends at once: a block that is
the entry or a target and is still undecided (`LooseEnds`) is under construction, or it is the
exit of an open loop, or the block after, or of an arm of, an open branch (`Awaited`).  `Ready` and
`FlatArms` say why those constructs keep their promise: a loop's header is decided, the flow of
a branch never left the block of the arm being lowered, and the arms lowered before are there to
be linked.  This is where `armFlow` has to be excluded: control flow in an arm
ends in another block than the arm's, and that one is linked by nobody.  When the function ends
no frame is left, hence no loose end, and `FoundTargets` says that whatever
`Reachable` finds is the entry or a target; as the recursion is unfolded one step at a time
(`ReachUnfolds`) this holds for bodies of any length.  TLC checked `EndShape` on millions of
states first, though not to the end.

The second half of LoweringProofs, about the refinement (Cleanup) and about what is left out:

- `CleanupRefinesPromise`: `Spec => CleanupAsPromised`, if `OneScopeAtATime`: no way out
  leaves more than one scope, the error path of `!` is not taken, no defer stands below an
  owned local, and so on for each of the seven features that section 4 shows to break the
  promise;
- `CleanupIsComplete`: `Spec => []NothingLeaks`, for every program and every feature.

The refinement mapping computes the open scopes from the frames, while the code emits
the clean-up from its own scope and defer stacks; `ScopeShape` says that the two agree.  The
depth recorded in a frame is the number of scopes around it; the entries of the code's
stacks are the locals and defers of the frames, in the same order (`Mirrors`); directly
above the frame of a loop is the frame of its body (`LoopBodies`); and all numbers are those
`ScopedCleanup` can handle.  There is one lemma per action: `EnterBlock` and `BeginFunc` open
a scope, `Defer` and the `Let`s add to the innermost, `LeaveBlock`, `EndFunc`, `Ret` and `Jump`
are exits, and everything about loops, branches and blocks is a stutter.  `JumpLeaves` is
the delicate one.  The code finds the loop by its label, in a map where an
inner loop hides an outer one of the same label, and unwinds to the depth recorded there;
the promise speaks of the innermost frame with the label.  That these are the same loop
follows from `LabelNesting` of `StackShape` and `LoopBodies`.  TLC checked `ScopeShape` to
a depth of eleven steps, 2.3 million states.

`NothingLeaks` says of the finished code that something is in it exactly once.  What is
invariant while it is lowered is an account (`LeakShape`, `Account`): a deferred expression, or an
owned local whose initialisation has been emitted, is either in the code once and in none
of the open scopes, or not in the code and once in exactly one scope (`Tally`); what has no
number yet is in neither (`Untold`).  A `defer` and an owning `let` add to one scope; the end of a
scope moves its entries from the scope to the code; at the end of the function there is no scope
left.  `is_moved` skips nothing, because only temporaries are ever marked (`LocalsKept`): for
the same reason a variable moved elsewhere is dropped as well, which section 4 reports.  The
account is kept only while there is one block whose end is reached (`Straight`), which is
what the property asks about; `LeakFar` and `LeakDead` say that a step out of
this class never leads back.  `CleanedOnce` is about the emitted clean-up itself, which skips
moved locals and reverses both lists.  TLC checked `LeakShape` on the
configuration of LoweredFunctions and on one with longer functions.

ModuleGraphProofs, for *every* set of files, finite or not, every import graph between them
and every order the HashMaps are walked in (the assumption is `GraphAssumption`):

- `GraphInvariance`: `Spec => []GraphInv`, the inductive invariant;
- `TypeCorrect`: `Spec => []TypeOK`, so every id the code indexes with is registered;
- `LoadingIsComplete`: `Spec => []LoadsWhatIsImported`;
- `CyclesRejected` and `ImportsAreFirst`: `Spec => []CyclesAreRejected` and
  `Spec => []ImportsComeFirst`, if no two files have one name (`~SameStem`; with two such
  files an edge may lead to the wrong one, and neither needs to hold).

The parts of `GraphInv` follow the stages.  `Worklist`: what the registered files import is
processed or queued, and every closed set that holds the inputs holds what is registered and
queued; when the queue is empty the registered files are therefore the least closed set.
`Named` and `EdgesAreImports`: edges and imports say the same.  `SearchPath`: the open calls
of `dfs_cycle_check` are a path of edges, and what each has passed is visited.
`VisitedAcyclic` is the heart: every non-empty set of visited modules has a member that no
other member imports, and one that imports no member.  It says "no cycle" without paths, so
a step that visits one more module keeps it by a case distinction.  The second half,
for the files on a cycle with a given one, shows that a cycle never reaches the sort; the
first half, for the modules not yet sorted, shows that Kahn's queue is not empty too early
(`QueueEmpty`), so that the sort never fails.  `Counting`: an in-degree is the number of
edges that are not yet released (`Into`), and the queue and the order hold
exactly the modules where it is 0.

The library's induction principles cannot be instantiated here, so what needs induction (the
recursion of `Kept`, the walk along a path in `FoundIsCycle`) rests on the lemma `UpTo` of
SequenceFacts, induction stated for a set, proved from the well-foundedness of strict
inclusion between finite sets.  SequenceFacts also holds what pushing, popping and
concatenating do to the elements of a sequence, and that a function defined by recursion on a
number is there, is unfolded one step at a time and is the only one (`Recursion`, `Unfolds`,
`RecursionOnce`), for all modules of proofs.

DriverProofs, for *every* number of arguments, files and reports, every `--error-limit` and
whatever the passes, the tools and the file system answer (`DriverAssumption`):

- `DriverInvariance`: `Spec => []DriverInv`, the inductive invariant;
- `NothingAfterErrors`: `Spec => []ErrorsWriteNothing`;
- `EachFileAsFarAsItCan`: `Spec => []GatePerFile`;
- `OkMeansDone`: `Spec => []SuccessMeansDone`;
- `EachReportCountsOnce`: `Spec => []EveryReportCounted`;
- `FailuresAreExplained`: `Spec => []FailureIsExplained`;
- `PassesAreAnnotated`: `Spec => []PassMeansAnnotated`.

None of the six is inductive.  That nothing is written after an error speaks of what the
sink *stores*, but the gates ask what it *counts*, and merging and throttling drive the two
apart: `Errors` says that the count is the number of errors received, that a count of zero
stores none, and that it is zero while code is generated.  `Whole` says that without an
error the files still to read, still to compile and compiled are all the files and every
output is complete, so that exit code 0 has lost none and the branch of `Lower` for an
incomplete output is never taken.  `PerFile` says that no file is waiting twice, that what
waits has not failed, and that the file at hand failed, if at all, in the pass that runs,
exactly if the count has moved past `before`: this is what the gate between two passes
relies on.  `Types`, `Begun` and `Unwritten` say what is there at which place of `compile`.
`Accounts` is what the last three rest on.  A sink is `Accounted` if its counts are what it
stores and suppresses, every stored diagnostic has the severity its code goes with, its limit
is none or positive, and with an error counted one is stored.  The third is why merging does
not mix the counts (`EmitAccounted`: the key of a diagnostic is its code and place, not its
severity); the fourth, why a full sink still has an error to show: it is false for a limit of
zero, which `error_limit_from_arg` never lets through.  `FinishedKeeps` says that sorting
loses and invents nothing: the rank of a diagnostic is an injection of a finite set into
itself, hence a bijection.  With it an error that is stored is rendered, and a verdict on the
sorted diagnostics is one on those of the sink (`PassFacts`).
Verify mode passes its diagnostics on by a fold over the sorted ones; nothing is said of the
shared sink there, only that nothing is written, nor of what is rendered.

EscapeProofs, for any finite set of names, any bounds and any nesting of blocks, loops,
branches and arms (`EscapeAssumption`):

- `EscapeTypes` and `EscapeInvariance`: `Spec => []TypeOK` and `Spec => []EscapeShape`; the two
  together are inductive;
- `MovesAreKept`: `Spec => []MovesRemembered`, if none of `assign`, `infer`, `unwalked` is in
  `Trusted`;
- `NoUseAfterMove`: `Spec => []MovesAreCaught`, if `loop` is not either;
- `NoFalseMove`: `Spec => []MovesNotInvented`, if none of `shadow`, `lend`, `ret` is;
- `NoBorrowEscapes`: `Spec => []BorrowsStayLocal`, if none of `infer`, `value`, `unwalked` is.

The hypotheses are the gaps that each property excludes anyway: with one of them in `Trusted`
it fails, as section 4 shows (but for `ret`, section 2).  The properties speak of what names mean; the proof
speaks of every binding on the stack, hidden or not, because a hidden one comes into
view again when a scope ends.  `Truth` says of the stack that numbers tell variables apart
(`Variables`), that every binding of a moved variable says so (`Remembering`) and that nothing
else does (`Inventing`, where no name is declared twice), each as long as the function is
without the gaps that break it.  A snapshot lists names twice when one hides another,
and restoring it sets only what each name means *now*, to the last entry of that name.  Why no
move gets lost: restoring happens only with the very scopes on the stack that were there when
the snapshot was taken (`Nesting`: frames and scopes lie on each other one by one, the frame of
an arm directly above that of its branch with two scopes); a binding hidden within
those scopes cannot be marked while they are there, so its entry is still true (`Pictures`,
`Agree`); and of a visible one the last entry is its own.  `Covers` and `Within` say that the
snapshots of a branch hold the moves before it and those its arms left, neither fewer nor more.
There is one lemma per action; `Restored`, `RestoreTruth` and `JoinTruth` are the ones about
`restore_snapshot` and the end of a branch.  TLC checked `EscapeShape` on the configuration of
section 3.

NamesProofs, for any finite or infinite set of names, any numbers of items and statements and
any nesting of blocks and arms (`NamesAssumption`):

- `NamesInvariance`: `Spec => []NamesInv`, the inductive invariant;
- `ReportsAreExact`: `Spec => []ReportsExactly`;
- `NamesAreFound`: `Spec => []MeansWhatIsDeclared`;
- `LoweringAgrees`: `Spec => []LoweringMeansTheSame`;
- `NothingPrivateIsNamed`: `Spec => []PrivateStaysPrivate`.

None of the four is inductive: each speaks of what was reported, and why nothing else was
lies in the scopes.  The resolver keeps fewer of them than ADR 004 has: an arm opens none,
so its names stay in the scope around it after the arm has ended.  `ScopesAgree` says how
the two stacks fit: `at` gives every scope of the resolver its frame, in order, and the
frames without one are the arms (`Framed`).  Under this pairing a scope means what its frame
means (`Shared`); what it has besides it are names that arms have left (`Leaked`), none if no
arm binds anything; they are of one scope only and no item's, as long as no arm reuses a name
(`LeaksApart`); and what an open arm binds is found in a scope around it (`ArmHeld`).  From
this `MeaningFound` and `Looked` derive that looking a name up among the scopes gives what it
means among the frames; for `m`, which no arm binds, they need no premise on arms, and that is
what `PrivateStaysPrivate` rests on.  All this but `Framed` holds until a name
is defined twice: after that the resolver has one definition and ADR 004 another; the
properties exclude it.
`Base` is about the items: `Kinds` (a scope holds no item, and only `m` is a module),
`ItemsAgree` (the resolver's module layer and `OverBuiltins`, the module's layer with the
built-in function below it, bind the same names, and differ only if E4003 was reported; as
long as no item is named like the built-in, the errors are the faults: `BuiltinHidden`) and
`Exported` (the published table has one item of each name, public exactly if its first
declaration is).  It needs no premise on shadowing: a local that hides `m` is no module.
`MapAgrees` is why the lowering's map is right although no scope is ever taken from it: as long
as nothing is shadowed a name is in one scope only, and the map has its id from there; a name
that is out of view is never looked up.  `Verdicts` adds to two of the properties that a
function without a fault has no error (`NothingInvented`).  There is one lemma per action
and part of the invariant; TLC checked all parts, with the pairing computed from the
frames, on the configuration of section 3.

CallsProofs, for any names, any number of functions, structs and uses:

- `CallsInvariance`: `Spec => [](SourceShape /\ CallShape)`, the inductive invariant;
- `UsesReachItems`: `Spec => []UsesReachTheirItem`;
- `FunctionsDefinedOnce`: `Spec => []EveryFunctionIsDefined`;
- `CallsTypes`: `Spec => []TypeOK`;

each if the program is one module (`MaxModules <= 1`) and none of its functions is named
like a function of the runtime (`NoClash`).  With two modules, or with a function
`printf`, the first property fails, as section 4 shows.

Both properties speak of the finished LLVM module; what makes them true is that four
ways to number functions agree.  `SourceShape` says that a module declares each name once and
uses only what it declares, which is what the resolver sees to.  From it `Merged` follows: behind
the builtins the functions stand in the order they are declared in, under different names,
and a use has the number of the place where its item then is (`Resolved`; `MergeMakes` is the
lemma about `lower_module`, whose counter starts behind the builtins).  `Table`
says that the name table leads each function to the symbol of the same place, and
`Declarations` that this symbol can get no body but the function's own and has no name that
`generate_main_wrapper` or a builtin looks for.  It is here that renaming `main` matters: the
symbol of the C main must find its name free.  Behind the functions there are only those of
the runtime, without bodies (`OnlyRuntime`; `DeclaresMore` is the lemma about declaring them
where they are missing), and at the end the C main (`Finished`): when no function is
waiting, each one's body is somewhere, and only its own symbol can have it.
TLC checked `SourceShape`, `CallShape` and `TypeOK` on the configuration of section 3.

PassesProofs, for *every* control-flow graph whose terminators lead to its own blocks, all
statements, every largest int, and every bound of statements and of the blocks an execution runs
through (`PassesAssumption`):

- `PassesKeepBehaviour`: `Spec => []SameBehaviour`;
- `NoUselessStoreIsLeft`: `Spec => []UselessStoresGo`;
- `PassesKeepValid`: `Spec => []ValidStaysValid`;
- `PassesTypes`: `Spec => []TypeOK`.

The invariant `PassesInv` compares the body with the one handed over: it is well formed, and
`Optimises` it (every block comes from one with the same id and terminator and reads and
mentions no local that this one did not; and if no store is to a local that is read where the
dead-store pass does not look, and the literals are ints, this is still so, and the bodies
behave alike).  After the first pass its blocks are the ones that could be reached.  `Optimises` is
transitive, so each pass is compared with its own input only.  When the rounds end because
one has changed nothing, `PassesInv` says that the last pass has nothing to delete, and
`StoresLeftAreRead` derives `NoUselessStoreIsLeft` from this: a local that is live somewhere is
read somewhere.

What makes two bodies behave alike is `Simulation`.  Executions that agree on the locals
live at a block, and on the `fixed` cells, which are never stores the passes may touch (the
memory outside and the locals with an address), agree after both blocks on what is live behind
them, on what the terminator uses and on the fixed cells again (`Follows`), hence leave for the same block; so they never part, for as many
blocks as they run, unless the first one did something undefined, and then nothing is promised.  For dead
code every local counts as live and the blocks are the same (`ReachableIs`: the pass and the
validator find the same blocks, the least set with the entry that nothing leads out of).
For folding every local counts as live too, and a folded statement does what the statement does
(`FoldComputes`: cutting down the result without a width is computing with a width).  Only
for dead stores is it what the analysis computes.  `LiveInIs` says that the sweeps have come
to an end: sets of pairs of a block and a local only grow, and there are no more of them than
sweeps.  `BehindStart` says that the backward walk over a block ends in what `Gen` and `Kill` say
of the whole block, and `StoreLeftOut` that a store to a local nobody asks for can go.
The premises of `SameBehaviour` are the two that section 4 shows to be needed.

Only model-checked: the properties of Layout, Parser and TypeCheck.
Out of the prover's reach and left to TLC: liveness (`Decides`, `Exits`);
what a recursive definition computes on all trees (Grammar, Parser, TypeCheck, Layout);
and facts that need induction over data, such as what `FoldLeft` over a snapshot computes.

## 6. Not modelled

- *Lexer*: what can go wrong in it is about single characters and bytes.
- *Compile-time evaluator*: the compiler never runs it.
- *Diagnostic codes and renderers, panic report, trace*: tables, formatting, a flag.
- *contract.rs, AST printer and visitor, HIR printer and visitor, type validator*: functions
  of texts, or traversals without state, called by tests.
- *Runtime library*: C code of the compiled programs.
- *Lowering of operands, places and struct literals*: Calls, Names and Layout each take the
  part of it they need.

## 7. Plan

1. *Execution* of a lowered graph, to say that each defer runs once per path and that moves
   in arms drop what they should.
