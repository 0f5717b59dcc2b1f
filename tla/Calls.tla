-------------------------------- MODULE Calls --------------------------------
(***************************************************************************)
(* From the names of functions and structs to the symbols of the program:  *)
(* each module is lowered by itself and numbers what it declares           *)
(* (lower_module, middleend/lower/mod.rs:303), main.rs appends the modules *)
(* to one another, and the back end declares every function (register_     *)
(* functions), generates their bodies and the C main (module.rs).          *)
(*                                                                         *)
(* A use, a call or the mention of a struct, keeps what the source means   *)
(* by it beside what the compiler makes of it: an origin, <<module, kind,   *)
(* number among the items of that kind>>.                                  *)
(***************************************************************************)
EXTENDS Integers, Sequences, FiniteSets, SequencesExt

CONSTANTS
  Names,        \* names the program's functions and structs may have
  MaxModules,   \* bound: modules of the program
  MaxItems,     \* bound: declarations of a module
  MaxUses       \* bound: uses in the body of a function

Builtins == <<"print", "println", "read_file", "write_file", "eprint", "eprintln">>
BuiltinNames == Range(Builtins)

\* The resolver rejects a declaration of a builtin's name; "renamed" stands for
\* the names LLVM makes up.
ASSUME NamesAssumption == IsFiniteSet(Names) /\ Names \cap (BuiltinNames \cup {"renamed"}) = {}
ASSUME BoundsAssumption == {MaxModules, MaxItems, MaxUses} \subseteq Nat

VARIABLES
  phase,        \* "source", "lower", "declare", "generate", "done"
  source,       \* the modules: [func, struct], functions with their uses and names of structs
  hir,          \* the merged module: functions and structs
  symbols,      \* the functions of the LLVM module: [name, bodies]
  named,        \* CodegenContext.functions: HIR name -> index in symbols
  emitted       \* uses generated: [kind, wanted, at, runtime]

vars == <<phase, source, hir, symbols, named, emitted>>

\* What generating a call of a builtin declares, by the type of its argument.
Runtime(builtin) ==
  CASE builtin = "print" -> {"printf"}
    [] builtin = "println" -> {"printf", "puts"}
    [] builtin = "read_file" -> {"kore_read_file", "strlen"}
    [] builtin = "write_file" -> {"kore_write_file"}
    [] OTHER -> {"fprintf"}

\* What is no item of the program, and the body of the C main, which calls symbol s.
External == <<0, "external", 0>>
MainBody(s) == <<0, "main", s>>

-----------------------------------------------------------------------------
(* The source, an item at a time.  The resolver lets a module use what it  *)
(* declares and the builtins, and declare each name once.  Functions and   *)
(* structs are numbered apart, so their order is kept apart.               *)

FuncNames(m) == [i \in DOMAIN source[m].func |-> source[m].func[i].name]
Declared(m) == Range(FuncNames(m)) \cup Range(source[m].struct)

AddModule ==
  /\ phase = "source" /\ Len(source) < MaxModules
  /\ source' = Append(source, [func |-> <<>>, struct |-> <<>>])
  /\ UNCHANGED <<phase, hir, symbols, named, emitted>>

MayDeclare(name) ==
  /\ phase = "source" /\ source # <<>>
  /\ LET m == Len(source)
     IN  Len(source[m].func) + Len(source[m].struct) < MaxItems /\ name \notin Declared(m)

AddFunc(name) ==
  /\ MayDeclare(name)
  /\ source' = [source EXCEPT ![Len(source)].func = Append(@, [name |-> name, uses |-> {}])]
  /\ UNCHANGED <<phase, hir, symbols, named, emitted>>

AddStruct(name) ==
  /\ MayDeclare(name)
  /\ source' = [source EXCEPT ![Len(source)].struct = Append(@, name)]
  /\ UNCHANGED <<phase, hir, symbols, named, emitted>>

\* The functions of a module get their bodies when all items are there.
AddUse(m, i, name) ==
  /\ phase = "source" /\ Len(source) = MaxModules
  /\ m \in DOMAIN source /\ i \in DOMAIN source[m].func
  /\ Cardinality(source[m].func[i].uses) < MaxUses
  /\ name \in Declared(m) \cup BuiltinNames
  /\ source' = [source EXCEPT ![m].func[i].uses = @ \cup {name}]
  /\ UNCHANGED <<phase, hir, symbols, named, emitted>>

SourceEnd ==
  /\ phase = "source" /\ source # <<>>
  /\ phase' = "lower"
  /\ UNCHANGED <<source, hir, symbols, named, emitted>>

-----------------------------------------------------------------------------
(* lower_module: ids by counting, the builtins first.                      *)

Position(names, name) == CHOOSE i \in DOMAIN names : names[i] = name

FirstFuncIdUnreserved == 0
FirstFuncId == Len(Builtins)

FuncIdOf(m, name) ==
  IF name \in BuiltinNames THEN Position(Builtins, name) - 1
  ELSE FirstFuncId + Position(FuncNames(m), name) - 1

StructIdOf(m, name) == Position(source[m].struct, name) - 1

Origin(m, name) ==
  IF name \in BuiltinNames THEN External
  ELSE IF name \in Range(source[m].struct) THEN <<m, "struct", Position(source[m].struct, name)>>
  ELSE <<m, "func", Position(FuncNames(m), name)>>

LoweredUse(m, name) ==
  LET struct == name \in Range(source[m].struct)
  IN  [kind |-> IF struct THEN "struct" ELSE "func",
       id |-> IF struct THEN StructIdOf(m, name) ELSE FuncIdOf(m, name),
       wanted |-> Origin(m, name)]

BuiltinFuncs ==
  [i \in DOMAIN Builtins |-> [name |-> Builtins[i], origin |-> External, body |-> FALSE, uses |-> {}]]

LoweredFuncs(m) ==
  [i \in DOMAIN source[m].func |->
     LET f == source[m].func[i]
     IN  [name |-> f.name, origin |-> Origin(m, f.name), body |-> TRUE,
          uses |-> {LoweredUse(m, name) : name \in f.uses}]]

LoweredStructs(m) == [i \in DOMAIN source[m].struct |-> Origin(m, source[m].struct[i])]

\* One HIR for all modules: what each of them declares, one after the other.
MergeAll ==
  /\ phase = "lower"
  /\ hir' = [functions |-> FlattenSeq([m \in DOMAIN source |-> BuiltinFuncs \o LoweredFuncs(m)]),
             structs |-> FlattenSeq([m \in DOMAIN source |-> LoweredStructs(m)])]
  /\ phase' = "declare"
  /\ UNCHANGED <<source, symbols, named, emitted>>

-----------------------------------------------------------------------------
(* The LLVM module (external): a function added under a name that is taken *)
(* gets another name; get_function finds by name.                          *)

Added(name, names) == [name |-> IF name \in names THEN "renamed" ELSE name, bodies |-> {}]

SymbolNameKept(name) == name
SymbolName(name) == IF name = "main" THEN "kore_main" ELSE name

\* register_functions
RegisterFunctions ==
  /\ phase = "declare"
  /\ LET name(i) == SymbolName(hir.functions[i].name)
     IN  symbols' = [i \in DOMAIN hir.functions |-> Added(name(i), {name(j) : j \in 1 .. i - 1})]
  /\ named' = [n \in {f.name : f \in Range(hir.functions)} |->
                 CHOOSE i \in DOMAIN hir.functions :
                   /\ hir.functions[i].name = n
                   /\ \A j \in DOMAIN hir.functions : hir.functions[j].name = n => j <= i]
  /\ phase' = "generate"
  /\ UNCHANGED <<source, hir, emitted>>

SymbolNames(syms) == {s.name : s \in Range(syms)}

\* Symbols after the runtime functions a builtin needs are declared, unless they are.
WithRuntime(syms, fns) ==
  LET missing == SetToSeq(fns \ SymbolNames(syms))
  IN  syms \o [i \in DOMAIN missing |-> Added(missing[i], {})]

Started == UNION {s.bodies : s \in Range(symbols)}
Waiting == {i \in DOMAIN hir.functions :
              hir.functions[i].body /\ hir.functions[i].origin \notin Started}
NextBody == CHOOSE i \in Waiting : \A j \in Waiting : i <= j

\* Which symbol a call of FuncId id reaches: ids below six are the builtins
\* themselves, any other is looked up in the merged module and by its name.
Callee(id) == named[hir.functions[id + 1].name]

\* codegen_function_body: the body of the next function, calls in order.
GenerateBody ==
  /\ phase = "generate"
  /\ Waiting # {}
  /\ LET f        == hir.functions[NextBody]
         calls    == {u \in f.uses : u.kind = "func"}
         builtins == {u \in calls : u.id < Len(Builtins)}
         own      == [symbols EXCEPT ![named[f.name]].bodies = @ \cup {f.origin}]
     IN  /\ symbols' = WithRuntime(own, UNION {Runtime(Builtins[u.id + 1]) : u \in builtins})
         /\ emitted' = emitted
              \cup {[kind |-> "call", wanted |-> u.wanted, at |-> Callee(u.id), runtime |-> {}] :
                       u \in calls \ builtins}
              \cup {[kind |-> "call", wanted |-> u.wanted, at |-> 0,
                     runtime |-> Runtime(Builtins[u.id + 1])] : u \in builtins}
              \cup {[kind |-> "type", wanted |-> u.wanted, at |-> u.id + 1, runtime |-> {}] :
                       u \in f.uses \ calls}
  /\ UNCHANGED <<phase, source, hir, named>>

\* generate_main_wrapper, if some function is the program's main.
Finish ==
  /\ phase = "generate"
  /\ Waiting = {}
  /\ symbols' = IF "main" \in DOMAIN named
                THEN LET init == WithRuntime(symbols, {"kore_init_cmdline_args"})
                         main == Added("main", SymbolNames(init))
                     IN  Append(init, [main EXCEPT !.bodies = {MainBody(named["main"])}])
                ELSE symbols
  /\ phase' = "done"
  /\ UNCHANGED <<source, hir, named, emitted>>

Init ==
  /\ phase = "source" /\ source = <<>>
  /\ hir = [functions |-> <<>>, structs |-> <<>>]
  /\ symbols = <<>> /\ named = <<>> /\ emitted = {}

Next ==
  \/ AddModule \/ SourceEnd \/ MergeAll \/ RegisterFunctions \/ GenerateBody \/ Finish
  \/ \E name \in Names : AddFunc(name) \/ AddStruct(name)
  \/ \E m \in 1 .. MaxModules, i \in 1 .. MaxItems, name \in Names \cup BuiltinNames : AddUse(m, i, name)

Spec == Init /\ [][Next]_vars

-----------------------------------------------------------------------------
(* Properties.                                                             *)

\* Types: the name table leads to symbols, and only the program's own
\* functions and the C main have bodies.
TypeOK ==
  /\ phase \in {"source", "lower", "declare", "generate", "done"}
  /\ \A n \in DOMAIN named : named[n] \in DOMAIN symbols
  /\ \A s \in Range(symbols) :
       \A b \in s.bodies : b[2] = "main" \/ \E f \in Range(hir.functions) : f.body /\ f.origin = b

\* Where a finished call goes.
Reached(e) ==
  IF e.at # 0 THEN symbols[e.at].bodies
  ELSE UNION {s.bodies : s \in {s \in Range(symbols) : s.name \in e.runtime}}

\* A call reaches the one function it names ("从 HIR 模块中查找函数实际名称",
\* rvalue.rs:98), a builtin the C library or the runtime library, whose
\* functions the program does not define (runtime.rs), and a struct is laid
\* out as the struct its name means.
UsesReachTheirItem ==
  phase = "done" => \A e \in emitted :
    IF e.kind = "type" THEN hir.structs[e.at] = e.wanted
    ELSE Reached(e) = IF e.wanted = External THEN {} ELSE {e.wanted}

\* Every function of the program is defined once, under a name of its own,
\* and the C main calls the one named main.
EveryFunctionIsDefined ==
  phase = "done" =>
    /\ \A f \in Range(hir.functions) : f.body =>
         Cardinality({i \in DOMAIN symbols : f.origin \in symbols[i].bodies}) = 1
    /\ \A s \in Range(symbols) : Cardinality(s.bodies) <= 1
    /\ \A f \in Range(hir.functions) : f.name = "main" =>
         \E s \in Range(symbols) :
           s.name = "main" /\ s.bodies # {} /\
           \A b \in s.bodies : b[2] = "main" /\ symbols[b[3]].bodies = {f.origin}
=============================================================================
