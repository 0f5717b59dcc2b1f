-------------------------------- MODULE Names --------------------------------
(***************************************************************************)
(* Name resolution (frontend/resolve/builder.rs, scope.rs, symbols.rs) of  *)
(* two modules, the second of which may import the first, next to the      *)
(* scoping rules of docs/adr/004 and to the map from names to locals that  *)
(* the lowering keeps (middleend/lower/mod.rs, register_local).            *)
(*                                                                         *)
(* A step is one thing the resolver meets on its way over a module: an     *)
(* item in the first pass, a parameter list, a statement or a use of a     *)
(* name in the second.  Functions, structs and unions are all items; types,*)
(* wording and mutability are left out.  The                               *)
(* bodies of the imported module are resolved like any others and are left *)
(* out too; what counts is what it exports.                                *)
(***************************************************************************)
EXTENDS Naturals, Sequences, SequencesExt, FiniteSets, Functions

CONSTANTS
  Idents,      \* names a program may give to anything
  MaxItems,    \* bound: items in both modules
  MaxStmts     \* bound: definitions, blocks and arms in the function

(* The imported module, and one of the built-in functions.                 *)
ModuleName == "m"
Builtin == "print"

ASSUME NamesAssumption ==
  /\ {ModuleName, Builtin} \cap Idents = {}
  /\ MaxItems \in Nat /\ MaxStmts \in Nat

Names == Idents \cup {ModuleName, Builtin}

VARIABLES
  registry,      \* FALSE in verify mode, where files are resolved on their own
  current,       \* the module that is resolved: 1, then 2
  phase,         \* "collect", "locals" between functions, "body", "done"
  table,         \* SymbolTable: the symbols, their position is their SymbolId
  module_scope,  \* the module's bindings: name -> SymbolId
  module_spans,  \* names defined by an item or built in
  scopes,        \* ScopeStack: the local scopes, outermost first
  exports,       \* what module 1 has published: part of its table, in that order
  local_map,     \* LoweringContext::local_map: name -> the symbol of the local
  errors,        \* codes emitted for the current module
  frames,        \* the descent: "func", "block" and "arm"
  items, fuel,   \* bounds
  truth,         \* what ADR 004 says: scopes like above, but one more per arm
  true_module,   \* and the items of the module, the first of each name; the built-in
                 \* functions lie outside of them, where an item may hide them
  public,        \* names module 1 declares pub
  faults,        \* codes that ADR 004 asks for
  used           \* history: what the function has made use of

vars == <<registry, current, phase, table, module_scope, module_spans, scopes, exports, local_map,
          errors, frames, items, fuel, truth, true_module, public, faults, used>>

ghosts == <<truth, true_module, public, faults, used>>

Put(f, x, v) == [n \in DOMAIN f \cup {x} |-> IF n = x THEN v ELSE f[n]]

Nothing == [n \in {} |-> 0]

Symbol(name, kind, pub) == [name |-> name, kind |-> kind, is_public |-> pub]

Report(code, bad) == IF bad THEN {code} ELSE {}

(* register_builtins                                                       *)
Fresh ==
  /\ table = <<Symbol(Builtin, "item", FALSE)>>
  /\ module_scope = Put(Nothing, Builtin, 1)
  /\ module_spans = {Builtin}

Init ==
  /\ Fresh
  /\ registry \in BOOLEAN
  /\ current = 1
  /\ phase = "collect"
  /\ scopes = <<>>
  /\ exports = Nothing
  /\ local_map = Nothing
  /\ errors = {} /\ faults = {}
  /\ frames = <<>>
  /\ items = 0 /\ fuel = 0
  /\ truth = <<>>
  /\ true_module = Nothing
  /\ public = {}
  /\ used = {}

-----------------------------------------------------------------------------
(* Lookup                                                                  *)

Find(stack, module, x) ==
  LET holds == {i \in DOMAIN stack : x \in DOMAIN stack[i]}
  IN IF holds # {} THEN stack[CHOOSE i \in holds : \A j \in holds : j <= i][x]
     ELSE IF x \in DOMAIN module THEN module[x]
     ELSE 0

LookupModuleFirst(x) == IF x \in DOMAIN module_scope THEN module_scope[x] ELSE Find(scopes, Nothing, x)

(* ScopeStack::lookup: from the innermost scope outwards, then the module. *)
Lookup(x) == Find(scopes, module_scope, x)

(* The order of ADR 004: local scopes, the module, the built-in names.     *)
OverBuiltins ==
  [x \in DOMAIN true_module \cup {Builtin} |-> IF x \in DOMAIN true_module THEN true_module[x] ELSE 1]

Meant(x) == Find(truth, OverBuiltins, x)

(* LoweringContext::lookup_local                                           *)
Lowered(map, x) == IF x \in DOMAIN map THEN map[x] ELSE 0

-----------------------------------------------------------------------------
(* The first pass: the items of a module, in any order.                    *)

(* define_module_symbol                                                    *)
Define(x, pub) ==
  IF x \in module_spans
    THEN /\ errors' = errors \cup {"E4003"}
         /\ UNCHANGED <<table, module_scope, module_spans>>
    ELSE /\ table' = Append(table, Symbol(x, "item", pub))
         /\ module_spans' = module_spans \cup {x}
         /\ module_scope' = Put(module_scope, x, Len(table'))
         /\ errors' = errors \cup Report("E4003", x \in DOMAIN module_scope)

(* The document forbids a name twice in the module.  (An item hiding a     *)
(* built-in function has no symbol in the resolver's table: the one of its *)
(* name stands for it.)                                                    *)
Declared(x, id) ==
  /\ true_module' = IF x \in DOMAIN true_module THEN true_module ELSE Put(true_module, x, id)
  /\ faults' = faults \cup Report("E4003", x \in DOMAIN true_module)

Collect(x, pub) ==
  /\ phase = "collect" /\ items < MaxItems
  /\ items' = items + 1
  /\ Define(x, pub)
  /\ Declared(x, module_scope'[x])
  /\ public' = IF current = 1 /\ pub /\ x \notin DOMAIN true_module THEN public \cup {x} ELSE public
  /\ UNCHANGED <<registry, current, phase, scopes, exports, local_map, frames, fuel, truth, used>>

(* `use m`: the name of the module is bound like an item, though it is not *)
(* recorded in module_spans.  Without a registry it is not bound at all.   *)
Use ==
  /\ phase = "collect" /\ items < MaxItems /\ current = 2
  /\ items' = items + 1
  /\ IF registry
       THEN /\ table' = Append(table, Symbol(ModuleName, "module", FALSE))
            /\ module_scope' = Put(module_scope, ModuleName, Len(table'))
            /\ errors' = errors \cup Report("E4003", ModuleName \in DOMAIN module_scope)
            /\ Declared(ModuleName, Len(table'))
       ELSE UNCHANGED <<table, module_scope, errors, true_module, faults>>
  /\ UNCHANGED <<registry, current, phase, module_spans, scopes, exports, local_map, frames, fuel,
                 truth, public, used>>

(* Between the passes the functions and types are published.               *)
Published == Restrict(table, {i \in DOMAIN table : table[i].kind = "item"})

EndCollect ==
  /\ phase = "collect"
  /\ phase' = "locals"
  /\ exports' = IF registry /\ current = 1 THEN Published ELSE exports
  /\ UNCHANGED <<registry, current, table, module_scope, module_spans, scopes, local_map, errors,
                 frames, items, fuel, ghosts>>

(* The next module has a resolver and a sink of its own here.              *)
NextModule ==
  /\ phase = "locals" /\ current = 1
  /\ current' = 2
  /\ phase' = "collect"
  /\ table' = <<Symbol(Builtin, "item", FALSE)>>
  /\ module_scope' = Put(Nothing, Builtin, 1)
  /\ module_spans' = {Builtin}
  /\ true_module' = Nothing
  /\ errors' = {} /\ faults' = {}
  /\ UNCHANGED <<registry, scopes, exports, local_map, frames, items, fuel, truth, public, used>>

-----------------------------------------------------------------------------
(* The second pass.  In the syntax only a block holds statements; an arm's *)
(* body and a function's may also be a single expression.                  *)

InBlock == frames # <<>> /\ Last(frames) = "block"

(* Bound: a function is followed up to its first fault.                    *)
Clean == errors = {} /\ faults = {}
InBody == phase = "body" /\ Clean /\ fuel < MaxStmts

DefineIn(stack, x, id) == [stack EXCEPT ![Len(stack)] = Put(@, x, id)]

ClashesAnywhere(stack, x) == \E i \in DOMAIN stack : x \in DOMAIN stack[i]

(* define_local: a name that the innermost scope already has is reported,  *)
(* and bound all the same.                                                 *)
Clashes(stack, x) == x \in DOMAIN Last(stack)

RegisterOnce(map, x, id) == IF x \in DOMAIN map THEN map ELSE Put(map, x, id)

(* register_local                                                          *)
Register(map, x, id) == Put(map, x, id)

IsLocal(id) == id # 0 /\ table[id].kind \in {"param", "local"}

(* A use of x for which the lowering takes another local than the resolver,*)
(* or a local for an item.                                                 *)
Misread(x, map) ==
  Report("misread", Lookup(x) # 0 /\ Lowered(map, x) # (IF IsLocal(Lookup(x)) THEN Lookup(x) ELSE 0))

(* Every parameter is defined, the last of a name wins.                    *)
ParamIds(params) ==
  [x \in ToSet(params) |->
     Len(table) + (CHOOSE i \in DOMAIN params :
                     params[i] = x /\ \A j \in DOMAIN params : params[j] = x => j <= i)]

EnterFunc(params) ==
  LET ids == ParamIds(params)
      twice == Report("E4003", Cardinality(ToSet(params)) < Len(params))
  IN
  /\ phase = "locals" /\ current = 2
  /\ phase' = "body"
  /\ frames' = <<"func">>
  /\ table' = table \o [i \in DOMAIN params |-> Symbol(params[i], "param", FALSE)]
  /\ scopes' = <<ids>>
  /\ truth' = <<ids>>
  /\ local_map' = ids
  /\ errors' = errors \cup twice
  /\ faults' = faults \cup twice
  /\ used' = Report("shadow", \E x \in ToSet(params) : x \in DOMAIN module_scope)
  /\ UNCHANGED <<registry, current, module_scope, module_spans, exports, items, fuel, true_module,
                 public>>

LeaveFunc ==
  /\ phase = "body" /\ frames = <<"func">>
  /\ phase' = "done"
  /\ frames' = <<>>
  /\ scopes' = Front(scopes)
  /\ truth' = Front(truth)
  /\ UNCHANGED <<registry, current, table, module_scope, module_spans, exports, local_map, errors,
                 items, fuel, true_module, public, faults, used>>

(* A path that is a single name.                                           *)
Path(x) ==
  /\ phase = "body" /\ Clean
  /\ used' = used \cup Misread(x, local_map)
  /\ errors' = errors \cup Report("E4002", Lookup(x) = 0)
  /\ faults' = faults \cup Report("E4002", Meant(x) = 0)
  /\ UNCHANGED <<registry, current, phase, table, module_scope, module_spans, scopes, exports,
                 local_map, frames, items, fuel, truth, true_module, public>>

AccessibleIfThere(x) == \E i \in DOMAIN exports : exports[i].name = x

(* SymbolTable::lookup, the first symbol of a name, and whether it is pub. *)
Accessible(x) ==
  \E i \in DOMAIN exports :
    /\ exports[i].name = x /\ exports[i].is_public
    /\ \A j \in DOMAIN exports : j < i => exports[j].name # x

IsModule(id) == id # 0 /\ table[id].kind = "module"

(* base.x: a symbol of another module if base means one, a field if not.   *)
Field(base, x) ==
  /\ phase = "body" /\ Clean
  /\ errors' = errors \cup (IF IsModule(Lookup(base)) THEN Report("Qualified", ~Accessible(x))
                            ELSE Report("E4002", Lookup(base) = 0))
  /\ faults' = faults \cup (IF IsModule(Meant(base)) THEN Report("Qualified", x \notin public)
                            ELSE Report("E4002", Meant(base) = 0))
  /\ UNCHANGED <<registry, current, phase, table, module_scope, module_spans, scopes, exports,
                 local_map, frames, items, fuel, truth, true_module, public, used>>

(* What makes a name of a function mean two things.                        *)
Reuse(x) == Report("shadow", Lookup(x) # 0)

(* `x := y`: the resolver looks y up before it defines x; the lowering     *)
(* registers x first.                                                      *)
Let(x, y) ==
  LET map == Register(local_map, x, Len(table) + 1) IN
  /\ InBody /\ InBlock
  /\ fuel' = fuel + 1
  /\ table' = Append(table, Symbol(x, "local", FALSE))
  /\ scopes' = DefineIn(scopes, x, Len(table'))
  /\ truth' = DefineIn(truth, x, Len(table'))
  /\ errors' = errors \cup Report("E4002", Lookup(y) = 0) \cup Report("E4003", Clashes(scopes, x))
  /\ faults' = faults \cup Report("E4002", Meant(y) = 0) \cup Report("E4003", x \in DOMAIN Last(truth))
  /\ local_map' = map
  /\ used' = used \cup Misread(y, map) \cup Reuse(x) \cup Report("armReuse", "arm" \in used /\ x \in DOMAIN local_map)
  /\ UNCHANGED <<registry, current, phase, module_scope, module_spans, exports, frames, items,
                 true_module, public>>

EnterBlock ==
  /\ InBody
  /\ fuel' = fuel + 1
  /\ frames' = Append(frames, "block")
  /\ scopes' = Append(scopes, Nothing)
  /\ truth' = Append(truth, Nothing)
  /\ UNCHANGED <<registry, current, phase, table, module_scope, module_spans, exports, local_map,
                 errors, items, true_module, public, faults, used>>

(* The body of an arm or a function is over with its block.                *)
LeaveBlock ==
  /\ phase = "body" /\ Last(frames) = "block"
  /\ frames' = Front(frames)
  /\ scopes' = Front(scopes)
  /\ truth' = Front(truth)
  /\ UNCHANGED <<registry, current, phase, table, module_scope, module_spans, exports, local_map,
                 errors, items, fuel, true_module, public, faults, used>>

(* An arm that binds x.  The resolver has no scope for it: x goes to the   *)
(* scope around the branch.                                                *)
EnterArm(x) ==
  LET id == Len(table) + 1 IN
  /\ InBody
  /\ fuel' = fuel + 1
  /\ frames' = Append(frames, "arm")
  /\ table' = Append(table, Symbol(x, "local", FALSE))
  /\ scopes' = DefineIn(scopes, x, id)
  /\ truth' = Append(truth, Put(Nothing, x, id))
  /\ errors' = errors \cup Report("E4003", Clashes(scopes, x))
  /\ local_map' = Register(local_map, x, id)
  /\ used' = used \cup {"arm"} \cup Reuse(x)
               \cup Report("armReuse", Meant(x) # 0 \/ x \in DOMAIN local_map)
  /\ UNCHANGED <<registry, current, phase, module_scope, module_spans, exports, items, true_module,
                 public, faults>>

(* An arm with a wildcard or a literal binds nothing.                      *)
EnterPlainArm ==
  /\ InBody
  /\ fuel' = fuel + 1
  /\ frames' = Append(frames, "arm")
  /\ truth' = Append(truth, Nothing)
  /\ UNCHANGED <<registry, current, phase, table, module_scope, module_spans, scopes, exports,
                 local_map, errors, items, true_module, public, faults, used>>

LeaveArm ==
  /\ phase = "body" /\ Last(frames) = "arm"
  /\ frames' = Front(frames)
  /\ truth' = Front(truth)
  /\ UNCHANGED <<registry, current, phase, table, module_scope, module_spans, scopes, exports,
                 local_map, errors, items, fuel, true_module, public, faults, used>>

Next ==
  \/ \E x \in Names, pub \in BOOLEAN : Collect(x, pub)
  \/ Use \/ EndCollect \/ NextModule
  \/ \E n \in 0..2 : \E params \in [1..n -> Idents] : EnterFunc(params)
  \/ LeaveFunc
  \/ \E x \in Names : Path(x)
  \/ \E x \in Names, base \in {ModuleName} \cup Idents : Field(base, x)
  \/ \E x, y \in Idents \cup {ModuleName} : Let(x, y)
  \/ EnterBlock \/ LeaveBlock
  \/ \E x \in Idents : EnterArm(x)
  \/ EnterPlainArm \/ LeaveArm

Spec == Init /\ [][Next]_vars

-----------------------------------------------------------------------------
(* Properties                                                              *)

TypeOK ==
  /\ table \in Seq([name : Names, kind : {"item", "module", "param", "local"},
                     is_public : BOOLEAN])
  /\ module_spans \subseteq DOMAIN module_scope
  /\ \A x \in DOMAIN module_scope : table[module_scope[x]].name = x
  /\ \A i \in DOMAIN scopes : \A x \in DOMAIN scopes[i] : table[scopes[i][x]].name = x
  /\ \A x \in DOMAIN local_map : table[local_map[x]].name = x
  /\ Len(scopes) = Cardinality({i \in DOMAIN frames : frames[i] # "arm"})
  /\ Len(truth) = Len(frames)
  /\ errors \cup faults \subseteq {"E4002", "E4003", "Qualified"}

(* An item of this module, or one module 1 makes public, has the name of a *)
(* built-in function (BuiltinsCanBeHidden says what becomes of it).        *)
BuiltinHidden == Builtin \in DOMAIN true_module \cup public

(* Without bindings in arms, and if no item has a built-in function's name,*)
(* the resolver reports exactly what ADR 004 forbids: undefined names,     *)
(* names defined twice in one scope or in the module, by any mixture of    *)
(* items and imports, and symbols that the imported module does not make   *)
(* public.  Once a name has been defined twice, what it means is open, and *)
(* more may be reported.                                                   *)
ReportsExactly ==
  (registry /\ ~BuiltinHidden /\ "arm" \notin used) =>
    /\ ("E4003" \in errors) = ("E4003" \in faults)
    /\ "E4003" \notin faults => errors = faults

(* A function whose arms bind fresh names and that breaks no rule is       *)
(* accepted, and every name in it is taken for the declaration it means,   *)
(* however blocks shadow parameters, items, imports and each other.        *)
MeansWhatIsDeclared ==
  ("armReuse" \notin used /\ faults = {} /\ registry /\ ~BuiltinHidden) =>
    errors = {} /\ \A x \in Names : Meant(x) # 0 => Lookup(x) = Meant(x)

(* lower/mod.rs: local_map has no scopes.  As long as no name is declared  *)
(* while it is visible the lowering still reads the local the resolver     *)
(* found, and no local for what is an item.                                *)
LoweringMeansTheSame == (errors = {} /\ "shadow" \notin used) => "misread" \notin used

(* What a module keeps private stays so: an accepted function of the next  *)
(* module names only symbols that were declared pub.                       *)
PrivateStaysPrivate ==
  (registry /\ errors = {}) => ("Qualified" \notin faults)

(* ADR 004: a program that breaks none of its rules is accepted, and its   *)
(* names mean what they mean there, two arms that bind the same name       *)
(* included.                                                               *)
ArmsAreScopes == (registry /\ ~BuiltinHidden /\ faults = {}) => errors = {}

(* ADR 004: built-in names come last and can be hidden; no name is         *)
(* reserved ("不引入“保留名字”列表", docs/adr/004:178).                   *)
BuiltinsCanBeHidden == (registry /\ faults = {} /\ "arm" \notin used) => errors = {}

(* builder.rs: in `x := x + 1` the x on the right is the outer one, for    *)
(* the lowering as well.                                                   *)
ShadowingKept == errors = {} => "misread" \notin used
=============================================================================
