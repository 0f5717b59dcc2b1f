----------------------------- MODULE TypeCheck -----------------------------
(***************************************************************************)
(* The type checker (frontend/typecheck): the types and signatures of a    *)
(* module are collected in one pass over its items, its functions checked  *)
(* in a second one.                                                        *)
(*                                                                         *)
(* The module under check has two unions, a struct, three functions and a  *)
(* function f whose signature and body are chosen.  check_expr is a        *)
(* function of an expression and of what TypeChecker holds while it walks: *)
(* [scopes, flag, bad, ty], where flag is branch_in_stmt_pos, bad the      *)
(* kinds of errors emitted and ty the type returned last.  Spans and       *)
(* messages are left out.                                                  *)
(*                                                                         *)
(* Next to it stands what an execution may do: Yields collects the kinds   *)
(* of values that an expression may have.                                  *)
(***************************************************************************)
EXTENDS Naturals, Sequences, FiniteSets, SequencesExt

CONSTANT Trusted    \* gaps between checker and documents to be taken as if they were none

Gaps == {"operators", "literals", "bits", "calls", "returns", "never", "arms", "bindings", "conditions",
         "patterns", "indices", "loops", "bare", "slices", "shared", "order", "propagation"}

ASSUME TypeCheckAssumption == Trusted \subseteq Gaps

VARIABLES
  order,      \* the items of the module, in order; f comes last
  first,      \* the union that a walk over the HashMap of unions meets first
  next,       \* the next item to collect
  unions,     \* type_ctx.unions: the names registered so far
  structs,    \* type_ctx.structs: name -> field -> type
  funcs,      \* type_ctx.funcs: name -> Type::Func
  checked     \* f and what checking it came to, if it has been checked

vars == <<order, first, next, unions, structs, funcs, checked>>

-----------------------------------------------------------------------------
(* Types (types.rs)                                                        *)

Type(tag, name, of) == [tag |-> tag, name |-> name, of |-> of]
Prim(tag) == Type(tag, "", <<>>)
I32 == Prim("i32")
I64 == Prim("i64")
F64 == Prim("f64")
Str == Prim("str")
Bool == Prim("bool")
Void == Prim("void")
Never == Prim("never")
Unknown == Prim("unknown")
Func(ret, params) == Type("Func", "", <<ret>> \o params)
ErrUnion == Type("ErrUnion", "", <<I32, Str>>)
Borrow == Type("Borrow", "", <<I32>>)
Slice == Type("Slice", "", <<I32>>)
Array(elem) == Type("Array", "", <<elem>>)
Union(name) == Type("Union", name, <<>>)
Struct(name) == Type("Struct", name, <<>>)

IsNumeric(t) == t.tag \in {"i32", "i64", "f64"}
ToSlice(from, to) == from.tag = "Array" /\ to.tag = "Slice" /\ from.of = to.of

(* is_assignable                                                           *)
IsAssignable(from, to) == from = to \/ Unknown \in {from, to} \/ ToSlice(from, to)

(* resolve_type_expr: a name that is not registered yet becomes a struct.  *)
Resolve(t) == IF t.tag = "Union" /\ t.name \notin unions THEN Struct(t.name) ELSE t

-----------------------------------------------------------------------------
(* The declarations of the module.  U shares its variant A with W.         *)

Variants == [U |-> [A |-> Void, B |-> I32, C |-> Void], W |-> [A |-> Void]]
Fields == [x |-> I32, u |-> Union("U")]
Sigs == [g |-> Func(I32, <<I32>>), h |-> Func(Union("U"), <<>>), read |-> Func(ErrUnion, <<>>),
         print |-> Func(Void, <<Str>>)]
Params == {I32, I64, F64, Str, Bool, Borrow, Slice, Array(I32), Struct("S"), Union("U"), ErrUnion}
Returns == {Void, I32, Slice, Union("U"), ErrUnion}

(* find_variant_union                                                      *)
Owners(v) == {n \in unions : v \in DOMAIN Variants[n]}
Owner(v) == IF first \in Owners(v) THEN first ELSE CHOOSE n \in Owners(v) : TRUE

-----------------------------------------------------------------------------
(* The syntax (ast/node.rs): expressions, statements, and the arms of a    *)
(* branch, whose last child is the body.                                   *)

Tree(tag, word, kids) == [tag |-> tag, word |-> word, kids |-> kids]
Literal(t) == Tree("Literal", t.tag, <<>>)
Path(x) == Tree("Path", x, <<>>)
Op(op, kids) == Tree("Op", op, kids)
Call(f, args) == Tree("Call", "", <<Path(f)>> \o args)
Block(stmts) == Tree("Block", "", stmts)
Variant(v, payload) == Tree("Variant", v, payload)
Ret(value) == Tree("Ret", "", value)
Match(x, arms) == Tree("Branch", "is", <<x>> \o arms)
Chain(arms) == Tree("Branch", "", arms)
Arm(pattern, before, body) == Tree("Arm", pattern, Append(before, body))
Let(x, init) == Tree("Let", x, <<init>>)
LetAs(x, ty, init) == Tree("Let", x, <<init, Tree("As", ty, <<>>)>>)

Annotation == [i32 |-> I32, i64 |-> I64, slice |-> Slice, U |-> Union("U")]
Body(arm) == Last(arm.kids)
Bindings(arm) == IF arm.word = "cond" THEN {} ELSE {x.word : x \in Range(Front(arm.kids))}
ArmsOf(e) == IF e.word = "is" THEN Tail(e.kids) ELSE e.kids
IsExpr(s) == s.tag \notin {"Let", "Assign", "Defer"}

-----------------------------------------------------------------------------
(* The checker (checker.rs)                                                *)

(* The type t is returned.                                                 *)
Typed(c, t) == [c EXCEPT !.ty = t]

(* An error is emitted unless ok, and then the type is t.                  *)
Demand(c, ok, what, t, otherwise) ==
  IF ok THEN Typed(c, t) ELSE [c EXCEPT !.ty = otherwise, !.bad = @ \cup {what}]

PushScope(c) == [c EXCEPT !.scopes = Append(@, <<>>)]
PopScope(c) == [c EXCEPT !.scopes = Front(@)]
DefineVar(c, x, t) == [c EXCEPT !.scopes[Len(c.scopes)] = (x :> t) @@ @]

(* lookup_var                                                              *)
LookupVar(c, x) ==
  LET having == {i \in DOMAIN c.scopes : x \in DOMAIN c.scopes[i]}
  IN IF having = {} THEN Unknown ELSE c.scopes[Max(having)][x]

(* Expr::Path: a variable of an unknown type is looked up as a function.   *)
PathType(c, x) ==
  IF LookupVar(c, x) # Unknown THEN LookupVar(c, x)
  ELSE IF x \in DOMAIN funcs THEN funcs[x] ELSE Unknown

LeftThere(c) == c
NotHandedOn(c, pos) == c

(* branch_in_stmt_pos is taken away (mem::take) and handed on.             *)
Taken(c) == [c EXCEPT !.flag = FALSE]
HandedOn(c, pos) == [c EXCEPT !.flag = pos]

(* check_binop and Expr::Unary                                             *)
Operate(c, op, l, r) ==
  CASE op = "+" -> Demand(c, l = r /\ IsNumeric(l), "operands", l, Unknown)
    [] op = "==" -> Demand(c, l = r, "operands", Bool, Bool)
    [] op = "&" ->
         Demand(c, (l = r \/ Unknown \in {l, r}) /\ (IsNumeric(l) \/ l = Unknown), "operands", l, Unknown)
    [] op = "-" -> Demand(c, IsNumeric(l) \/ l = Unknown, "operand", l, Unknown)
    [] op \in {"not", "~"} -> Demand(c, FALSE, "operator", Unknown, Unknown)
    [] OTHER -> Typed(c, Unknown)

(* What has to be a type that holds another one.                           *)
Hold(c, tags, what) ==
  Demand(c, c.ty.tag \in tags \cup {"unknown"}, what, IF c.ty = Unknown THEN Unknown ELSE c.ty.of[1], Unknown)

FieldType(c, name) ==
  Demand(c, c.ty.tag = "Struct" /\ c.ty.name \in DOMAIN structs /\ name \in DOMAIN structs[c.ty.name], "field",
         structs[c.ty.name][name], Unknown)

(* Expr::VariantConstructor                                                *)
Construct(c, v, given) ==
  LET fits(t) == IF given THEN c.ty \in {t, Unknown} ELSE t = Void
      inner == IF v = "Ok" THEN c.ret.of[1] ELSE c.ret.of[2]
  IN CASE Owners(v) # {} ->
            Demand(c, fits(Variants[Owner(v)][v]), "payload", Union(Owner(v)), Union(Owner(v)))
       [] Owners(v) = {} /\ v \in {"Ok", "Err"} /\ c.ret.tag = "ErrUnion" ->
            Demand(c, fits(inner), "payload", c.ret, c.ret)
       [] OTHER -> Demand(c, FALSE, "variant", Unknown, Unknown)

RECURSIVE Check(_, _), CheckStmt(_, _)

(* The types of a branch's arms, without never and unknown.                *)
CheckArms(c, pos, arms) ==
  FoldLeft(LAMBDA acc, arm :
             LET inner == FoldSet(LAMBDA x, d : DefineVar(d, x, Unknown), PushScope(acc.c), Bindings(arm))
                 body == Check(HandedOn(inner, pos), Body(arm))
             IN [c |-> PopScope(body), types |-> acc.types \cup ({body.ty} \ {Never, Unknown})],
           [c |-> c, types |-> {}], arms)

CheckBranch(c, pos, e) ==
  LET arms == CheckArms(IF e.word = "is" THEN Check(c, e.kids[1]) ELSE c, pos, ArmsOf(e))
      one == IF Cardinality(arms.types) = 1 THEN CHOOSE t \in arms.types : TRUE ELSE Unknown
  IN Demand(arms.c, pos \/ Void \notin arms.types \/ arms.types = {Void}, "arms", one, Unknown)

(* Expr::Block: its last expression inherits the position of the block.    *)
CheckBlock(c, pos, stmts) ==
  LET front == FoldLeft(CheckStmt, PushScope(c), Front(stmts))
      tail == Check(HandedOn(front, pos), Last(stmts))
  IN CASE stmts = <<>> -> Typed(c, Void)
       [] stmts # <<>> /\ IsExpr(Last(stmts)) -> PopScope(tail)
       [] OTHER -> Typed(PopScope(CheckStmt(front, Last(stmts))), Void)

CheckArray(c, elements) ==
  LET head == Check(c, Head(elements))
      rest == FoldLeft(LAMBDA d, x :
                         LET one == Check(d, x)
                         IN Demand(one, one.ty = head.ty \/ Unknown \in {one.ty, head.ty}, "element", one.ty, one.ty),
                       head, Tail(elements))
  IN Typed(rest, Array(head.ty))

(* check_expr                                                              *)
Check(c0, e) ==
  LET pos == c0.flag
      c == Taken(c0)
      one == Check(c, e.kids[1])
      two == Check(one, e.kids[2])
      all == FoldLeft(Check, c, e.kids)
  IN CASE e.tag = "Literal" -> Typed(c, Prim(e.word))
       [] e.tag = "Path" -> Typed(c, PathType(c, e.word))
       [] e.tag = "Op" /\ Len(e.kids) = 1 -> Operate(one, e.word, one.ty, one.ty)
       [] e.tag = "Op" /\ Len(e.kids) = 2 -> Operate(two, e.word, one.ty, two.ty)
       [] e.tag = "Call" -> Typed(all, IF one.ty.tag = "Func" THEN one.ty.of[1] ELSE Unknown)
       [] e.tag = "Field" -> FieldType(one, e.word)
       [] e.tag = "Deref" -> Hold(one, {"Borrow", "Own"}, "deref")
       [] e.tag = "Index" -> Hold([two EXCEPT !.ty = one.ty], {"Array", "Slice"}, "index")
       [] e.tag = "Propagate" -> Hold(one, {"ErrUnion"}, "propagate")
       [] e.tag = "Block" -> CheckBlock(c, pos, e.kids)
       [] e.tag = "Branch" -> CheckBranch(c, pos, e)
       [] e.tag = "Loop" -> Typed(all, Void)
       [] e.tag \in {"Ret", "Stop", "Skip"} -> Typed(all, Never)
       [] e.tag = "Array" -> CheckArray(c, e.kids)
       [] e.tag = "Variant" -> Construct(all, e.word, e.kids # <<>>)

(* check_stmt                                                              *)
CheckStmt(c, s) ==
  LET init == Check(c, s.kids[1])
      value == Check(init, s.kids[2])
      ty == IF Len(s.kids) = 2 THEN Resolve(Annotation[s.kids[2].word]) ELSE init.ty
  IN CASE s.tag = "Let" ->
            LET d == Demand(init, IsAssignable(init.ty, ty), "annotation", ty, ty) IN DefineVar(d, s.word, ty)
       [] s.tag = "Assign" -> Demand(value, IsAssignable(value.ty, init.ty), "assignment", Void, Void)
       [] s.tag = "Defer" -> HandedOn(Check(HandedOn(c, TRUE), s.kids[1]), FALSE)
       [] OTHER -> HandedOn(Check(HandedOn(c, TRUE), s), FALSE)

(* check_func                                                              *)
CheckFunc(param, ret, body) ==
  LET c == [scopes |-> <<[a |-> Resolve(param)]>>, flag |-> FALSE, bad |-> {}, ty |-> Void, ret |-> Resolve(ret)]
      b == Check(c, body)
  IN PopScope(Demand(b, b.ty \in {Never, Unknown, c.ret}, "return", b.ty, b.ty))

-----------------------------------------------------------------------------
(* What an execution does.  Yields follows every path through an           *)
(* expression and collects in r.kinds the types of the values it may have  *)
(* (none, if it never has one); r.wrong says that some path goes wrong,    *)
(* and r.gaps where the checker is known to differ from the documents.     *)
(* Nothing here is found by position or by flags: use says what becomes of *)
(* the value, "value", "none", or "loop" for the tail of a loop's body.    *)

Wrong(r, what) == [r EXCEPT !.wrong = @ \/ what]
Gap(r, gap, what) == IF gap \in Trusted THEN Wrong(r, what) ELSE [r EXCEPT !.gaps = @ \cup {gap}]
GapIf(r, gap, what) == IF what THEN Gap(r, gap, TRUE) ELSE r
Value(r, kinds) == [r EXCEPT !.kinds = kinds]
WithVar(r, x, kinds, bound) == [r EXCEPT !.env = (x :> [kinds |-> kinds, bound |-> bound]) @@ @]

Misfit(kinds, ty) == \E k \in kinds : k # ty /\ ~ToSlice(k, ty)

(* A place of type ty gets the value of e; conv: an array may be a slice.  *)
Receive(r, e, ty, conv) ==
  CASE r.kinds = {} -> Gap(r, "never", FALSE)
    [] r.kinds # {} /\ ty = I64 /\ e = Literal(I32) -> Gap(r, "literals", FALSE)
    [] r.kinds # {} /\ ~conv /\ \E k \in r.kinds : ToSlice(k, ty) -> Gap(r, "slices", FALSE)
    [] OTHER -> Wrong(r, Misfit(r.kinds, ty))

Place(name) == SelectInSeq(order, LAMBDA item : item = name)
Late(name) == Place("U") > Place(name)

VariableOrFunction(r, x) ==
  IF x \in DOMAIN r.env
  THEN LET v == Value(r, r.env[x].kinds) IN IF r.env[x].bound THEN Gap(v, "bindings", FALSE) ELSE v
  ELSE LET f == Value(r, {Sigs[x]}) IN IF x = "h" /\ Late(x) THEN Gap(f, "order", FALSE) ELSE f

Numbers(kinds) == \A k \in kinds : IsNumeric(k)

Compute(r, op, l, rr, literal) ==
  LET both == l \cup rr mixed == Cardinality(both) > 1 IN
  CASE l = {} \/ rr = {} -> Gap(Value(r, {}), "never", FALSE)
    [] l # {} /\ rr # {} /\ literal /\ both = {I32, I64} -> Gap(Value(r, {I64}), "literals", FALSE)
    [] OTHER ->
         CASE op = "+" -> Wrong(Value(r, l), mixed \/ ~Numbers(both))
           [] op = "==" -> Wrong(Value(r, {Bool}), mixed)
           [] op = "&" -> GapIf(Wrong(Value(r, l), mixed \/ ~Numbers(both)), "bits", F64 \in both)
           [] op = "-" -> Wrong(Value(r, l), ~Numbers(both))
           [] op = "~" -> Gap(Value(r, l), "operators", ~Numbers(both))
           [] op = "not" -> Gap(Value(r, {Bool}), "operators", both # {Bool})
           [] op = "and" -> Gap(Value(r, {Bool}), "operators", both # {Bool})
           [] op = "%" -> Gap(Value(r, l), "operators", mixed \/ ~Numbers(both))

(* The value is inside values with one of the tags.                        *)
Inside(r, tags) ==
  IF r.kinds = {} THEN Gap(r, "never", FALSE)
  ELSE Wrong(Value(r, {k.of[1] : k \in {k \in r.kinds : k.tag \in tags}}), \E k \in r.kinds : k.tag \notin tags)

FieldOf(r, name) ==
  LET structure == r.kinds \subseteq {Struct("S")} /\ name \in DOMAIN Fields
      v == Wrong(Value(r, IF structure THEN {Fields[name]} ELSE {}), ~structure)
  IN CASE r.kinds = {} -> Gap(r, "never", FALSE)
       [] r.kinds # {} /\ structure /\ name = "u" /\ Late("S") -> Gap(v, "order", FALSE)
       [] OTHER -> v

Built(r, v, payload) ==
  LET owners == {n \in DOMAIN Variants : v \in DOMAIN Variants[n]}
      given(ty) == IF payload = <<>> THEN Wrong(r, ty # Void) ELSE Receive(r, payload[1], ty, FALSE)
      error == v \in {"Ok", "Err"} /\ r.ret = ErrUnion
  IN CASE Cardinality(owners) = 1 -> LET n == CHOOSE n \in owners : TRUE IN Value(given(Variants[n][v]), {Union(n)})
       [] Cardinality(owners) > 1 ->
            Gap(Value(given(Void), IF r.ret.name \in owners THEN {r.ret} ELSE {Union("U")}), "shared", FALSE)
       [] owners = {} /\ error -> Value(given(r.ret.of[IF v = "Ok" THEN 1 ELSE 2]), {ErrUnion})
       [] OTHER -> Wrong(r, TRUE)

RECURSIVE Yields(_, _, _), Runs(_, _)

(* What an arm's pattern gives its names, and what it asks of the value.   *)
Entered(r, arm, kinds) ==
  LET x == Head(arm.kids)
      cond == Yields([r EXCEPT !.wrong = FALSE], x, "value")
      payload(k) == CASE k.tag = "Union" -> Variants[k.name][arm.word]
                      [] k.tag = "ErrUnion" -> k.of[IF arm.word = "Ok" THEN 1 ELSE 2]
      has(k) == \/ k.tag = "Union" /\ arm.word \in DOMAIN Variants[k.name]
                \/ k.tag = "ErrUnion" /\ arm.word \in {"Ok", "Err"}
  IN CASE arm.word = "cond" -> GapIf([r EXCEPT !.gaps = cond.gaps], "conditions", cond.wrong \/ cond.kinds # {Bool})
       [] arm.word = "bind" -> WithVar(r, x.word, kinds, TRUE)
       [] OTHER ->
            LET q == GapIf(r, "patterns", ~\A k \in kinds : has(k))
            IN IF Bindings(arm) = {} THEN q
               ELSE WithVar(q, x.word, {payload(k) : k \in {k \in kinds : has(k)}}, TRUE)

Branches(r, e, use) ==
  LET matched == IF e.word = "is" THEN Yields(r, e.kids[1], "value") ELSE Value(r, {})
      done == FoldLeft(LAMBDA acc, arm :
                         LET body == Yields(Entered([acc EXCEPT !.env = r.env], arm, matched.kinds), Body(arm), use)
                         IN Value(body, acc.kinds \cup body.kinds),
                       Value(matched, {}), ArmsOf(e))
      mixed == Cardinality(done.kinds) > 1
      out == [done EXCEPT !.env = r.env]
  IN CASE mixed /\ use = "value" /\ Void \in done.kinds -> Wrong(out, TRUE)
       [] mixed /\ use = "loop" /\ Void \in done.kinds -> Gap(out, "loops", FALSE)
       [] mixed /\ use # "none" /\ Void \notin done.kinds -> Gap(out, "arms", use = "value")
       [] OTHER -> out

Elements(r, es) ==
  LET all == FoldLeft(LAMBDA acc, e : LET x == Yields(acc.r, e, "value")
                                     IN [r |-> x, kinds |-> Append(acc.kinds, x.kinds)],
                      [r |-> r, kinds |-> <<>>], es)
      some == UNION Range(all.kinds)
  IN IF {} \in Range(all.kinds) THEN Gap(Value(all.r, {}), "never", FALSE)
     ELSE Wrong(Value(all.r, {Array(k) : k \in some}), Cardinality(some) > 1)

Applied(r, callee, args) ==
  LET done == FoldLeft(LAMBDA acc, e : LET x == Yields(acc.r, e, "value")
                                      IN [r |-> x, kinds |-> Append(acc.kinds, x.kinds)],
                       [r |-> r, kinds |-> <<>>], args)
      fits(f) == /\ f.tag = "Func" /\ Len(args) = Len(f.of) - 1
                 /\ \A i \in DOMAIN args : args[i] = Literal(I32) \/ ~Misfit(done.kinds[i], f.of[i + 1])
      bad == \E f \in callee : ~fits(f)
      out == Value(done.r, {f.of[1] : f \in {f \in callee : f.tag = "Func"}})
  IN IF callee = {} THEN Gap(out, "never", FALSE) ELSE GapIf(out, "calls", bad)

Yields(r, e, use) ==
  LET one == Yields(r, e.kids[1], "value")
      two == Yields(one, e.kids[2], "value")
      literal == \E i \in DOMAIN e.kids : e.kids[i] = Literal(I32)
      returned == GapIf(one, "returns", r.ret # ErrUnion /\ Misfit(one.kinds, r.ret))
      around == IF Len(e.kids) = 2 THEN GapIf(one, "conditions", one.kinds # {Bool}) ELSE r
  IN CASE e.tag = "Literal" -> Value(r, {Prim(e.word)})
       [] e.tag = "Path" -> VariableOrFunction(r, e.word)
       [] e.tag = "Op" /\ Len(e.kids) = 1 -> Compute(one, e.word, one.kinds, one.kinds, FALSE)
       [] e.tag = "Op" /\ Len(e.kids) = 2 -> Compute(two, e.word, one.kinds, two.kinds, literal)
       [] e.tag = "Call" -> Applied(one, one.kinds, Tail(e.kids))
       [] e.tag = "Field" -> FieldOf(one, e.word)
       [] e.tag = "Deref" -> Inside(one, {"Borrow", "Own"})
       [] e.tag = "Index" -> Inside(Value(GapIf(two, "indices", two.kinds # {I32}), one.kinds), {"Array", "Slice"})
       [] e.tag = "Propagate" -> Inside(GapIf(one, "propagation", r.ret # ErrUnion), {"ErrUnion"})
       [] e.tag = "Block" /\ e.kids = <<>> -> Value(r, {Void})
       [] e.tag = "Block" /\ e.kids # <<>> ->
            LET front == FoldLeft(Runs, r, Front(e.kids))
                tail == IF IsExpr(Last(e.kids)) THEN Yields(front, Last(e.kids), use)
                        ELSE Value(Runs(front, Last(e.kids)), {Void})
            IN [tail EXCEPT !.env = r.env]
       [] e.tag = "Branch" -> Branches(r, e, use)
       [] e.tag = "Loop" -> Value(Yields(around, Last(e.kids), "loop"), {Void})
       [] e.tag = "Ret" -> Value(IF e.kids = <<>> THEN GapIf(r, "returns", r.ret # Void) ELSE returned, {})
       [] e.tag \in {"Stop", "Skip"} -> Value(r, {})
       [] e.tag = "Array" -> Elements(r, e.kids)
       [] e.tag = "Variant" -> Built(IF e.kids = <<>> THEN r ELSE one, e.word, e.kids)

(* A statement.                                                            *)
Runs(r, s) ==
  LET init == Yields(r, s.kids[1], "value")
      ty == Annotation[s.kids[2].word]
      value == Yields(init, s.kids[2], "value")
  IN CASE s.tag = "Let" /\ Len(s.kids) = 1 -> WithVar(init, s.word, init.kinds, FALSE)
       [] s.tag = "Let" /\ Len(s.kids) = 2 -> WithVar(Receive(init, s.kids[1], ty, TRUE), s.word, {ty}, FALSE)
       [] s.tag = "Assign" ->
            IF init.kinds = {} THEN Gap(value, "never", FALSE)
            ELSE Receive(value, s.kids[2], CHOOSE k \in init.kinds : TRUE, TRUE)
       [] s.tag = "Defer" -> Yields(r, s.kids[1], "none")
       [] OTHER -> Yields(r, s, "none")

(* The value of the body is what the function returns.                     *)
RunFunc(param, ret, body) ==
  LET r == [env |-> [a |-> [kinds |-> {param}, bound |-> FALSE]], ret |-> ret, kinds |-> {}, wrong |-> FALSE, gaps |-> {}]
      b == Yields(r, body, "value")
  IN IF b.kinds = {} THEN b
     ELSE IF ret = ErrUnion /\ b.kinds \cap {I32} # {} THEN Gap(b, "bare", b.kinds \ {I32, ret} # {})
     ELSE Receive(b, body, ret, FALSE)

-----------------------------------------------------------------------------
(* Bodies                                                                  *)

One == Literal(I32)
Text == Literal(Str)
A == Path("a")
Say(x) == Call("print", <<x>>)

Simple ==
  {One, Text, A, Call("g", <<A>>), Call("g", <<One>>), Call("h", <<>>), Call("read", <<>>), Say(A), Say(Text),
   Variant("A", <<>>), Variant("B", <<>>), Variant("B", <<A>>), Variant("C", <<>>), Variant("C", <<A>>),
   Variant("Ok", <<A>>), Variant("Err", <<Text>>), Ret(<<>>), Ret(<<A>>), Tree("Stop", "", <<>>)} \cup
  {Op(op, <<A>>) : op \in {"-", "not", "~"}} \cup
  {Op(op, <<x, y>>) : op \in {"+", "==", "&", "and", "%"}, x \in {A, One}, y \in {A, One}} \cup
  {Tree("Field", f, <<A>>) : f \in {"x", "u", "z"}} \cup
  {Tree(tag, "", <<A>>) : tag \in {"Deref", "Propagate"}} \cup
  {Tree("Index", "", <<A, i>>) : i \in {One, Text}} \cup
  {Tree("Array", "", <<x, y>>) : x \in {A, One}, y \in {One, Text}}

Mix == Match(A, <<Arm("bind", <<Path("b")>>, One), Arm("bind", <<Path("b")>>, Say(Text))>>)
ArmBodies ==
  {One, Say(Text), Text, A, Ret(<<A>>), Mix, Block(<<Mix>>), Block(<<Mix, One>>), Call("g", <<Mix>>),
   Block(<<Let("a", Text), A>>), Block(<<Tree("Assign", "", <<A, One>>)>>), Tree("Loop", "", <<Block(<<Mix>>)>>)}

Branching ==
  {Match(A, <<Arm("bind", <<Path("a")>>, x), Arm("bind", <<Path("b")>>, y)>>) : x \in ArmBodies, y \in {One, Say(Text)}} \cup
  {Chain(<<Arm("cond", <<Op("==", <<A, One>>)>>, x), Arm("bind", <<Path("b")>>, y)>>) : x \in {One, Say(Text)}, y \in ArmBodies} \cup
  {Match(A, <<Arm("B", <<Path("a")>>, x), Arm("Ok", <<Path("b")>>, One)>>) : x \in {One, A}} \cup
  {Chain(<<Arm("cond", <<A>>, Ret(<<A>>))>>), Match(A, <<Arm("bind", <<Path("b")>>, Op("+", <<Path("b"), One>>))>>)}

Parts == Simple \cup Branching

Bodies ==
  LET wrapped(e) ==
        {e, Block(<<e>>), Block(<<Let("b", e), Block(<<>>)>>), Block(<<e, A>>), Block(<<Let("b", e), Path("b")>>), Block(<<Let("a", e), A>>),
         Block(<<Block(<<Let("a", e)>>), A>>), Block(<<Tree("Assign", "", <<A, e>>), A>>), Block(<<Tree("Defer", "", <<e>>), One>>),
         Tree("Loop", "", <<Block(<<e>>)>>), Tree("Loop", "", <<e, Block(<<One>>)>>), Op("+", <<e, One>>), Say(e),
         Tree("Array", "", <<e, One>>), Variant("B", <<e>>), Ret(<<e>>),
         Match(e, <<Arm("bind", <<Path("b")>>, A)>>), Block(<<Let("g", e), Call("g", <<A>>)>>)} \cup
        {Block(<<LetAs("b", ty, e), Path("b")>>) : ty \in DOMAIN Annotation}
  IN UNION {wrapped(e) : e \in Parts}

-----------------------------------------------------------------------------
(* check_module                                                            *)

Unchecked == [param |-> Void, ret |-> Void, body |-> Block(<<>>), bad |-> {}]

(* register_builtins                                                       *)
Init ==
  /\ \/ order = <<"W", "U", "S", "g", "h", "read">> /\ first \in {"U", "W"}
     \/ order = <<"h", "S", "U", "W", "g", "read">> /\ first = "U"
  /\ next = 1
  /\ unions = {} /\ structs = <<>> /\ funcs = [print |-> Sigs.print]
  /\ checked = Unchecked

CollectUnion ==
  /\ next <= Len(order) /\ order[next] \in DOMAIN Variants
  /\ unions' = unions \cup {order[next]}
  /\ next' = next + 1
  /\ UNCHANGED <<order, first, structs, funcs, checked>>

CollectStruct ==
  /\ next <= Len(order) /\ order[next] = "S"
  /\ structs' = (order[next] :> [f \in DOMAIN Fields |-> Resolve(Fields[f])]) @@ structs
  /\ next' = next + 1
  /\ UNCHANGED <<order, first, unions, funcs, checked>>

CollectFunc ==
  /\ next <= Len(order) /\ order[next] \in DOMAIN Sigs
  /\ funcs' = (order[next] :> [Sigs[order[next]] EXCEPT !.of = [i \in DOMAIN @ |-> Resolve(@[i])]]) @@ funcs
  /\ next' = next + 1
  /\ UNCHANGED <<order, first, unions, structs, checked>>

(* The second pass; f is the function that is not given.                   *)
CheckF ==
  /\ next = Len(order) + 1
  /\ \E param \in Params, ret \in Returns, body \in Bodies :
       checked' = [param |-> param, ret |-> ret, body |-> body, bad |-> CheckFunc(param, ret, body).bad]
  /\ next' = next + 1
  /\ UNCHANGED <<order, first, unions, structs, funcs>>

Next == CollectUnion \/ CollectStruct \/ CollectFunc \/ CheckF

Spec == Init /\ [][Next]_vars

-----------------------------------------------------------------------------
(* Properties                                                              *)

Run == RunFunc(checked.param, checked.ret, checked.body)
Done == next > Len(order) + 1

(* checker.rs: a function without an error never goes wrong: whatever path *)
(* is taken, every variable, operand, field, payload and result is of its  *)
(* type, and no place that uses a branch's value is left without one.      *)
AcceptedNeverGoesWrong == Done /\ checked.bad = {} /\ Run.gaps = {} => ~Run.wrong

(* checker.rs: a function with an error goes wrong on some path; a branch  *)
(* whose value is thrown away may mix its arms, however deep it is nested. *)
RejectedForAReason == Done /\ checked.bad # {} /\ Run.gaps = {} => Run.wrong
=============================================================================
