------------------------------- MODULE Parser -------------------------------
(***************************************************************************)
(* The parser (frontend/parser): the loop over the items of a file, and    *)
(* the recursive descent with operator precedence below it, on programs    *)
(* written by a grammar of the language, whole or with one token changed.  *)
(*                                                                         *)
(* A step of the machine is one round of parse()'s loop.  What happens     *)
(* inside is a function of the tokens and of a cursor, [p, bad]: the       *)
(* position and the places where something else was expected.  A result    *)
(* is a cursor with the tree that was read, e.  The tree keeps the kind of *)
(* a node and its children, and the words on the leaves; spans, comments   *)
(* and the wording of the messages are left out.                           *)
(***************************************************************************)
EXTENDS Grammar

VARIABLES
  toks,       \* the tokens, the last of them "eof"
  at,         \* position of the next token
  items,      \* the items parsed so far
  errors,     \* positions with an error
  want        \* the items that were written, or <<>> if a token was changed

vars == <<toks, at, items, errors, want>>

-----------------------------------------------------------------------------
(* The cursor (parser_impl.rs)                                             *)

At(c) == toks[c.p]

(* peek_ahead                                                              *)
Ahead(c, n) == IF c.p + n <= Len(toks) THEN toks[c.p + n] ELSE "eof"

(* bump                                                                    *)
Skip(c) == IF At(c) = "eof" THEN c ELSE [c EXCEPT !.p = @ + 1]

Node(c, e) == [e |-> e, p |-> c.p, bad |-> c.bad]

(* The tree that was read, under a node, behind another one, or as what    *)
(* may be missing.                                                         *)
Wrap(r, tag) == Node(r, Tree(tag, <<r.e>>))
Pair(left, tag, r) == Node(r, Tree(tag, <<left.e, r.e>>))
Given(r) == Node(r, Opt(r.e))
Added(kids, tree, r) == Node(r, Append(Append(kids, tree), r.e))

(* unexpected: an error, without a move.                                   *)
Unexpected(c) == [c EXCEPT !.bad = @ \cup {c.p}]

(* eat_punct, eat_keyword                                                  *)
Eat(c, t) == IF At(c) = t THEN Skip(c) ELSE c

(* expect_punct                                                            *)
Expect(c, t) == IF At(c) = t THEN Skip(c) ELSE Unexpected(c)

(* recover_to_item                                                         *)
Recover(c) ==
  [c EXCEPT !.p = CHOOSE q \in c.p..Len(toks) :
                    /\ toks[q] \in {"::", "eof"}
                    /\ \A r \in c.p..(q - 1) : toks[r] # "::"]

(* A label after `stop @` or `skip @`.                                     *)
Label(c) ==
  IF At(c) # "@" THEN Node(c, None)
  ELSE IF Ahead(c, 1) \in Idents THEN Node(Skip(Skip(c)), Opt(Name(Ahead(c, 1))))
  ELSE Node(Unexpected(Skip(c)), None)

-----------------------------------------------------------------------------
(* Expressions (expr.rs)                                                   *)

(* binding_power, and the powers of `and` and `or`                         *)
Punctuation == {",", "==", "!=", "<", "<=", ">", ">=", "&", "|", "<<", ">>", "+", "-", "*", "/", "%"}

Power == [op \in Punctuation \cup {"and", "or"} |->
            CASE op = "," -> 5 [] op = "or" -> 10 [] op = "and" -> 15
              [] op \in {"==", "!="} -> 20 [] op \in {"<", "<=", ">", ">="} -> 30
              [] op \in {"&", "|"} -> 40 [] op \in {"<<", ">>"} -> 50
              [] op \in {"+", "-"} -> 60 [] op \in {"*", "/", "%"} -> 70]

RECURSIVE Expr(_, _), Infix(_, _), Prefix(_), Postfix(_), Several(_, _, _, _), Block(_),
          Arms(_, _), Statements(_, _), Guards(_, _, _), Type(_)

(* parse_expr_bp: an operand, then operators that bind at least as tightly *)
(* as min, each with its right operand.                                    *)
Expr(c, min) == Infix(Postfix(Prefix(c)), min)

InfixRight(base, min) ==
  LET op == At(base) IN
  IF op \notin DOMAIN Power THEN base
  ELSE IF Power[op] < min THEN base
  ELSE Infix(Postfix(Pair(base, op, Expr(Skip(base), Power[op]))), min)

Infix(base, min) ==
  LET op == At(base) IN
  IF op \notin DOMAIN Power THEN base
  ELSE IF Power[op] < min THEN base
  ELSE Infix(Postfix(Pair(base, op, Expr(Skip(base), Power[op] + 1))), min)

(* parse_ret                                                               *)
Ret(c) ==
  IF At(Skip(c)) \in {"}", ";", "eof"} THEN Node(Skip(c), Tree("Ret", <<>>)) ELSE Wrap(Expr(Skip(c), 10), "Ret")

(* parse_stop; `skip` in parse_prefix                                      *)
Jump(c, tag) == Wrap(Label(Skip(c)), tag)

(* The braces of a match and the arms between them.                        *)
MatchEnd(scrutinee, arms) == Node(Expect(arms, "}"), Tree("Branch", <<scrutinee, arms.e>>))
Match(c, scrutinee) == MatchEnd(scrutinee, Arms(Expect(c, "{"), <<>>))

CondArm(cond, body) == Tree("Arm", <<Tree("Cond", <<cond>>), body>>)

(* parse_branch                                                            *)
GuardEnd(cond, body) == Node(body, Tree("Branch", <<None, List(<<CondArm(cond, body.e)>>)>>))
BranchOn(cond) ==
  CASE At(cond) = "=>" -> GuardEnd(cond.e, Expr(Skip(cond), 0))
    [] At(cond) = "is" -> Match(Skip(cond), Opt(cond.e))
    [] OTHER -> Node(Unexpected(cond), Nil)
Branch(c) == IF At(Skip(c)) = "{" THEN Match(Skip(c), None) ELSE BranchOn(Expr(Skip(c), 10))

(* parse_loop                                                              *)
LoopEnd(label, subject, body) == Node(body, Tree("Loop", <<label, subject, body.e>>))
LoopBody(label, subject) == LoopEnd(label, subject.e, Block(subject))
LoopHead(label, c) == LoopBody(label, IF At(c) = "{" THEN Node(c, None) ELSE Given(Expr(c, 10)))
Loop(c) ==
  IF At(Skip(c)) \in Idents THEN LoopHead(Opt(Name(At(Skip(c)))), Expect(Skip(Skip(c)), "@"))
  ELSE LoopHead(None, Skip(c))

(* parse_path_or_struct_lit, on a dot                                      *)
VariantEnd(name, r) == Node(Expect(r, ")"), Tree("Variant", <<name, Opt(r.e)>>))
Variant(c) ==
  LET named == Skip(Skip(c)) name == Name(Ahead(c, 1)) IN
  IF Ahead(c, 1) \notin Idents THEN Node(Unexpected(Skip(c)), Nil)
  ELSE IF At(named) # "(" THEN Node(named, Tree("Variant", <<name, None>>))
  ELSE VariantEnd(name, Expr(Skip(named), 0))

(* parse_prefix.  The operand of an operator in front is a prefix too.     *)
(* true, false and nil are no keywords to the lexer, but identifiers.      *)
Prefix(c) ==
  LET t == At(c) next == Skip(c) IN
  CASE t \in Ints -> Node(next, Leaf("Int", t))
    [] t \in Idents -> Node(next, Leaf("Path", t))
    [] t = "ret" -> Ret(c)
    [] t = "stop" -> Jump(c, "Stop")
    [] t = "skip" -> Jump(c, "Skip")
    [] t = "?" -> Branch(c)
    [] t = "@" -> Loop(c)
    [] t = "{" -> Block(c)
    [] t = "(" -> Expect(Expr(next, 0), ")")
    [] t \in {"-", "not", "~"} -> Wrap(Prefix(next), t)
    [] t = "*" -> Wrap(Prefix(next), "Deref")
    [] t = "[" -> Wrap(Several(next, "expr", "]", <<>>), "Array")
    [] t = "." -> Variant(c)
    [] OTHER -> Node(Unexpected(c), Nil)

(* parse_postfix.  A dot before a capital opens the next pattern.          *)
Postfix(r) ==
  LET c == Skip(r) IN
  CASE At(r) = "^" -> Postfix(Node(c, Tree("Deref", <<r.e>>)))
    [] At(r) = "!" -> Postfix(Node(c, Tree("Propagate", <<r.e>>)))
    [] At(r) = "(" -> Postfix(Pair(r, "Call", Several(c, "expr", ")", <<>>)))
    [] At(r) = "[" -> Postfix(Expect(Pair(r, "Index", Expr(c, 0)), "]"))
    [] At(r) = "." /\ At(c) \in Lower -> Postfix(Node(Skip(c), Tree("Field", <<r.e, Name(At(c))>>)))
    [] At(r) = "." /\ At(c) \notin Idents -> Unexpected(c)
    [] OTHER -> r

(* One element of a list.  A parameter or a name may be missing.           *)
Param(c, m) ==
  IF At(m) \notin Idents THEN Node(Unexpected(m), Missing)
  ELSE Pair(Node(m, Name(At(m))), IF m.p = c.p THEN "Param" ELSE "MutParam", Type(Skip(m)))
One(c, kind) ==
  CASE kind = "expr" -> Expr(c, 10)
    [] kind = "type" -> Type(c)
    [] kind = "name" -> IF At(c) \in Idents THEN Node(Skip(c), Name(At(c))) ELSE Node(Unexpected(c), Missing)
    [] kind = "param" -> Param(c, Eat(c, "~"))

(* The lists between brackets: arguments, elements, bindings, payloads and *)
(* parameters.  For the last two what is missing is not reported.          *)
Complain(c, kind) == IF kind \in {"expr", "name"} THEN Unexpected(c) ELSE c

Listed(one, kind, close, kids) ==
  LET more == Append(kids, one.e) IN
  CASE one.e = Missing -> Node(one, List(kids))
    [] one.e # Missing /\ At(one) \in {",", close} -> Several(Eat(one, ","), kind, close, more)
    [] OTHER -> Node(Complain(one, kind), List(more))

Several(c, kind, close, kids) ==
  CASE At(c) = close -> Node(Skip(c), List(kids))
    [] At(c) = "eof" -> Node(Complain(c, kind), List(kids))
    [] OTHER -> Listed(One(c, kind), kind, close, kids)

-----------------------------------------------------------------------------
(* Arms and patterns                                                       *)

(* parse_pattern.  `and` and `or` do not make a condition of a name.       *)
Pattern(c) ==
  LET t == At(c) named == Skip(Skip(c)) name == Node(named, Name(Ahead(c, 1))) IN
  CASE t = "." /\ Ahead(c, 1) \notin Idents -> Node(Unexpected(Skip(c)), Leaf("Wildcard", ""))
    [] t = "." /\ Ahead(c, 1) \in Idents ->
         Pair(name, "Variant", IF At(named) = "(" THEN Several(Skip(named), "name", ")", <<>>) ELSE Node(named, None))
    [] t \in Ints -> Node(Skip(c), Tree("Lit", <<Leaf("Int", t)>>))
    [] t = "true" -> Node(Skip(c), Tree("Lit", <<Leaf("Bool", t)>>))
    [] t \in Idents \ {"true"} /\ Ahead(c, 1) \notin Punctuation -> Node(Skip(c), Leaf("Bind", t))
    [] OTHER -> Wrap(Expr(c, 0), "Cond")

(* parse_stmt_expr and the block of an arm                                 *)
ArmBody(c) ==
  CASE At(c) = "ret" -> Ret(c)
    [] At(c) \in {"stop", "skip"} -> Jump(c, IF At(c) = "stop" THEN "Stop" ELSE "Skip")
    [] OTHER -> Expr(c, 10)

(* parse_arm                                                               *)
Arm(pattern) ==
  IF At(pattern) # "=>" THEN Node(Unexpected(pattern), Tree("Arm", <<pattern.e, Nil>>))
  ELSE Pair(pattern, "Arm", ArmBody(Skip(pattern)))

(* parse_arms: an arm that reads nothing ends the list.                    *)
ArmsAfter(c, arm, more) == IF arm.p = c.p THEN Node(arm, List(more)) ELSE Arms(Eat(arm, ","), more)

Arms(c, kids) ==
  IF At(c) \in {"}", "eof"} THEN Node(c, List(kids))
  ELSE LET arm == Arm(Pattern(c)) IN ArmsAfter(c, arm, Append(kids, arm.e))

-----------------------------------------------------------------------------
(* Statements (stmt.rs) and blocks                                         *)

(* parse_stmt                                                              *)
LetEnd(tag, name, ty, init) == Node(init, LetOf(tag, name, ty, init.e))
TypedLet(name, ty) == LetEnd("Let", name, Opt(ty.e), Expr(Expect(ty, "="), 0))

StatementOn(target) ==
  LET e == target.e value == Expr(Skip(target), 0) mutable == e.tag = "~" /\ e.kids[1].tag = "Path" IN
  CASE At(target) = ":=" /\ e.tag = "Path" -> LetEnd("Let", e.word, None, value)
    [] At(target) = ":=" /\ mutable -> LetEnd("LetMut", e.kids[1].word, None, value)
    [] At(target) = "=" \/ (At(target) = ":=" /\ e.tag # "Path" /\ ~mutable) -> Pair(target, "Assign", value)
    [] OTHER -> target

Statement(c) ==
  CASE At(c) = "defer" -> Wrap(Expr(Skip(c), 0), "Defer")
    [] At(c) \in Idents /\ Ahead(c, 1) = ":" -> TypedLet(At(c), Type(Skip(Skip(c))))
    [] At(c) \in Idents /\ Ahead(c, 1) = ":=" -> LetEnd("Let", At(c), None, Expr(Skip(Skip(c)), 0))
    [] OTHER -> StatementOn(Expr(c, 0))

(* The guards at this place, one branch for all of them, and the matches   *)
(* among them, which are put into the block at once.                       *)
MatchAmong(match, arms, kids) == Guards(match, arms, Append(kids, match.e))
GuardAmong(cond, body, arms, kids) == Guards(body, Append(arms, CondArm(cond, body.e)), kids)

GuardsOn(cond, arms, kids) ==
  CASE At(cond) = "is" -> MatchAmong(Match(Skip(cond), Opt(cond.e)), arms, kids)
    [] At(cond) = "=>" -> GuardAmong(cond.e, Expr(Skip(cond), 0), arms, kids)
    [] OTHER -> [c |-> Unexpected(cond), arms |-> arms, kids |-> kids]

Guards(c, arms, kids) ==
  IF At(c) # "?" \/ Ahead(c, 1) = "{" THEN [c |-> c, arms |-> arms, kids |-> kids]
  ELSE GuardsOn(Expr(Skip(c), 10), arms, kids)

(* The loop of parse_block has come round without a move: it never ends.   *)
Forever == 0
Stuck(c, kids) == [e |-> List(kids), p |-> c.p, bad |-> c.bad \cup {Forever}]

(* A statement that reads nothing is stepped over.                         *)
NotForced(c, s) == s
Forced(c, s) == IF s.p = c.p THEN Skip(s) ELSE s

StatementsAfter(c, s, kids) ==
  IF s.p = c.p THEN Stuck(s, kids) ELSE Statements(s, Append(kids, s.e))

StatementsFrom(c, g) ==
  IF g.arms # <<>> THEN Statements(g.c, Append(g.kids, Tree("Branch", <<None, List(g.arms)>>)))
  ELSE StatementsAfter(c, Forced(g.c, Statement(g.c)), g.kids)

(* parse_block                                                             *)
Statements(c, kids) ==
  CASE At(c) = "}" -> Node(Skip(c), List(kids))
    [] At(c) = "eof" -> Node(Unexpected(c), List(kids))
    [] OTHER -> StatementsFrom(c, Guards(c, <<>>, kids))

Block(c) == Wrap(Statements(Expect(c, "{"), <<>>), "Block")

-----------------------------------------------------------------------------
(* Types and items (decl.rs)                                               *)

(* parse_type.  What is no type is read as a type without a name.          *)
Type(c) ==
  LET next == Skip(c) sized == At(next) \in Ints IN
  CASE At(c) = "own" -> Wrap(Type(Expect(next, "^")), "Own")
    [] At(c) = "^" -> Wrap(Type(next), "Borrow")
    [] At(c) = "[" -> Wrap(Type(Expect(IF sized THEN Skip(next) ELSE next, "]")), IF sized THEN "SizedArray" ELSE "Slice")
    [] At(c) \in Idents ->
         IF At(next) = "!" THEN Pair(Node(next, Leaf("Named", At(c))), "ErrUnion", Type(Skip(next)))
         ELSE Node(next, Leaf("Named", At(c)))
    [] OTHER -> Node(c, Leaf("Named", ""))

(* parse_func: parameters, result, error and body                          *)
FuncEnd(parts, body) == Node(body, Tree("Func", Append(parts, body.e)))

FuncBody(err) ==
  FuncEnd(err.e, IF At(err) # "=>" THEN Expr(Recover(Unexpected(err)), 0)
                 ELSE IF At(Skip(err)) = "{" THEN Block(Skip(err)) ELSE Expr(Skip(err), 0))

FuncError(parts, ret) ==
  FuncBody(Added(parts, ret.e, IF At(ret) = "!" THEN Given(Type(Skip(ret))) ELSE Node(ret, None)))

FuncResult(name, params) ==
  FuncError(<<name, params.e>>, IF At(params) = "=>" THEN Node(params, None) ELSE Given(Type(params)))

Func(c, name) == FuncResult(name, Several(Expect(c, "("), "param", ")", <<>>))

RECURSIVE FieldNames(_, _), Fields(_, _), Variants(_, _), Segments(_, _, _)

(* After a name, ", x" adds x to the group if a comma, the end, or a type  *)
(* that is a name comes next, and closes the group in the last case.       *)
FieldNames(c, names) ==
  LET more == Append(names, Name(Ahead(c, 1))) IN
  IF At(c) # "," \/ Ahead(c, 1) \notin Idents THEN Node(c, names)
  ELSE IF Ahead(c, 2) \in {",", "}"} THEN FieldNames(Skip(Skip(c)), more)
  ELSE IF Ahead(c, 2) \in Idents THEN Node(Skip(Skip(c)), more)
  ELSE Node(c, names)

(* The fields of a struct, one tree for those that share a type.           *)
Fields(c, kids) ==
  LET names == FieldNames(Skip(c), <<Name(At(c))>>) ty == Type(names)
  IN CASE At(c) = "}" -> Node(Skip(c), List(kids))
       [] At(c) = "eof" -> Node(c, List(kids))
       [] At(c) \in Idents -> Fields(Eat(ty, ","), Append(kids, Tree("Fields", Append(names.e, ty.e))))
       [] OTHER -> Node(Unexpected(c), List(kids))

(* parse_union                                                             *)
VariantsAfter(payload, more) ==
  IF At(payload) = "|" THEN Variants(Skip(payload), more) ELSE Node(payload, List(more))

VariantNamed(name, payload, kids) == VariantsAfter(payload, Append(kids, Tree("Variant", <<name, payload.e>>)))

Variants(c, kids) ==
  LET named == Skip(Skip(c)) IN
  IF At(c) # "." THEN Node(c, List(kids))
  ELSE IF Ahead(c, 1) \notin Idents THEN Node(Unexpected(Skip(c)), List(kids))
  ELSE VariantNamed(Name(Ahead(c, 1)),
                    IF At(named) = "(" THEN Several(Skip(named), "type", ")", <<>>) ELSE Node(named, None), kids)

(* parse_use                                                               *)
Segments(c, kids, dotted) ==
  LET first == IF At(c) \in Idents THEN Node(Skip(c), Append(kids, Name(At(c)))) ELSE Node(c, kids) IN
  IF dotted /\ At(c) \notin Idents THEN Node(Unexpected(c), List(kids))
  ELSE IF At(first) = "." THEN Segments(Skip(first), first.e, TRUE)
  ELSE Node(first, List(first.e))

FailedQuietly(c) == Node(Recover(c), Missing)
Failed(c) == Node(Recover(Unexpected(c)), Missing)

(* parse_item                                                              *)
Item(c) ==
  LET start == Eat(c, "pub")
      open == Skip(Skip(start))
      name == Name(At(start))
  IN CASE At(start) = "use" -> Wrap(Segments(Skip(start), <<>>, FALSE), "Use")
       [] At(start) \in Idents ->
            CASE Ahead(start, 1) # "::" -> Failed(Skip(start))
              [] Ahead(start, 1) = "::" /\ At(open) = "(" -> Func(open, name)
              [] Ahead(start, 1) = "::" /\ At(open) = "{" -> Pair(Node(open, name), "Struct", Fields(Skip(open), <<>>))
              [] Ahead(start, 1) = "::" /\ At(open) = "." -> Pair(Node(open, name), "Union", Variants(open, <<>>))
              [] OTHER -> Failed(open)
       [] OTHER -> Node(start, Missing)

-----------------------------------------------------------------------------
(* The file (mod.rs)                                                       *)

Init ==
  /\ \E w \in Written : toks = w.text \o <<"eof">> /\ want = w.tree
  /\ at = 1
  /\ items = <<>>
  /\ errors = {}

Result == Item([p |-> at, bad |-> {}])

(* The loop of parse() has an item.                                        *)
TakeItem ==
  /\ toks[at] # "eof"
  /\ \E r \in {Result} :
       /\ r.e # Missing /\ Forever \notin r.bad
       /\ items' = Append(items, r.e)
       /\ at' = r.p
       /\ errors' = errors \cup r.bad
  /\ UNCHANGED <<toks, want>>

(* It has none, and steps over a token.                                    *)
StepOver ==
  /\ toks[at] # "eof"
  /\ \E r \in {Result} :
       /\ r.e = Missing /\ Forever \notin r.bad
       /\ at' = Skip(r).p
       /\ errors' = errors \cup r.bad
  /\ UNCHANGED <<toks, items, want>>

Next == TakeItem \/ StepOver

Spec == Init /\ [][Next]_vars

-----------------------------------------------------------------------------
(* Properties                                                              *)

Done == toks[at] = "eof"

TypeOK ==
  /\ at \in 1..Len(toks)
  /\ errors \subseteq 1..Len(toks)
  /\ Len(items) < at

(* A program written by the grammar is parsed without an error into the    *)
(* items that were written: operators bind by their power and to the left, *)
(* calls, arms, blocks, labels, types and fields end where they should.    *)
WellFormedParses == Done /\ want # <<>> => items = want /\ errors = {}

(* Whatever is in the file: if no error is reported, all its names are in  *)
(* the tree, in their order.  Nothing is skipped or moved in silence.      *)
EveryNameKept ==
  Done /\ errors = {} => Words(List(items)) = SelectSeq(toks, LAMBDA t : t \in Idents)

(* mod.rs, expr.rs: the parser comes to the end of every file.  No loop    *)
(* goes round without reading a token, and an item reads at least one.     *)
NothingLoops == ~Done => Forever \notin Result.bad /\ (Result.e # Missing => Result.p > at)
=============================================================================
