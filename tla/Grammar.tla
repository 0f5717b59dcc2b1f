------------------------------ MODULE Grammar ------------------------------
(***************************************************************************)
(* Programs and their texts: the grammar that docs/spec/02-syntax.md and   *)
(* docs/kore0-boundary.md give to the part of Kore that stage 0 compiles,  *)
(* read the other way round from the parser.  A piece is a tree of the     *)
(* syntax (frontend/ast/node.rs) with the tokens that write it down and a  *)
(* level: how tightly its parts hold together.                             *)
(***************************************************************************)
EXTENDS Naturals, Sequences, SequencesExt, FiniteSets

CONSTANTS
  Forms,      \* forms of the documents that are tried besides those below
  Damage      \* whether programs with a wrong token are tried

AllForms == {"trailing match", "guards", "guard then match", "not of a field", "name in front of a loop",
             "mutable with a type", "parameters of one type"}

ASSUME FormsAssumption == Forms \subseteq AllForms /\ Damage \in BOOLEAN

Lower == {"a", "f", "true"}
Upper == {"V", "T"}
Idents == Lower \cup Upper
Ints == {"1"}

Tree(tag, kids) == [tag |-> tag, word |-> "", kids |-> kids]
Leaf(tag, word) == [tag |-> tag, word |-> word, kids |-> <<>>]
List(kids) == Tree("list", kids)
Nil == Leaf("Nil", "")
Missing == Leaf("missing", "")
Name(x) == Leaf("name", x)
Opt(tree) == List(<<tree>>)
None == List(<<>>)

(* The names on the leaves of a tree, from left to right.                  *)
RECURSIVE Words(_)
Words(t) ==
  FoldLeft(LAMBDA ws, kid : ws \o Words(kid), IF t.word \in Idents THEN <<t.word>> ELSE <<>>, t.kids)

Piece(level, tree, text) == [level |-> level, tree |-> tree, text |-> text]
Trees(xs) == List([i \in DOMAIN xs |-> xs[i].tree])
Texts(xs) == FlattenSeq([i \in DOMAIN xs |-> xs[i].text])

(* A piece in a place that asks for a level.                               *)
In(x, level) == IF x.level < level THEN <<"(">> \o x.text \o <<")">> ELSE x.text

-----------------------------------------------------------------------------
(* Expressions                                                             *)

(* The binary operators, the loosest first.                                *)
Ranks == <<{","}, {"or"}, {"and"}, {"==", "!="}, {"<", "<=", ">", ">="}, {"&", "|"}, {"<<", ">>"},
           {"+", "-"}, {"*", "/", "%"}>>
Operators == UNION Range(Ranks)
Open == 0
Prefixed == 10
Suffixed == 11
Single == 12

Binary(op, x, y) ==
  LET n == CHOOSE n \in DOMAIN Ranks : op \in Ranks[n]
  IN Piece(n, Tree(op, <<x.tree, y.tree>>), In(x, n) \o <<op>> \o In(y, n + 1))

(* The documents do not say which of a prefix and a suffix binds tighter,  *)
(* so one keeps its parentheses under the other.                           *)
Unary(op, tag, x) ==
  Piece(Prefixed, Tree(tag, <<x.tree>>), <<op>> \o In(x, IF x.level = Suffixed THEN Single ELSE Prefixed))
Suffix(tag, x, trees, text) == Piece(Suffixed, Tree(tag, <<x.tree>> \o trees), In(x, Suffixed) \o text)

Variable == Piece(Single, Leaf("Path", "a"), <<"a">>)
Number == Piece(Single, Leaf("Int", "1"), <<"1">>)
Empty == Piece(Single, Tree("Block", <<None>>), <<"{", "}">>)
FieldOf(x) == Suffix("Field", x, <<Name("f")>>, <<".", "f">>)
Comparison == Binary("<", Variable, Number)

Of(x) ==
  {Unary(op, op, x) : op \in {"-", "not", "~"}} \cup
  {Unary("*", "Deref", x), FieldOf(x), Suffix("Deref", x, <<>>, <<"^">>), Suffix("Propagate", x, <<>>, <<"!">>),
   Suffix("Call", x, <<None>>, <<"(", ")">>),
   Piece(Single, Tree("Variant", <<Name("V"), Opt(x.tree)>>), <<".", "V", "(">> \o x.text \o <<")">>),
   Piece(Single, Tree("Array", <<Opt(x.tree)>>), <<"[">> \o In(x, 2) \o <<"]">>)}

OfBoth(x, y) ==
  {Binary(op, x, y) : op \in Operators} \cup
  {Suffix("Call", x, <<Trees(<<y, x>>)>>, <<"(">> \o In(y, 2) \o <<",">> \o In(x, 2) \o <<")">>),
   Suffix("Index", x, <<y.tree>>, <<"[">> \o y.text \o <<"]">>)}

Shallow == Of(Variable) \cup OfBoth(Variable, Number)
Deep == UNION {Of(x) \cup OfBoth(x, Variable) \cup OfBoth(Number, x) : x \in Shallow}

-----------------------------------------------------------------------------
(* Branches, loops and jumps reach as far as they can.                     *)

RetOf(x) == Piece(Open, Tree("Ret", <<x.tree>>), <<"ret">> \o In(x, 2))
Jumps == {Piece(Open, Tree("Stop", <<None>>), <<"stop">>),
          Piece(Open, Tree("Skip", <<Opt(Name("a"))>>), <<"skip", "@", "a">>)}

ArmOf(pattern, text, body) == Piece(Open, Tree("Arm", <<pattern, body.tree>>), text \o <<"=>">> \o body.text)
CondArmOf(x, body) == ArmOf(Tree("Cond", <<x.tree>>), In(x, 2), body)
LitArm(leaf, body) == ArmOf(Tree("Lit", <<leaf>>), <<leaf.word>>, body)
Bindings == {<<None, <<>>>>, <<Opt(Name("a")), <<"(", "a", ")">>>>,
             <<List(<<Name("a"), Name("f")>>), <<"(", "a", ",", "f", ")">>>>}
VariantArm(b, body) == ArmOf(Tree("Variant", <<Name("V"), b[1]>>), <<".", "V">> \o b[2], body)

Guard(x, body) == Piece(Open, Tree("Branch", <<None, Trees(<<CondArmOf(x, body)>>)>>), <<"?">> \o CondArmOf(x, body).text)
BranchOf(scrutinee, head, arms) ==
  Piece(Open, Tree("Branch", <<scrutinee, Trees(arms)>>), <<"?">> \o head \o <<"{">> \o Texts(arms) \o <<"}">>)
With(arm, comma) == [arm EXCEPT !.text = @ \o comma]

Chain == BranchOf(None, <<>>, <<With(CondArmOf(Comparison, Variable), <<",">>), CondArmOf(Unary("not", "not", Variable), Empty),
                             ArmOf(Leaf("Bind", "a"), <<"a">>, FieldOf(Variable))>>)
Matches ==
  {BranchOf(Opt(x.tree), In(x, 2) \o <<"is">>,
         <<With(VariantArm(b, body), comma), LitArm(Number.tree, Number), LitArm(Leaf("Bool", "true"), Variable),
           VariantArm(b, body)>>) :
     x \in {Variable, FieldOf(Variable)}, b \in Bindings, body \in {Variable, RetOf(Comparison), Empty}, comma \in {<<>>, <<",">>}}

LoopOf(label, subject, head, body) ==
  Piece(Open, Tree("Loop", <<label, subject, body.tree>>), <<"@">> \o head \o body.text)
Conditions == {Binary("<", Number, Variable)} \cup (IF "name in front of a loop" \in Forms THEN {Comparison} ELSE {})
Loops(body) ==
  {LoopOf(None, None, <<>>, body), LoopOf(Opt(Name("a")), None, <<"a", "@">>, body)} \cup
  {LoopOf(None, Opt(x.tree), x.text, body) : x \in Conditions}

-----------------------------------------------------------------------------
(* Types, statements and items                                             *)

TypeAfter(tag, before, t) == Piece(Open, Tree(tag, <<t.tree>>), before \o t.text)
Named == Piece(Single, Leaf("Named", "T"), <<"T">>)
OfType(t) == {TypeAfter("Own", <<"own", "^">>, t), TypeAfter("Borrow", <<"^">>, t), TypeAfter("Slice", <<"[", "]">>, t),
              TypeAfter("SizedArray", <<"[", "1", "]">>, t),
              Piece(Open, Tree("ErrUnion", <<Named.tree, t.tree>>), <<"T", "!">> \o t.text)}
Types == {Named} \cup UNION {OfType(t) : t \in {Named} \cup OfType(Named)}

LetOf(tag, name, ty, init) == Tree(tag, <<Name(name), ty, init>>)
Values == {Variable, Comparison, FieldOf(Variable), Empty}
Expressions == Values \cup {RetOf(x) : x \in Values} \cup Loops(Empty) \cup Jumps

Plain(x) ==
  {Piece(Open, LetOf("Let", "a", None, x.tree), <<"a", ":=">> \o x.text),
   Piece(Open, LetOf("LetMut", "a", None, x.tree), <<"~", "a", ":=">> \o x.text),
   Piece(Open, LetOf("Let", "a", Opt(Tree("Borrow", <<Named.tree>>)), x.tree), <<"a", ":", "^", "T", "=">> \o x.text),
   Piece(Open, Tree("Assign", <<Variable.tree, x.tree>>), <<"a", "=">> \o x.text),
   Piece(Open, Tree("Defer", <<x.tree>>), <<"defer">> \o x.text)}
MutableTyped == Piece(Open, LetOf("LetMut", "a", Opt(Named.tree), Number.tree), <<"~", "a", ":", "T", "=", "1">>)
Swap ==
  LET left == Binary(",", Variable, FieldOf(Variable))  right == Binary(",", FieldOf(Variable), Variable)
  IN  Piece(Open, Tree("Assign", <<left.tree, right.tree>>), left.text \o <<"=">> \o right.text)

NotOfField == Piece(Prefixed, Tree("not", <<FieldOf(Variable).tree>>), <<"not", "a", ".", "f">>)
Guarded == {Guard(x, body) : x \in {Variable, Comparison} \cup (IF "not of a field" \in Forms THEN {NotOfField} ELSE {}),
                             body \in Expressions}
AllStatements == UNION {Plain(x) : x \in Expressions \cup {Chain}} \cup Expressions \cup Guarded \cup Matches \cup {Chain, Swap}
                 \cup (IF "mutable with a type" \in Forms THEN {MutableTyped} ELSE {})

(* There is nothing between two statements: the second must not begin with *)
(* what goes on with an expression, or with what a jump takes for a label. *)
Follows(s, t) ==
  /\ Head(t.text) \notin Operators \cup {"(", "[", "^", "!", "."}
  /\ Last(s.text) \in {"stop", "skip"} => Head(t.text) # "@"
  /\ s \in Guarded /\ t \in Guarded => "guards" \in Forms
  /\ s \in Guarded /\ t \in Matches => "guard then match" \in Forms

Endings == IF "trailing match" \in Forms THEN AllStatements ELSE AllStatements \ Matches

BlockOf(ss) == Piece(Single, Tree("Block", <<Trees(ss)>>), <<"{">> \o Texts(ss) \o <<"}">>)
Blocks ==
  {Empty, BlockOf(<<Piece(Open, Tree("Ret", <<>>), <<"ret">>)>>)} \cup {BlockOf(<<s>>) : s \in Endings} \cup
  {BlockOf(p) : p \in {q \in (AllStatements \X Endings) : Follows(q[1], q[2])}} \cup
  (IF "guard then match" \in Forms THEN {BlockOf(<<Guard(Comparison, Number), m, Variable>>) : m \in Matches} ELSE {})

FuncOf(params, ret, text, body) ==
  Piece(Open, Tree("Func", <<Name("f"), params, ret, None, body.tree>>),
        <<"f", "::", "(">> \o text \o <<"=>">> \o body.text)

Typed(t) ==
  {FuncOf(Trees(<<Piece(Open, Tree("Param", <<Name("a"), t.tree>>), <<>>), Piece(Open, Tree("MutParam", <<Name("f"), t.tree>>), <<>>)>>),
         Opt(t.tree), <<"a">> \o t.text \o <<",", "~", "f">> \o t.text \o <<")">> \o t.text, Variable),
   Piece(Open, Tree("Struct", <<Name("T"), List(<<Tree("Fields", <<Name("a"), t.tree>>), Tree("Fields", <<Name("f"), Name("a"), Named.tree>>)>>)>>),
         <<"T", "::", "{", "a">> \o t.text \o <<",", "f", ",", "a", "T", "}">>),
   Piece(Open, Tree("Union", <<Name("T"), List(<<Tree("Variant", <<Name("V"), List(<<t.tree, Named.tree>>)>>), Tree("Variant", <<Name("V"), None>>)>>)>>),
         <<"T", "::", ".", "V", "(">> \o t.text \o <<",", "T", ")", "|", ".", "V">>)}

OneType ==
  LET named(x) == Piece(Open, Tree("Param", <<Name(x), Named.tree>>), <<>>)
  IN  FuncOf(Trees(<<named("a"), named("f")>>), None, <<"a", ",", "f", "T", ")">>, Variable)

Items == {FuncOf(None, None, <<")">>, body) : body \in Deep \cup Blocks \cup UNION {Loops(b) : b \in {BlockOf(<<j>>) : j \in Jumps}}}
           \cup UNION {Typed(t) : t \in Types} \cup (IF "parameters of one type" \in Forms THEN {OneType} ELSE {})
Few == {FuncOf(None, None, <<")">>, body) : body \in {FieldOf(Variable), BlockOf(<<Guard(Comparison, Variable), RetOf(Variable)>>)}}
         \cup Typed(Named)
         \cup {Piece(Open, Tree("Use", <<List(<<Name("a"), Name("f")>>)>>), <<"use", "a", ".", "f">>)}

-----------------------------------------------------------------------------
(* Files: an item, or two of a few, and the few with one token wrong.      *)

Files == {[tree |-> <<i.tree>>, text |-> i.text] : i \in Items}
           \cup {[tree |-> <<i.tree, j.tree>>, text |-> i.text \o j.text] : i, j \in Few}

Tokens == Idents \cup Ints \cup Operators \cup
          {"(", ")", "{", "}", "[", "]", "^", "!", ".", "?", "@", "=>", "::", ":", ":=", "=", "~", "not", "is",
           "ret", "stop", "skip", "defer", "own", "pub", "use", ";"}

Damaged ==
  {[tree |-> <<>>, text |-> text] :
     text \in UNION {UNION {{RemoveAt(f.text, i)} \cup {InsertAt(f.text, i, t) : t \in Tokens}
                              \cup {ReplaceAt(f.text, i, t) : t \in Tokens} : i \in DOMAIN f.text} :
                       f \in {g \in Files : Len(g.tree) = 1 /\ g.text \in {d.text : d \in Few}}}}

Written == Files \cup (IF Damage THEN Damaged ELSE {})
=============================================================================
