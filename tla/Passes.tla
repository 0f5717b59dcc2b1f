------------------------------- MODULE Passes -------------------------------
(***************************************************************************)
(* The optimisation passes over the body of one function (middleend/pass): *)
(* dead blocks, constant folding, dead stores, in rounds until a round     *)
(* changes nothing or three have been made; and what middleend/validate    *)
(* says of the locals of a body.                                           *)
(*                                                                         *)
(* A body comes from the lowering: here one of given control-flow graphs   *)
(* whose blocks are filled with statements, then handed to the passes.     *)
(* Places are a local, a part of one (a field, an element), or what a      *)
(* local points to: nothing in the passes tells parts apart.  A local is   *)
(* a struct of one part, which holds an int or an address.                 *)
(***************************************************************************)
EXTENDS Hir, SequencesExt

CONSTANTS
  IntMax,      \* the largest int, 2^31 - 1 in the code
  MaxLocals,   \* locals that bodies are made with
  Graphs,      \* control-flow graphs that bodies have: [locals, terms]
  Statements,  \* statements that bodies are made of
  Operations,  \* statements that stand alone in a body
  MaxStmts,    \* bound: statements of a body
  Starts,      \* values that locals start with
  Fuel         \* bound: blocks an execution runs through

VARIABLES
  blocks,      \* HirBody::blocks: id, statements, terminator
  locals,      \* HirBody::locals, their number; the entry block is block 0
  filling,     \* the block that gets the next statement, or none: the passes run
  pass,        \* the pass that runs next, 1..3, or 0 when the pipeline is done
  round,       \* rounds made
  changed,     \* whether a pass of this round has changed the body
  source       \* history: the body as it was handed to the passes

vars == <<blocks, locals, filling, pass, round, changed, source>>

-----------------------------------------------------------------------------
(* Values                                                                  *)

Min_ == -IntMax - 1
Max_ == IntMax

(* const_int: a constant is cut down to the bits of an int.                *)
Wrap(n) == ((n - Min_) % (2 * IntMax + 2)) + Min_

Truth(p) == IF p THEN 1 ELSE 0

(* Rust and LLVM divide towards zero.                                      *)
Quotient(a, b) ==
  LET abs(n) == IF n < 0 THEN -n ELSE n
      q == abs(a) \div abs(b)
  IN IF (a < 0) = (b < 0) THEN q ELSE -q

Compare(op, a, b) ==
  CASE op = "Eq" -> a = b [] op = "Ne" -> a # b
    [] op = "Lt" -> a < b [] op = "Le" -> a <= b
    [] op = "Gt" -> a > b [] op = "Ge" -> a >= b

Comparisons == {"Eq", "Ne", "Lt", "Le", "Gt", "Ge"}
Divisions == {"Div", "Rem"}
Logics == {"LogicAnd", "LogicOr"}
UnaryOps == {"Neg", "Not", "BitNot"}

(* BinOp, without the bitwise ones, which no pass touches.                 *)
BinaryOps == {"Add", "Sub", "Mul"} \cup Divisions \cup Comparisons \cup Logics

(* The other rvalues: they copy what they read, take its address (of an    *)
(* array as well: ArrayToSlice), follow it, or ask for the tag.            *)
OtherOps == {"Use", "Aggregate", "ExtractPayload", "Ref", "Deref", "Discriminant"}

Whole(op, a, b) ==
  CASE op = "Add" -> a + b [] op = "Sub" -> a - b [] op = "Mul" -> a * b
    [] op = "Div" -> Quotient(a, b) [] op = "Rem" -> a - b * Quotient(a, b)

(* codegen_binop and codegen_unop on ints, all of them signed; both nots   *)
(* flip every bit.                                                         *)
Computed(op, args) ==
  CASE op \in Comparisons -> Truth(Compare(op, args[1], args[2]))
    [] op \in BinaryOps \ Comparisons -> Wrap(Whole(op, args[1], args[2]))
    [] op = "Neg" -> Wrap(-args[1])
    [] op \in {"Not", "BitNot"} -> -args[1] - 1
    [] op = "Discriminant" -> Truth(args[1] # 0)
    [] OTHER -> args[1]

(* Division by zero and MIN / -1 are undefined in LLVM; code generation    *)
(* gives up on a logical operation.                                        *)
Undefined(op, args) ==
  \/ op \in Divisions /\ (args[2] = 0 \/ Whole("Div", args[1], args[2]) > Max_)
  \/ op \in Logics

-----------------------------------------------------------------------------
(* Statements                                                              *)

Const(n) == <<"const", n>>
Local(l) == <<"local", l>>
Part(l) == <<"part", l>>
Deref(l) == <<"deref", l>>

Assign(lhs, op, args) == [kind |-> "assign", lhs |-> lhs, op |-> op, args |-> args]
Call(dest, arg) == [kind |-> "call", lhs |-> dest, op |-> "Use", args |-> <<arg>>]
Drop(place) == [kind |-> "drop", lhs |-> Const(0), op |-> "Use", args |-> <<place>>]

Locals == 1..MaxLocals
Place == {"local", "part", "deref"} \X Locals
Operand == ({"const"} \X Int) \cup Place

Statement ==
  [kind : {"assign"}, lhs : Place, op : BinaryOps, args : [1..2 -> Operand]]
    \cup [kind : {"assign"}, lhs : Place, op : UnaryOps \cup OtherOps, args : [1..1 -> Operand]]
    \cup [kind : {"call", "drop"}, lhs : Place \cup {Const(0)}, op : {"Use"}, args : [1..1 -> Operand]]

(* Terminators: a switch goes by the value of its operand, else otherwise. *)
Jump(to) == [kind |-> "Goto", targets |-> {to}, on |-> Const(0), arms |-> <<>>, other |-> to]
Choose(on, one, other) ==
  [kind |-> "Switch", targets |-> {one, other}, on |-> on, arms |-> <<one>>, other |-> other]
Back(o) == [kind |-> "Return", targets |-> {}, on |-> o, arms |-> <<>>, other |-> 0]
Stop == [kind |-> "Unreachable", targets |-> {}, on |-> Const(0), arms |-> <<>>, other |-> 0]

IsTerminator(t) ==
  /\ t.on \in Operand
  /\ \/ t.kind = "Goto" /\ t.arms = <<>> /\ t.targets = {t.other}
     \/ t.kind = "Switch" /\ t.targets = Range(t.arms) \cup {t.other}
     \/ t.kind \in {"Return", "Unreachable"} /\ t.targets = {}

ASSUME PassesAssumption ==
  /\ IntMax \in Nat \ {0} /\ MaxLocals \in Nat /\ MaxStmts \in Nat /\ Fuel \in Nat
  /\ Starts \subseteq Int
  /\ \A s \in Statements \cup Operations : s \in Statement
  /\ \A g \in Graphs :
       /\ g.terms \in Seq(Range(g.terms)) /\ g.terms # <<>>
       /\ \A t \in Range(g.terms) : IsTerminator(t) /\ t.targets \subseteq 0..Len(g.terms) - 1

Init ==
  \E g \in Graphs :
    /\ blocks = [i \in DOMAIN g.terms |-> [id |-> i - 1, stmts |-> <<>>, term |-> g.terms[i]]]
    /\ locals = g.locals
    /\ filling = 1
    /\ pass = 1 /\ round = 0 /\ changed = FALSE
    /\ source = <<>>

Size(bs) == FoldLeft(LAMBDA n, b : n + Len(b.stmts), 0, bs)

Menu ==
  IF filling = 0 \/ Size(blocks) = MaxStmts THEN {}
  ELSE IF Size(blocks) = 0 THEN Statements \cup Operations
  ELSE IF \E i \in DOMAIN blocks : \E j \in DOMAIN blocks[i].stmts : blocks[i].stmts[j] \in Operations THEN {}
  ELSE Statements

Fill(s) ==
  /\ blocks' = [blocks EXCEPT ![filling].stmts = Append(@, s)]
  /\ UNCHANGED <<locals, filling, pass, round, changed, source>>

NextBlock ==
  /\ filling # 0
  /\ filling' = IF filling < Len(blocks) THEN filling + 1 ELSE 0
  /\ source' = IF filling < Len(blocks) THEN source ELSE blocks
  /\ UNCHANGED <<blocks, locals, pass, round, changed>>

(* Vec::retain, and the block of an id.                                    *)
Retain(s, keep) ==
  LET kept[i \in 0..Len(s)] ==
        IF i = 0 THEN <<>> ELSE IF i \in keep THEN Append(kept[i - 1], s[i]) ELSE kept[i - 1]
  IN kept[Len(s)]

BlockAt(bs, id) == bs[CHOOSE i \in DOMAIN bs : bs[i].id = id]

-----------------------------------------------------------------------------
(* pass/dead_code.rs                                                       *)

SuccessorsOfDefault(term) == IF term.kind = "Switch" THEN {term.other} ELSE term.targets

(* successors                                                              *)
Successors(term) == IF term.kind \in {"Goto", "Switch"} THEN term.targets ELSE {}

(* compute_reachable_blocks: as many rounds as there are blocks.            *)
ReachableBlocks(bs) ==
  LET reached[n \in 0..Len(bs)] ==
        IF n = 0 THEN {0}
        ELSE LET near == reached[n - 1]
             IN near \cup UNION {Successors(bs[i].term) : i \in {j \in DOMAIN bs : bs[j].id \in near}}
  IN reached[Len(bs)]

DeadCode(bs) ==
  LET reachable == ReachableBlocks(bs) IN Retain(bs, {i \in DOMAIN bs : bs[i].id \in reachable})

-----------------------------------------------------------------------------
(* pass/const_fold.rs: operations on constants, in an i128.                *)

(* try_fold_binary_op, try_fold_unary_op                                   *)
FoldBinary(op, a, b) ==
  CASE op \in Comparisons -> Truth(Compare(op, a, b))
    [] op = "LogicAnd" -> Truth(a # 0 /\ b # 0)
    [] op = "LogicOr" -> Truth(a # 0 \/ b # 0)
    [] OTHER -> Whole(op, a, b)

FoldUnary(op, a) ==
  CASE op = "Neg" -> -a [] op = "Not" -> Truth(a = 0) [] op = "BitNot" -> -a - 1

(* try_fold_rvalue; extract_const_int.                                     *)
CanFold(s) ==
  /\ s.kind = "assign" /\ s.op \in BinaryOps \cup UnaryOps
  /\ \A i \in DOMAIN s.args : s.args[i][1] = "const"
  /\ s.op \in Divisions => s.args[2][2] # 0

Folded(s) ==
  IF ~CanFold(s) THEN s
  ELSE [s EXCEPT !.op = "Use",
                 !.args = <<Const(IF s.op \in UnaryOps THEN FoldUnary(s.op, s.args[1][2])
                                  ELSE FoldBinary(s.op, s.args[1][2], s.args[2][2]))>>]

ConstFold(bs) ==
  [i \in DOMAIN bs |-> [bs[i] EXCEPT !.stmts = [j \in DOMAIN @ |-> Folded(@[j])]]]

-----------------------------------------------------------------------------
(* pass/dead_store.rs                                                      *)

(* collect_uses_from_operand, collect_uses_from_place: only whole locals.  *)
Uses(operand) == IF operand[1] = "local" THEN {operand[2]} ELSE {}

(* collect_uses_from_rvalue                                                *)
RvalueUses(s) == UNION {Uses(s.args[i]) : i \in DOMAIN s.args}

(* collect_uses_from_terminator                                            *)
TermUses(term) == IF term.kind \in {"Return", "Switch"} THEN Uses(term.on) ELSE {}

Stores(s) == s.kind = "assign" /\ s.lhs[1] = "local"

(* compute_gen_kill: calls and drops are left out of both.                 *)
Kill(stmts) == {stmts[i].lhs[2] : i \in {j \in DOMAIN stmts : Stores(stmts[j])}}

Gen(b) ==
  TermUses(b.term) \cup
  UNION {RvalueUses(b.stmts[i]) \ Kill(SubSeq(b.stmts, 1, i - 1)) :
           i \in {j \in DOMAIN b.stmts : b.stmts[j].kind = "assign"}}

(* live_in of every block, as pairs of a block and a local.                *)
LiveOutOfFirst(live, b) ==
  IF Successors(b.term) = {} THEN {}
  ELSE {l \in Locals : <<CHOOSE s \in Successors(b.term) : TRUE, l>> \in live}

LiveOut(live, b) == {l \in Locals : \E s \in Successors(b.term) : <<s, l>> \in live}

(* compute_liveness: from nothing until nothing changes, which takes no    *)
(* more rounds than there are pairs.                                       *)
Sweep(bs, live) ==
  UNION {{b.id} \X (Gen(b) \cup (LiveOut(live, b) \ Kill(b.stmts))) : b \in Range(bs)}

LiveIn(bs) ==
  LET sweeps[n \in 0..Len(bs) * MaxLocals] == IF n = 0 THEN {} ELSE Sweep(bs, sweeps[n - 1])
  IN sweeps[Len(bs) * MaxLocals]

(* Backwards over a block: the locals that are live behind its i-th        *)
(* statement; what is deleted still counts as a use.                       *)
LiveBehind(b, out) ==
  LET n == Len(b.stmts)
      behind[k \in 0..n] ==
        IF k = 0 THEN out \cup TermUses(b.term)
        ELSE LET s == b.stmts[n + 1 - k]
             IN IF Stores(s) THEN (behind[k - 1] \ {s.lhs[2]}) \cup RvalueUses(s) ELSE behind[k - 1]
  IN [i \in 0..n |-> behind[n - i]]

Swept(b, live) ==
  LET behind == LiveBehind(b, LiveOut(live, b))
      dead(i) == Stores(b.stmts[i]) /\ b.stmts[i].lhs[2] \notin behind[i]
  IN Retain(b.stmts, {i \in DOMAIN b.stmts : ~dead(i)})

DeadStore(bs) ==
  LET live == LiveIn(bs) IN [i \in DOMAIN bs |-> [bs[i] EXCEPT !.stmts = Swept(bs[i], live)]]

-----------------------------------------------------------------------------
(* pass/mod.rs                                                             *)

MaxRounds == 3

Passes(p, bs) == CASE p = 1 -> DeadCode(bs) [] p = 2 -> ConstFold(bs) [] p = 3 -> DeadStore(bs)

ChangedSoFar(after) == changed \/ (pass < 3 /\ after # blocks)

Changed(after) == changed \/ after # blocks

RunPass ==
  LET after == Passes(pass, blocks) IN
  /\ filling = 0 /\ pass # 0
  /\ blocks' = after
  /\ IF pass < 3
       THEN /\ pass' = pass + 1
            /\ changed' = Changed(after)
            /\ UNCHANGED round
       ELSE /\ pass' = IF Changed(after) /\ round + 1 < MaxRounds THEN 1 ELSE 0
            /\ round' = round + 1
            /\ changed' = FALSE
  /\ UNCHANGED <<locals, filling, source>>

Next == (\E s \in Menu : Fill(s)) \/ NextBlock \/ RunPass

Spec == Init /\ [][Next]_vars

-----------------------------------------------------------------------------
(* validate/local.rs                                                       *)

(* get_root_local                                                          *)
Roots(operand) == IF operand[1] = "const" THEN {} ELSE {operand[2]}

Reads(s) == UNION {Roots(s.args[i]) : i \in DOMAIN s.args}

Bases(place) == IF place[1] = "deref" THEN {place[2]} ELSE {}

Mentions(b) ==
  (UNION {Reads(b.stmts[i]) \cup Roots(b.stmts[i].lhs) : i \in DOMAIN b.stmts}) \cup Roots(b.term.on)

(* E9010: a local that the table does not have.                            *)
ValidLocals(bs, n) == \A i \in DOMAIN bs : Mentions(bs[i]) \subseteq 1..n

ReadsOf(b) == (UNION {Reads(b.stmts[j]) : j \in DOMAIN b.stmts}) \cup Roots(b.term.on)

(* E9011, a local that may be used before it is defined.  All locals count *)
(* as defined from the start, so only one outside the table is reported.   *)
MaybeUndefined(bs, n) ==
  (UNION {ReadsOf(bs[i]) : i \in {k \in DOMAIN bs : bs[k].id \in Reachable(bs, 0)}}) \ 1..n

Valid(bs, n) == UniqueIds(bs) /\ Dangling(bs) = {} /\ ValidLocals(bs, n)

-----------------------------------------------------------------------------
(* Running a body: the calls and drops it makes, with their values, and    *)
(* what it returns, each with what can be seen through it: cell 0, which   *)
(* stands for the memory outside, and what an address leads to.  Locals    *)
(* start with any value.                                                   *)

Cells == 0..MaxLocals

Address(l) == Max_ + l

(* The cell a value leads to: one of the body's own, if it takes addresses *)
(* of them, or the memory outside.                                         *)
At(run, v) == IF v - Max_ \in run.own THEN v - Max_ ELSE 0

Cell(run, place) == IF place[1] = "deref" THEN At(run, run.env[place[2]]) ELSE place[2]

Value(run, o) == IF o[1] = "const" THEN Wrap(o[2]) ELSE run.env[Cell(run, o)]

Argument(run, op, o) ==
  CASE op = "Ref" -> IF o[1] = "deref" THEN run.env[o[2]] ELSE Address(o[2])
    [] op = "Deref" -> run.env[At(run, Value(run, o))]
    [] OTHER -> Value(run, o)

Arguments(run, s) == [i \in DOMAIN s.args |-> Argument(run, s.op, s.args[i])]

Stored(run, s, args) ==
  IF s.lhs[1] = "const" THEN run.env
  ELSE [run.env EXCEPT ![Cell(run, s.lhs)] = IF s.kind = "call" THEN 1 ELSE Computed(s.op, args)]

Told(run, what, v) == Append(run.seen, <<what, v, run.env[0], run.env[At(run, v)]>>)

Step(run, s) ==
  LET args == Arguments(run, s)
      seen == IF s.kind = "assign" THEN run.seen ELSE Told(run, s.kind, args[1])
  IN IF run.undefined \/ Undefined(s.op, args) THEN [run EXCEPT !.undefined = TRUE]
     ELSE [run EXCEPT !.seen = seen, !.env = Stored(run, s, args)]

After(run, stmts) ==
  LET after[i \in 0..Len(stmts)] == IF i = 0 THEN run ELSE Step(after[i - 1], stmts[i])
  IN after[Len(stmts)]

Leave(end, term) ==
  LET on == Value(end, term.on)
  IN CASE term.kind = "Return" -> [end EXCEPT !.at = -1, !.seen = Told(end, "return", on)]
       [] term.kind = "Unreachable" -> [end EXCEPT !.undefined = TRUE]
       [] OTHER -> [end EXCEPT !.at = IF on \in DOMAIN term.arms THEN term.arms[on] ELSE term.other]

Further(bs, run) ==
  IF run.at = -1 THEN run
  ELSE IF run.at \notin Ids(bs) THEN [run EXCEPT !.seen = Told(run, "lost", 0)]
  ELSE LET b == BlockAt(bs, run.at) IN Leave(After(run, b.stmts), b.term)

(* The locals whose address the body takes.                                *)
Taken(bs) ==
  UNION {UNION {Reads(bs[i].stmts[j]) : j \in {k \in DOMAIN bs[i].stmts : bs[i].stmts[k].op = "Ref"}} :
           i \in DOMAIN bs}

Run(bs, own, env) ==
  LET runs[n \in 0..Fuel] ==
        IF n = 0 THEN [at |-> 0, env |-> env, own |-> own, seen |-> <<>>, undefined |-> FALSE]
        ELSE Further(bs, runs[n - 1])
  IN runs[Fuel]

SameRuns(bs, cs) ==
  \A env \in [Cells -> Starts] :
    LET r == Run(bs, Taken(bs), env) IN r.undefined \/ r.seen = Run(cs, Taken(bs), env).seen

-----------------------------------------------------------------------------
(* Properties                                                              *)

Done == filling = 0 /\ pass = 0

TypeOK ==
  /\ filling \in 0..Len(blocks) /\ pass \in 0..3 /\ round \in 0..MaxRounds
  /\ changed \in BOOLEAN /\ blocks # <<>> /\ 0 \in Ids(blocks)
  /\ \A i \in DOMAIN blocks : IsTerminator(blocks[i].term)

(* Locals that are read where the dead-store pass does not look: by calls  *)
(* and drops, as parts, behind a pointer, by an assignment to a part or    *)
(* through a pointer; and those whose address is taken.                    *)
Needs(s) == Reads(s) \cup Bases(s.lhs)

Missed(s) == IF Stores(s) THEN Needs(s) \ RvalueUses(s) ELSE Needs(s)

BlindIn(b) ==
  (Roots(b.term.on) \ Uses(b.term.on)) \cup UNION {Missed(b.stmts[j]) : j \in DOMAIN b.stmts}

Blind(bs) == Taken(bs) \cup UNION {BlindIn(bs[i]) : i \in DOMAIN bs}

StoresAreSeen(bs) ==
  \A i \in DOMAIN bs : Kill(bs[i].stmts) \cap Blind(bs) = {}

(* What an operation computes with is written as an int, and `not` of a    *)
(* literal is not written.                                                 *)
FitsInt(s) ==
  s.op \in BinaryOps \cup UnaryOps =>
    \A i \in DOMAIN s.args : s.args[i][1] = "const" => s.args[i][2] \in Min_..Max_ /\ s.op # "Not"

LiteralsFit(bs) == \A i \in DOMAIN bs : \A j \in DOMAIN bs[i].stmts : FitsInt(bs[i].stmts[j])

(* A body makes the same calls and drops with the same values, and returns *)
(* the same, after the passes, loops, branches, pointers and operations    *)
(* that overflow included, if it stores to no local that is read where     *)
(* the passes do not look, and computes with ints.                         *)
SameBehaviour == Done /\ StoresAreSeen(source) /\ LiteralsFit(source) => SameRuns(source, blocks)

(* mod.rs: when the rounds end because one has changed nothing, every      *)
(* assignment that is left stores to a local the body still reads.         *)
UselessStoresGo ==
  Done /\ round < MaxRounds =>
    \A i \in DOMAIN blocks :
      Kill(blocks[i].stmts) \subseteq UNION {ReadsOf(blocks[k]) : k \in DOMAIN blocks}

(* The passes keep a body the validator accepts, and leave no block in it  *)
(* that cannot be reached.                                                 *)
ValidStaysValid ==
  Done => /\ Valid(source, locals) => Valid(blocks, locals)
          /\ Ids(blocks) = Reachable(source, 0)
          /\ MaybeUndefined(blocks, locals) \subseteq MaybeUndefined(source, locals)

(* dead_store.rs:3: only stores to locals that are never read are deleted. *)
NothingReadIsLost == Done /\ LiteralsFit(source) => SameRuns(source, blocks)

(* const_fold.rs:3: what is folded is what the program would compute, of   *)
(* any literals and operations.                                            *)
FoldedIsComputed == Done /\ StoresAreSeen(source) => SameRuns(source, blocks)

(* mod.rs:49: the passes are repeated until nothing changes.               *)
FixedPoint == Done => \A p \in 1..3 : Passes(p, blocks) = blocks

(* validate/mod.rs: a local that a run may read before it is assigned is   *)
(* reported.                                                               *)
UndefinedIsReported ==
  /\ Done /\ locals = 2
  /\ \A i \in DOMAIN source : 2 \notin Kill(source[i].stmts)
  /\ \E i \in DOMAIN source : source[i].id \in Reachable(source, 0) /\ 2 \in Roots(source[i].term.on)
  => 2 \in MaybeUndefined(source, locals)
=============================================================================
