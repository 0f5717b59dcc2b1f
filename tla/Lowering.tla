------------------------------ MODULE Lowering ------------------------------
(***************************************************************************)
(* The AST -> HIR lowering of korec (middleend/lower): how LoweringContext *)
(* turns one function after another into a control-flow graph, and where   *)
(* it puts the clean-up code of `defer` and of owned pointers.             *)
(*                                                                         *)
(* The recursive descent over the AST is an explicit stack of frames, one  *)
(* per lower_func / block / loop / branch call that has not returned; each *)
(* action lowers the next construct of an arbitrary bounded program or     *)
(* resumes the top frame with the value its callee returned.  The program  *)
(* is not stored: it is what the actions choose.  The one place where the  *)
(* code looks ahead in the AST, expr_always_terminates, is a promise made  *)
(* when a branch is opened ("ends") and kept by the expression that comes. *)
(***************************************************************************)
EXTENDS Hir, SequencesExt

CONSTANTS
  Labels,       \* loop labels a program may use
  NoLabel,      \* Option<&str>::None for a label
  Features,     \* the constructs the bounded programs may contain
  MaxStmts,     \* bound: source statements per function
  MaxArms,      \* bound: arms per branch
  MaxParams,    \* bound: owned-pointer parameters per function
  MaxFuncs      \* bound: functions per module

Constructs == {"defer", "own", "move", "pass", "block", "loop", "branch", "ret",
               "jump", "propagate", "exprBody",
               "guard", "match",   \* condition arms; literal, variant and wildcard arms
               \* shapes a run may leave out: a return or a jump out of several
               \* scopes, a block whose last expression has no value, control
               \* flow nested in a branch arm, a defer after an owned local of its
               \* scope, `!` on a union that is no error union
               "deepRet", "deepJump", "bareTail", "armFlow", "lateDefer", "unionPropagate"}

ASSUME LoweringAssumption ==
  /\ NoLabel \notin Labels
  /\ Features \subseteq Constructs
  /\ MaxStmts \in Nat /\ MaxArms \in Nat /\ MaxParams \in Nat /\ MaxFuncs \in Nat

VARIABLES
  \* LoweringContext
  blocks,         \* blocks, in push order
  code,           \* the statements of each block that has some
  current_block,  \* the block under construction, or NoBlock
  next_block, next_local,
  loop_stack,     \* <<[header, exit, depth]>>, innermost last
  label_map,      \* label -> the same triple, or NoTarget
  scope_stack,    \* owned locals of each open scope
  defer_scopes,   \* defers of each open scope
  moved_locals,
  errors,         \* an error diagnostic has been emitted
  \* the call stack of the descent
  frames,
  result,         \* "pending", or what the callee of the top frame returned
  outcome,        \* "idle", "lowering", "lowered" or "ice"
  \* the program chosen so far
  fuel, funcs, next_defer,
  \* history, read by the properties only
  taken,          \* owned locals whose value the program has moved away
  event           \* the clean-up emitted at the last exit from a scope

cfg    == <<blocks, code, current_block, next_block>>
loops  == <<loop_stack, label_map>>
scopes == <<scope_stack, defer_scopes>>
owners == <<next_local, moved_locals, taken>>
source == <<fuel, funcs, next_defer>>
vars   == <<cfg, loops, scopes, owners, source, errors, frames, result, outcome, event>>

-----------------------------------------------------------------------------
(* State components.                                                       *)

LocalId == Nat
DeferId == Nat
Target == [header : BlockId, exit : BlockId, depth : Nat]
NoTarget == [header |-> NoBlock, exit |-> NoBlock, depth |-> 0]

\* ExprResult: None, Some(Const::Void), Some(a value).
Value == {"none", "void", "value"}
Static == {"yes", "no", "any"}      \* expr_always_terminates of what is lowered

Item == [op : {"init", "take", "drop", "run"}, id : Nat]
Top == Last(frames)
Live == current_block # NoBlock

\* Vec::push on the last element of a stack of vectors, if there is one.
PushLast(ss, x) == IF ss = <<>> THEN ss ELSE [ss EXCEPT ![Len(ss)] = Append(@, x)]
LastScope(ss) == IF ss = <<>> THEN <<>> ELSE Last(ss)     \* pop().unwrap_or_default()
\* Mutants of Popped: nothing is popped, the wrong end is.
NeverPopped(ss) == ss
PoppedBelow(ss) == IF ss = <<>> THEN ss ELSE Tail(ss)

Popped(ss) == IF ss = <<>> THEN ss ELSE Front(ss)

\* Where an expression may start: as a statement of a block, or (tail) as the
\* block's value, a branch arm or the body of an expression-bodied function.
At(tail) ==
  /\ outcome = "lowering" /\ result = "pending"
  /\ \/ Top.kind = "block"
     \/ Top.kind = "func" /\ tail = Top.tail
     \/ Top.kind = "branch" /\ tail

Expected(tail) ==
  IF ~tail THEN "any"
  ELSE IF Top.kind = "branch" THEN Top.arms[Top.next].ends ELSE Top.must

Marked(tail) == [frames EXCEPT ![Len(frames)].tail = tail]

\* An expression that opens no frame returns v at once.
Complete(v, tail) ==
  /\ frames' = Marked(tail)
  /\ result' = IF tail THEN v ELSE "pending"

\* The top frame returns v to the frame below it.
ReturnToCaller(v) ==
  /\ frames' = Front(frames)
  /\ result' = IF Last(Front(frames)).tail THEN v ELSE "pending"

\* Constructs that open blocks of their own.
FlowAllowed == (\E i \in DOMAIN frames : frames[i].kind = "branch") => "armFlow" \in Features

Statement == fuel > 0 /\ fuel' = fuel - 1
Leaf(tail) == IF tail THEN UNCHANGED fuel ELSE Statement

\* current_block_mut: statements reach the graph only through a live block.
Emit(items) ==
  code' = IF current_block \in Ids(blocks) /\ items # <<>>
          THEN [b \in DOMAIN code \cup {current_block} |->
                  IF b # current_block THEN code[b]
                  ELSE (IF b \in DOMAIN code THEN code[b] ELSE <<>>) \o items]
          ELSE code

\* The owned locals of a scope from the last one to the first, those that are gone
\* skipped.
Drops(owned, gone) ==
  LET drops[n \in 0 .. Len(owned)] ==
        IF n = 0 THEN <<>>
        ELSE IF owned[n] \in gone THEN drops[n - 1]
        ELSE <<[op |-> "drop", id |-> owned[n]]>> \o drops[n - 1]
  IN  drops[Len(owned)]

\* Mutant of CleanupItems: the deferred expressions in the order of declaration.
CleanupInOrder(owned, defers) ==
  Drops(owned, moved_locals) \o [i \in DOMAIN defers |-> [op |-> "run", id |-> defers[i]]]

\* Drops in reverse order of declaration, moved locals skipped, then the
\* deferred expressions in reverse order.
CleanupItems(owned, defers) ==
  LET runs == [i \in DOMAIN defers |-> [op |-> "run", id |-> defers[i]]]
  IN  Drops(owned, moved_locals) \o Reverse(runs)

\* The lexical scopes: frames of functions and blocks.
ScopeFrames(n) == {i \in 1 .. n : frames[i].kind \in {"func", "block"}}

\* The clean-up emitted on the way out of frame n and all above it; what no
\* path reaches is not recorded.
Record(kind, items, n) ==
  event' = IF Live
           THEN [kind |-> kind, items |-> items, from |-> Cardinality(ScopeFrames(n))]
           ELSE event

-----------------------------------------------------------------------------
(* lower_func.                                                             *)

Init ==
  /\ blocks = <<>> /\ code = <<>> /\ current_block = NoBlock
  /\ next_block = 0 /\ next_local = 0
  /\ loop_stack = <<>> /\ label_map = [l \in Labels |-> NoTarget]
  /\ scope_stack = <<>> /\ defer_scopes = <<>> /\ moved_locals = {}
  /\ errors = FALSE
  /\ frames = <<>> /\ result = "pending" /\ outcome = "idle"
  /\ fuel = 0 /\ funcs = 0 /\ next_defer = 0
  /\ taken = {}
  /\ event = [kind |-> "start", items |-> <<>>, from |-> 0]

\* reset_function_state leaves loop_stack and label_map as they are.
BeginFunc(params, void, exprBody) ==
  LET owned == [i \in 1 .. params |-> i - 1] IN
  /\ outcome \in {"idle", "lowered"} /\ funcs < MaxFuncs
  /\ exprBody => "exprBody" \in Features
  /\ blocks' = <<NewBlock(0)>> /\ current_block' = 0 /\ next_block' = 1
  /\ code' = [b \in {0} |-> [i \in 1 .. params |-> [op |-> "init", id |-> i - 1]]]
  /\ next_local' = params
  /\ scope_stack' = <<owned>> /\ defer_scopes' = << <<>> >> /\ moved_locals' = {}
  /\ frames' = <<[kind |-> "func", tail |-> exprBody, must |-> "any", depth |-> 0,
                  loops |-> Len(loop_stack), owned |-> owned, defers |-> <<>>, late |-> "no",
                  void |-> void]>>
  /\ result' = "pending" /\ outcome' = "lowering"
  /\ fuel' = MaxStmts /\ funcs' = funcs + 1 /\ next_defer' = 0 /\ taken' = {}
  /\ UNCHANGED <<loops, errors, event>>

\* The body is lowered: leave the function's scope, then ensure_termination.
EndFunc ==
  LET items   == CleanupItems(LastScope(scope_stack), LastScope(defer_scopes))
      valued  == IF result \in {"void", "value"} /\ Live
                 THEN SetTerm(blocks, current_block, Return) ELSE blocks
      open    == Live /\ current_block \in Ids(blocks)
                      /\ TermOf(valued, current_block) = Unreachable
  IN
  /\ outcome = "lowering" /\ Top.kind = "func"
  /\ Top.tail <=> result # "pending"
  /\ Emit(items)
  /\ blocks' = IF open /\ Top.void THEN SetTerm(valued, current_block, Return) ELSE valued
  /\ errors' = (errors \/ (open /\ ~Top.void))
  /\ Record("end", items, 1)
  /\ scope_stack' = Popped(scope_stack) /\ defer_scopes' = Popped(defer_scopes)
  /\ frames' = <<>> /\ result' = "pending" /\ outcome' = "lowered"
  /\ UNCHANGED <<current_block, next_block, loops, owners, source>>

-----------------------------------------------------------------------------
(* Statements: lower_stmt, lower_let, and the call arguments of lower_expr. *)

Defer ==
  /\ At(FALSE) /\ "defer" \in Features /\ Statement
  /\ Top.owned # <<>> => "lateDefer" \in Features
  /\ defer_scopes' = PushLast(defer_scopes, next_defer)
  /\ frames' = [frames EXCEPT ![Len(frames)] =
                  [Top EXCEPT !.defers = Append(Top.defers, next_defer),
                              !.late = IF Top.owned = <<>> THEN "no" ELSE "yes"]]
  /\ next_defer' = next_defer + 1
  /\ UNCHANGED <<cfg, loops, scope_stack, owners, funcs, errors, result, outcome, event>>

Declare(local) ==
  /\ scope_stack' = PushLast(scope_stack, local)
  /\ frames' = [frames EXCEPT ![Len(frames)].owned = Append(@, local)]

\* x := <fresh owned pointer>
LetOwned ==
  /\ At(FALSE) /\ "own" \in Features /\ Statement
  /\ Declare(next_local)
  /\ Emit(<<[op |-> "init", id |-> next_local]>>)
  /\ next_local' = next_local + 1
  /\ UNCHANGED <<blocks, current_block, next_block, loops, defer_scopes, moved_locals, taken,
                 funcs, next_defer, errors, result, outcome, event>>

\* The owned variables in scope whose value has not been moved away.
Holders == (UNION {ToSet(frames[i].owned) : i \in ScopeFrames(Len(frames))}) \ taken

\* y := x.  The path x is first loaded into a temporary, and it is the
\* temporary that lower_let marks as moved.
LetMoved(src) ==
  LET y == next_local  temp == next_local + 1 IN
  /\ At(FALSE) /\ "move" \in Features /\ Statement
  /\ Declare(y)
  /\ moved_locals' = moved_locals \cup {temp}
  /\ taken' = taken \cup {src}
  /\ Emit(<<[op |-> "take", id |-> src], [op |-> "init", id |-> y]>>)
  /\ next_local' = next_local + 2
  /\ UNCHANGED <<blocks, current_block, next_block, loops, defer_scopes,
                 funcs, next_defer, errors, result, outcome, event>>

\* f(x).  An argument is loaded into a temporary and nothing is marked.
PassOwned(src) ==
  /\ At(FALSE) /\ "pass" \in Features /\ Statement
  /\ taken' = taken \cup {src}
  /\ Emit(<<[op |-> "take", id |-> src]>>)
  /\ next_local' = next_local + 1
  /\ UNCHANGED <<blocks, current_block, next_block, loops, scopes, moved_locals,
                 funcs, next_defer, errors, frames, result, outcome, event>>

\* A literal, a call: an expression that opens no block.
Simple(v) ==
  /\ At(TRUE) /\ Expected(TRUE) # "yes"
  /\ Complete(v, TRUE)
  /\ UNCHANGED <<cfg, loops, scopes, owners, source, errors, outcome, event>>

-----------------------------------------------------------------------------
(* Expr::Block.                                                            *)

EnterBlock(tail) ==
  /\ \/ /\ At(tail) /\ "block" \in Features /\ Statement
        /\ Top.kind = "func" => ~tail      \* a function body that is a block is not nested
     \/ /\ outcome = "lowering" /\ result = "pending"      \* the body of a loop
        /\ Top.kind = "loop" /\ tail /\ UNCHANGED fuel
  /\ frames' = Append(Marked(tail),
                 [kind |-> "block", tail |-> FALSE, must |-> Expected(tail),
                  depth |-> Len(scope_stack), loops |-> Len(loop_stack),
                  owned |-> <<>>, defers |-> <<>>, late |-> "no"])
  /\ scope_stack' = Append(scope_stack, <<>>)
  /\ defer_scopes' = Append(defer_scopes, <<>>)
  /\ UNCHANGED <<cfg, loops, owners, funcs, next_defer, errors, result, outcome, event>>

\* The block has no tail expression, or the tail produced a value.
LeaveBlock ==
  LET items == CleanupItems(LastScope(scope_stack), LastScope(defer_scopes)) IN
  /\ outcome = "lowering" /\ Top.kind = "block"
  /\ result = "pending" => Top.must # "yes"
  /\ result # "none"
  /\ Emit(items)
  /\ Record("end", items, Len(frames))
  /\ scope_stack' = Popped(scope_stack) /\ defer_scopes' = Popped(defer_scopes)
  /\ ReturnToCaller(IF result = "pending" THEN "void" ELSE result)
  /\ UNCHANGED <<blocks, current_block, next_block, loops, owners, source, errors, outcome>>

\* Mutant of AbandonBlock: one of the two scope stacks is popped, not the other.
AbandonHalf ==
  /\ outcome = "lowering" /\ Top.kind = "block" /\ result = "none"
  /\ "bareTail" \in Features
  /\ Record("end", <<>>, Len(frames))
  /\ defer_scopes' = Popped(defer_scopes)
  /\ ReturnToCaller("none")
  /\ UNCHANGED <<cfg, loops, scope_stack, owners, source, errors, outcome>>

\* The tail produced no value: the `?` after lower_expr_to_operand(tail)
\* returns before exit_scope.
AbandonBlock ==
  /\ outcome = "lowering" /\ Top.kind = "block" /\ result = "none"
  /\ "bareTail" \in Features
  /\ Record("end", <<>>, Len(frames))
  /\ ReturnToCaller("none")
  /\ UNCHANGED <<cfg, loops, scopes, owners, source, errors, outcome>>

-----------------------------------------------------------------------------
(* lower_loop.                                                             *)

BeginLoop(tail, label, cond) ==
  LET header == next_block  body == next_block + 1  exit == next_block + 2
      target == [header |-> header, exit |-> exit, depth |-> Len(scope_stack)]
  IN
  /\ At(tail) /\ "loop" \in Features /\ Statement
  /\ Expected(tail) # "yes" /\ FlowAllowed
  /\ Live
  /\ next_block' = next_block + 3
  /\ blocks' = SetTerm(blocks, current_block, Goto(header))
               \o << [id |-> header, term |-> IF cond THEN Switch({body, exit}) ELSE Goto(body)],
                     NewBlock(body) >>
  /\ current_block' = body
  /\ loop_stack' = Append(loop_stack, target)
  /\ label_map' = IF label = NoLabel THEN label_map ELSE [label_map EXCEPT ![label] = target]
  /\ frames' = Append(Marked(tail),
                 [kind |-> "loop", tail |-> TRUE, must |-> "any", depth |-> Len(scope_stack),
                  loops |-> Len(loop_stack) + 1, header |-> header, exit |-> exit, label |-> label])
  /\ UNCHANGED <<code, scopes, owners, funcs, next_defer, errors, result, outcome, event>>

\* `self.current_block?` fails: the ids are spent and the body is dropped.
LoopInDeadCode(tail) ==
  /\ At(tail) /\ "loop" \in Features /\ Statement
  /\ Expected(tail) # "yes"
  /\ ~Live
  /\ next_block' = next_block + 3
  /\ Complete("none", tail)
  /\ UNCHANGED <<blocks, code, current_block, loops, scopes, owners, funcs, next_defer,
                 errors, outcome, event>>

\* Mutant of EndLoop: the label outlives its loop.
EndLoopKeepsLabel ==
  LET falls == Live /\ TermOf(blocks, current_block) = Unreachable IN
  /\ outcome = "lowering" /\ Top.kind = "loop" /\ result # "pending"
  /\ loop_stack' = Popped(loop_stack)
  /\ blocks' = Append(IF falls THEN SetTerm(blocks, current_block, Goto(Top.header)) ELSE blocks,
                      NewBlock(Top.exit))
  /\ current_block' = Top.exit
  /\ ReturnToCaller("none")
  /\ UNCHANGED <<code, next_block, label_map, scopes, owners, source, errors, outcome, event>>

EndLoop ==
  LET falls == Live /\ current_block \in Ids(blocks)
                    /\ TermOf(blocks, current_block) = Unreachable
  IN
  /\ outcome = "lowering" /\ Top.kind = "loop" /\ result # "pending"
  /\ loop_stack' = Popped(loop_stack)
  /\ label_map' = IF Top.label = NoLabel THEN label_map ELSE [label_map EXCEPT ![Top.label] = NoTarget]
  /\ blocks' = Append(IF falls THEN SetTerm(blocks, current_block, Goto(Top.header)) ELSE blocks,
                      NewBlock(Top.exit))
  /\ current_block' = Top.exit
  /\ ReturnToCaller("none")
  /\ UNCHANGED <<code, next_block, scopes, owners, source, errors, outcome, event>>

-----------------------------------------------------------------------------
(* compile_patterns and DecisionNode::materialize.                         *)

Pattern == {"lit", "wild", "cond"}     \* literal or variant; wildcard or binding; guard

\* The decision blocks for arms with patterns pats and blocks arm[i], numbered
\* from first.  A guard returns at once, so the literals collected before it
\* are dropped; everything after the first wildcard is ignored.
Decision(pats, arm, first, fallback, unreachable) ==
  LET n       == Len(pats)
      before  == {i \in 1 .. n : \A k \in 1 .. i : pats[k] # "wild"}
      wild    == Cardinality(before) + 1
      guards  == {i \in before : pats[i] = "cond"}
      last    == Max(guards \cup {0})
      lits    == {i \in before : i > last}
      leaf    == IF wild \in 1 .. n THEN arm[wild] ELSE IF last = n THEN fallback ELSE unreachable
      m       == Cardinality(guards)
      count   == m + (IF lits = {} THEN 0 ELSE 1)
      node(j) == IF j <= count THEN first + j - 1 ELSE leaf
      tests(j) == IF j > m THEN lits       \* the arms decision block j chooses between
                  ELSE {i \in guards : Cardinality({g \in guards : g <= i}) = j}
  IN  [entry  |-> node(1),
       blocks |-> [j \in 1 .. count |->
                     [id   |-> node(j),
                      term |-> Switch({arm[i] : i \in tests(j)} \cup {node(j + 1)})]]]

-----------------------------------------------------------------------------
(* lower_branch.                                                           *)

\* ends[i]: what expr_always_terminates answers for the body of arm i.
BeginBranch(tail, pats, ends) ==
  LET n        == Len(pats)
      after    == next_block
      arm      == [i \in 1 .. n |-> next_block + i]
      allEnd   == \A i \in 1 .. n : ends[i] = "yes"
      guarded  == \E i \in 1 .. n : pats[i] = "cond"
      reuse    == allEnd /\ ~guarded
      unreach  == IF reuse THEN arm[n] ELSE next_block + n + 1
      first    == IF reuse THEN next_block + n + 1 ELSE next_block + n + 2
      decision == Decision(pats, arm, first, IF reuse THEN unreach ELSE after, unreach)
  IN
  /\ At(tail) /\ "branch" \in Features /\ Statement
  /\ Expected(tail) = "yes" => allEnd
  /\ Expected(tail) = "no" => ~allEnd
  /\ FlowAllowed
  /\ guarded => "guard" \in Features
  /\ (\E i \in 1 .. n : pats[i] # "cond") => "match" \in Features
  /\ Live
  /\ next_block' = first + Len(decision.blocks)
  /\ blocks' = SetTerm(blocks, current_block, Goto(decision.entry))
               \o decision.blocks \o <<NewBlock(arm[1])>>
  /\ current_block' = arm[1]
  /\ frames' = Append(Marked(tail),
                 [kind |-> "branch", tail |-> TRUE, must |-> "any",
                  depth |-> Len(scope_stack), loops |-> Len(loop_stack),
                  arms |-> [i \in 1 .. n |-> [block |-> arm[i], ends |-> ends[i]]],
                  next |-> 1, after |-> after, unreachable |-> unreach,
                  guarded |-> guarded, valued |-> FALSE])
  /\ UNCHANGED <<code, loops, scopes, owners, funcs, next_defer, errors, result, outcome, event>>

\* `current_block.expect("branch must have entry block")`.
BranchInDeadCode(tail) ==
  /\ At(tail) /\ "branch" \in Features /\ Statement
  /\ ~Live
  /\ outcome' = "ice"
  /\ UNCHANGED <<cfg, loops, scopes, owners, funcs, next_defer, errors, frames, result, event>>

\* Mutant of AfterArm: the first arm is linked whatever its terminator.
AfterArmAlways ==
  IF Top.next # 1 \/ result = "none" THEN blocks
  ELSE SetTerm(blocks, Top.arms[1].block, Goto(Top.after))

\* The blocks once the body of the next arm has returned.  Only the first arm,
\* and only if it has a value, is linked to the block after the branch here.
AfterArm ==
  LET b == Top.arms[1].block
      t == TermOf(blocks, b)
  IN  IF Top.next # 1 \/ result = "none" THEN blocks
      ELSE IF t = Unreachable THEN SetTerm(blocks, b, Goto(Top.after))
      ELSE IF t.kind = "Goto" /\ Live THEN SetTerm(blocks, current_block, Goto(Top.after))
      ELSE blocks

Valued == IF Top.next = 1 THEN result = "value" ELSE Top.valued

\* Mutant of PushIfNew: no push.
PushNever(bs, b) == bs

PushIfNew(bs, b) == IF b \in Ids(bs) THEN bs ELSE Append(bs, NewBlock(b))

NextArm ==
  LET arm == Top.arms[Top.next + 1].block IN
  /\ outcome = "lowering" /\ Top.kind = "branch" /\ result # "pending"
  /\ Top.next < Len(Top.arms)
  /\ blocks' = PushIfNew(AfterArm, arm)
  /\ current_block' = arm
  /\ frames' = [frames EXCEPT ![Len(frames)].next = @ + 1, ![Len(frames)].valued = Valued]
  /\ result' = "pending"
  /\ UNCHANGED <<code, next_block, loops, scopes, owners, source, errors, outcome, event>>

EndBranch ==
  LET arms   == {Top.arms[i].block : i \in DOMAIN Top.arms}
      bs     == AfterArm
      open   == {b \in arms : TermOf(bs, b) = Unreachable}
      linked == [i \in DOMAIN bs |->
                   IF bs[i].id \in open /\ IsFirst(bs, i)
                   THEN [bs[i] EXCEPT !.term = Goto(Top.after)] ELSE bs[i]]
  IN
  /\ outcome = "lowering" /\ Top.kind = "branch" /\ result # "pending"
  /\ Top.next = Len(Top.arms)
  /\ \/ /\ open # {}
        /\ blocks' = linked \o <<NewBlock(Top.after), NewBlock(Top.unreachable)>>
        /\ current_block' = Top.after
     \/ /\ open = {} /\ Top.guarded
        /\ blocks' = Append(PushIfNew(bs, Top.unreachable), NewBlock(Top.after))
        /\ current_block' = Top.after
     \/ /\ open = {} /\ ~Top.guarded
        /\ blocks' = PushIfNew(bs, Top.unreachable)
        /\ current_block' = NoBlock
  /\ ReturnToCaller(IF Valued THEN "value" ELSE "none")
  /\ UNCHANGED <<code, next_block, loops, scopes, owners, source, errors, outcome, event>>

-----------------------------------------------------------------------------
(* lower_ret, lower_stop / lower_skip / lower_jmp, lower_propagate.        *)

\* Only the innermost scope is left, and pushed back for its own end.
Ret(tail) ==
  LET owned  == LastScope(scope_stack)
      defers == LastScope(defer_scopes)
      items  == CleanupItems(owned, defers)
  IN
  /\ At(tail) /\ "ret" \in Features /\ Leaf(tail)
  /\ Expected(tail) # "no"
  /\ Live
  /\ Len(scope_stack) > 1 => "deepRet" \in Features
  /\ Emit(items)
  /\ Record("ret", items, 1)
  /\ scope_stack' = Append(Popped(scope_stack), owned)
  /\ defer_scopes' = Append(Popped(defer_scopes), defers)
  /\ blocks' = SetTerm(blocks, current_block, Return)
  /\ current_block' = NoBlock
  /\ Complete("none", tail)
  /\ UNCHANGED <<next_block, loops, owners, funcs, next_defer, errors, outcome>>

RetInDeadCode(tail) ==
  /\ At(tail) /\ "ret" \in Features /\ Leaf(tail)
  /\ Expected(tail) # "no"
  /\ ~Live
  /\ Complete("none", tail)
  /\ UNCHANGED <<cfg, loops, scopes, owners, funcs, next_defer, errors, outcome, event>>

TargetOf(label) ==
  IF label # NoLabel THEN label_map[label]
  ELSE IF loop_stack = <<>> THEN NoTarget ELSE Last(loop_stack)

\* The clean-up of every scope above depth, the outermost scope first: the
\* scopes are collected inner to outer and then walked with .rev().
UnwindItems(depth) ==
  FlattenSeq([i \in 1 .. (Len(scope_stack) - depth) |->
                CleanupItems(scope_stack[depth + i], defer_scopes[depth + i])])

\* The frame of the loop a jump with this label leaves or restarts.
EnclosingLoop(label) ==
  Max({i \in DOMAIN frames : frames[i].kind = "loop" /\ (label = NoLabel \/ frames[i].label = label)})

\* stop and jmp leave the loop through its exit, skip goes back to its header.
Jump(tail, skip, label) ==
  LET target == TargetOf(label)
      items  == UnwindItems(target.depth)
  IN
  /\ At(tail) /\ "jump" \in Features /\ Leaf(tail)
  /\ Expected(tail) # "no"
  /\ target # NoTarget
  /\ Len(scope_stack) > target.depth + 1 => "deepJump" \in Features
  /\ Emit(items)
  /\ Record("jump", items, EnclosingLoop(label) + 1)
  /\ blocks' = IF Live THEN SetTerm(blocks, current_block,
                                    Goto(IF skip THEN target.header ELSE target.exit))
                       ELSE blocks
  /\ current_block' = NoBlock
  /\ Complete("none", tail)
  /\ UNCHANGED <<next_block, loops, scopes, owners, funcs, next_defer, errors, outcome>>

\* "stop outside of loop" / "label not found": the flow goes on.
JumpNowhere(tail, label) ==
  /\ At(tail) /\ "jump" \in Features /\ Leaf(tail)
  /\ Expected(tail) # "no"
  /\ TargetOf(label) = NoTarget
  /\ errors' = TRUE
  /\ Complete("none", tail)
  /\ UNCHANGED <<cfg, loops, scopes, owners, funcs, next_defer, outcome, event>>

\* expr!: the error path returns at once, with no clean-up.  The three blocks are
\* pushed if expr is an error union; if it is another union they are only named, and
\* the one the code goes on with is not there either.
Propagate(tail) ==
  \E union \in {u \in BOOLEAN : u => "unionPropagate" \in Features} :
  LET error == next_block  success == next_block + 1  merge == next_block + 2 IN
  /\ At(tail) /\ "propagate" \in Features /\ Leaf(tail)
  /\ Expected(tail) # "yes" /\ FlowAllowed
  /\ next_block' = next_block + 3
  /\ blocks' = (IF Live THEN SetTerm(blocks, current_block, Switch({error, success})) ELSE blocks)
               \o IF union THEN <<>>
                  ELSE << [id |-> error, term |-> Return], [id |-> success, term |-> Goto(merge)],
                          NewBlock(merge) >>
  /\ current_block' = merge
  /\ Record("propagate", <<>>, 1)
  /\ Complete("value", tail)
  /\ UNCHANGED <<code, loops, scopes, owners, funcs, next_defer, errors, outcome>>

-----------------------------------------------------------------------------
Next ==
  \/ \E params \in 0 .. MaxParams, void, exprBody \in BOOLEAN : BeginFunc(params, void, exprBody)
  \/ EndFunc
  \/ Defer
  \/ LetOwned
  \/ \E src \in Holders : LetMoved(src)
  \/ \E src \in Holders : PassOwned(src)
  \/ \E v \in {"void", "value"} : Simple(v)
  \/ LeaveBlock
  \/ AbandonBlock
  \/ EndLoop
  \/ NextArm
  \/ EndBranch
  \/ \E tail \in BOOLEAN :
       \/ EnterBlock(tail)
       \/ \E label \in Labels \cup {NoLabel}, cond \in BOOLEAN : BeginLoop(tail, label, cond)
       \/ LoopInDeadCode(tail)
       \/ \E n \in 1 .. MaxArms :
            \E pats \in [1 .. n -> Pattern], ends \in [1 .. n -> {"yes", "no"}] :
              BeginBranch(tail, pats, ends)
       \/ BranchInDeadCode(tail)
       \/ Ret(tail)
       \/ RetInDeadCode(tail)
       \/ \E skip \in BOOLEAN, label \in Labels \cup {NoLabel} : Jump(tail, skip, label)
       \/ \E label \in Labels \cup {NoLabel} : JumpNowhere(tail, label)
       \/ Propagate(tail)

Spec == Init /\ [][Next]_vars

-----------------------------------------------------------------------------
(* Types.                                                                  *)

\* late: the last defer of the scope follows an owned local (read by the properties only).
Late == {"no"} \cup {l \in {"yes"} : "lateDefer" \in Features}
FuncFrame == [kind : {"func"}, tail : BOOLEAN, must : Static, depth : Nat, loops : Nat,
              owned : Seq(LocalId), defers : Seq(DeferId), late : Late, void : BOOLEAN]
BlockFrame == [kind : {"block"}, tail : BOOLEAN, must : Static, depth : Nat, loops : Nat,
               owned : Seq(LocalId), defers : Seq(DeferId), late : Late]
LoopFrame == [kind : {"loop"}, tail : BOOLEAN, must : Static, depth : Nat, loops : Nat,
               header : BlockId, exit : BlockId, label : Labels \cup {NoLabel}]
Arm == [block : BlockId, ends : Static]
BranchFrame ==
  {f \in [kind : {"branch"}, tail : BOOLEAN, must : Static, depth : Nat, loops : Nat,
          arms : Seq(Arm), next : Nat,
          after : BlockId, unreachable : BlockId, guarded : BOOLEAN, valued : BOOLEAN] :
     f.next \in DOMAIN f.arms}
Frame == FuncFrame \cup BlockFrame \cup LoopFrame \cup BranchFrame

\* Every component has its type.
TypeOK ==
  /\ blocks \in Seq(Block)
  /\ current_block \in BlockId \cup {NoBlock}
  /\ next_block \in Nat /\ next_local \in Nat
  /\ loop_stack \in Seq(Target)
  /\ label_map \in [Labels -> Target \cup {NoTarget}]
  /\ scope_stack \in Seq(Seq(LocalId)) /\ defer_scopes \in Seq(Seq(DeferId))
  /\ moved_locals \subseteq LocalId /\ taken \subseteq LocalId
  /\ errors \in BOOLEAN
  /\ frames \in Seq(Frame)
  /\ result \in Value \cup {"pending"}
  /\ outcome \in {"idle", "lowering", "lowered", "ice"}
  /\ fuel \in Nat /\ funcs \in Nat /\ next_defer \in Nat

-----------------------------------------------------------------------------
(* The discipline of the scope and loop stacks.                            *)

\* exit_scope answers an empty stack with an empty scope, so an unwinding that
\* went too far would lose clean-up without a trace.  No frame can make it:
\* the two stacks are popped together, every function or block frame still has
\* the scope it pushed to pop, and every loop a jump can name was entered inside
\* the function's scope and no deeper than the scopes now open.
UnwindsWithinStack ==
  outcome = "lowering" =>
    /\ Len(defer_scopes) = Len(scope_stack)
    /\ \A i \in DOMAIN frames :
         frames[i].kind \in {"func", "block"} => frames[i].depth < Len(scope_stack)
    /\ \A i \in DOMAIN loop_stack :
         loop_stack[i].depth \in 1 .. Len(scope_stack)
    /\ \A l \in Labels : label_map[l] # NoTarget => label_map[l].depth \in 1 .. Len(scope_stack)

LoopFrames == {i \in 1 .. Len(frames) : frames[i].kind = "loop"}
IsTarget(t, f) == t = [header |-> f.header, exit |-> f.exit, depth |-> f.depth]

\* A label that resolves names a loop whose body is still being lowered, so a
\* labelled jump never targets a loop that has already been closed.
LabelsNameOpenLoops ==
  outcome = "lowering" =>
    \A l \in Labels : label_map[l] # NoTarget =>
      \E i \in LoopFrames : frames[i].label = l /\ IsTarget(label_map[l], frames[i])

\* reset_function_state keeps loop_stack and label_map: lowering a function must
\* leave both empty, or the next function could jump into its predecessor.
LoopContextBalanced ==
  outcome \in {"idle", "lowered"} =>
    loop_stack = <<>> /\ \A l \in Labels : label_map[l] = NoTarget

\* How the call stack of the descent, the loop stack and the scope stack fit
\* together while a function is lowered.  This is what makes the three
\* invariants above inductive.
FrameNesting ==
  /\ frames # <<>> /\ Len(defer_scopes) = Len(scope_stack)
  /\ \A i \in 1 .. Len(frames) :
       /\ frames[i].kind = "func" <=> i = 1
       /\ frames[i].kind \in {"func", "block"} => frames[i].depth < Len(scope_stack)
       /\ frames[i].kind \in {"loop", "branch"} => frames[i].depth \in 1 .. Len(scope_stack)
  /\ \A i, j \in 1 .. Len(frames) : i < j =>
       /\ frames[i].depth <= frames[j].depth
       /\ frames[i].kind \in {"func", "block"} => frames[i].depth < frames[j].depth

LoopNesting ==
  /\ frames[1].loops = 0 /\ Top.loops = Len(loop_stack)
  /\ \A i, j \in 1 .. Len(frames) : i < j => frames[i].loops <= frames[j].loops
  /\ \A j \in 2 .. Len(frames) :
       frames[j].loops = frames[j - 1].loops + IF frames[j].kind = "loop" THEN 1 ELSE 0
  /\ \A i \in LoopFrames : /\ frames[i].loops \in 1 .. Len(loop_stack)
                           /\ IsTarget(loop_stack[frames[i].loops], frames[i])
  /\ \A k \in 1 .. Len(loop_stack) : \E i \in LoopFrames : frames[i].loops = k

LabelNesting ==
  \A l \in Labels : label_map[l] # NoTarget =>
    \E i \in LoopFrames : frames[i].label = l /\ IsTarget(label_map[l], frames[i])

StackShape ==
  /\ outcome = "lowering" => FrameNesting /\ LoopNesting /\ LabelNesting
  /\ LoopContextBalanced

-----------------------------------------------------------------------------
(* The control-flow graph.                                                 *)

\* The block under construction exists and nobody has decided where it goes, so
\* a construct that sets its terminator never overwrites a jump and no statement is
\* lost.  After `!` on a union (lower_propagate) there is no such block.
CurrentBlockOpen ==
  outcome = "lowering" /\ Live =>
    current_block \in Ids(blocks) /\ TermOf(blocks, current_block) = Unreachable

\* Inside one function a block is never removed, and once its terminator is
\* decided neither the terminator nor the statements change any more.
DecidedBlocksAreFinal ==
  [][funcs' = funcs =>
       /\ Len(blocks) <= Len(blocks')
       /\ \A i \in DOMAIN blocks :
            /\ blocks'[i].id = blocks[i].id
            /\ blocks[i].term # Unreachable =>
                 /\ blocks'[i].term = blocks[i].term
                 /\ blocks[i].id \in DOMAIN code => code'[blocks[i].id] = code[blocks[i].id]]_vars

\* Every target of a terminator is a block of the function (error 9003).
NoDanglingTarget == outcome = "lowered" /\ ~errors => Dangling(blocks) = {}

\* Control never runs into a block whose terminator was left undecided: each arm
\* of a branch, each loop and each block end rejoins the code that follows it.
NoDeadEnd ==
  outcome = "lowered" /\ ~errors =>
    \A b \in Reachable(blocks, 0) : TermOf(blocks, b) # Unreachable
=============================================================================
