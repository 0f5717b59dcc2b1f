--------------------------- MODULE LoweringProofs ---------------------------
(***************************************************************************)
(* For every bound and every choice of constructs: the components of the   *)
(* lowering have their types, and the call stack of the descent, the scope *)
(* stack, the loop stack and the label map stay nested in each other.      *)
(*                                                                         *)
(* Then, of the graph: the block under construction is open, a block whose *)
(* terminator is decided is final, and, in programs without literal and    *)
(* variant patterns, every jump has a target and control never runs into a *)
(* block that was left undecided.  What makes these hold is who owns the   *)
(* ids of the blocks that are not written yet, and who links those that    *)
(* are.                                                                    *)
(*                                                                         *)
(* The clean-up that the lowering emits refines what the language promises *)
(* (ScopedCleanup), for every bound, in programs whose jumps and returns   *)
(* leave one scope at a time, in which no value is moved and no block ends *)
(* in an expression without a value: there the stacks of the code mirror   *)
(* the lexical scopes.                                                     *)
(* Then, for every program, that the clean-ups of a function without jumps *)
(* or branches leave nothing out and do nothing twice: NothingLeaks, from  *)
(* an account of where each deferred block and owned local is.             *)
(***************************************************************************)
EXTENDS Cleanup, SequenceFacts

-----------------------------------------------------------------------------
(* Stacks of scopes.                                                       *)

\* What is left of a stack of scopes after a pop is a stack of scopes (Popped).
LEMMA PoppedType ==
  ASSUME NEW S, NEW s \in Seq(S)
  PROVE  /\ Popped(s) \in Seq(S)
         /\ Len(Popped(s)) = IF s = <<>> THEN 0 ELSE Len(s) - 1
BY FrontType, EmptySeq DEF Popped

\* exit_scope yields a scope even when the stack is empty (LastScope).
LEMMA LastScopeType ==
  ASSUME NEW S, NEW s \in Seq(Seq(S))
  PROVE  LastScope(s) \in Seq(S)
BY LastType, EmptySeq DEF LastScope

\* Declaring in the innermost scope keeps the depth of the stack (PushLast).
LEMMA PushLastType ==
  ASSUME NEW S, NEW s \in Seq(Seq(S)), NEW x \in S
  PROVE  PushLast(s, x) \in Seq(Seq(S)) /\ Len(PushLast(s, x)) = Len(s)
<1>1. CASE s = <<>>
  BY <1>1 DEF PushLast
<1>2. CASE s # <<>>
  BY <1>2, LastType, ExceptType DEF Last, PushLast
<1> QED BY <1>1, <1>2

-----------------------------------------------------------------------------
(* The graph.                                                              *)

\* The terminators the lowering writes are terminators, and a new block is a block.
LEMMA TermTypes ==
  /\ Return \in Terminator /\ Unreachable \in Terminator
  /\ \A b \in BlockId : Goto(b) \in Terminator
  /\ \A bs \in SUBSET BlockId : Switch(bs) \in Terminator
  /\ \A b \in BlockId : NewBlock(b) \in Block
BY DEF Return, Unreachable, Goto, Switch, NewBlock, Block, Terminator, TermKind

\* Assigning a terminator keeps the body a sequence of blocks (SetTerm).
LEMMA SetTermType ==
  ASSUME NEW bs \in Seq(Block), NEW b, NEW t \in Terminator
  PROVE  SetTerm(bs, b, t) \in Seq(Block)
<1> DEFINE new(i) == IF bs[i].id = b /\ IsFirst(bs, i) THEN [bs[i] EXCEPT !.term = t] ELSE bs[i]
<1>1. Len(bs) \in Nat /\ DOMAIN bs = 1 .. Len(bs)
  BY LenProperties
<1>2. \A i \in 1 .. Len(bs) : new(i) \in Block
  <2> TAKE i \in 1 .. Len(bs)
  <2>1. bs[i] \in Block
    BY ElementOfSeq
  <2> QED BY <2>1 DEF Block
<1> HIDE DEF new
<1>3. [i \in 1 .. Len(bs) |-> new(i)] \in Seq(Block)
  BY <1>1, <1>2
<1>4. SetTerm(bs, b, t) = [i \in 1 .. Len(bs) |-> new(i)]
  BY <1>1 DEF SetTerm, new
<1> QED BY <1>3, <1>4

\* Pushing an arm's block keeps the body a sequence of blocks (PushIfNew).
LEMMA PushIfNewType ==
  ASSUME NEW bs \in Seq(Block), NEW b \in BlockId
  PROVE  PushIfNew(bs, b) \in Seq(Block)
BY TermTypes DEF PushIfNew

\* The decision blocks of a branch are blocks, and entry is one of the ids.
LEMMA DecisionType ==
  ASSUME NEW n \in Nat, NEW pats \in [1 .. n -> Pattern], NEW arm \in [1 .. n -> BlockId],
         NEW first \in BlockId, NEW fallback \in BlockId, NEW unreachable \in BlockId
  PROVE  /\ Decision(pats, arm, first, fallback, unreachable).blocks \in Seq(Block)
         /\ Decision(pats, arm, first, fallback, unreachable).entry \in BlockId
PROOF
<1> DEFINE before  == {i \in 1 .. n : \A k \in 1 .. i : pats[k] # "wild"}
           wild    == Cardinality(before) + 1
           guards  == {i \in before : pats[i] = "cond"}
           last    == Max(guards \cup {0})
           lits    == {i \in before : i > last}
           leaf    == IF wild \in 1 .. n THEN arm[wild]
                      ELSE IF last = n THEN fallback ELSE unreachable
           m       == Cardinality(guards)
           count   == m + (IF lits = {} THEN 0 ELSE 1)
           node(j) == IF j <= count THEN first + j - 1 ELSE leaf
           tests(j) == IF j > m THEN lits
                       ELSE {i \in guards : Cardinality({g \in guards : g <= i}) = j}
           blk(j)  == [id   |-> node(j),
                       term |-> Switch({arm[i] : i \in tests(j)} \cup {node(j + 1)})]
<1>0. Len(pats) = n
  OBVIOUS
<1>1. Decision(pats, arm, first, fallback, unreachable) =
        [entry |-> node(1), blocks |-> [j \in 1 .. count |-> blk(j)]]
  BY <1>0 DEF Decision
<1>2. m \in Nat
  <2>1. IsFiniteSet(1 .. n)
    BY FS_Interval
  <2>2. IsFiniteSet(guards)
    BY <2>1, FS_Subset
  <2> QED BY <2>2, FS_CardinalityType
<1>3. count \in Nat
  BY <1>2
<1>4. leaf \in BlockId
  <2> HIDE DEF wild, last
  <2> QED OBVIOUS
<1>5. \A j \in Nat \ {0} : node(j) \in BlockId
  <2> HIDE DEF leaf, count
  <2> QED BY <1>3, <1>4 DEF BlockId
<1>6. \A j : \A i \in tests(j) : arm[i] \in BlockId
  <2> HIDE DEF last, m
  <2> QED OBVIOUS
<1>7. \A j \in 1 .. count : blk(j) \in Block
  <2> TAKE j \in 1 .. count
  <2>1. j \in Nat \ {0} /\ j + 1 \in Nat \ {0}
    BY <1>3
  <2>2. {arm[i] : i \in tests(j)} \cup {node(j + 1)} \in SUBSET BlockId
    BY <2>1, <1>5, <1>6
  <2> HIDE DEF node, tests
  <2> QED BY <2>1, <2>2, <1>5, TermTypes DEF Block
<1>8. [j \in 1 .. count |-> blk(j)] \in Seq(Block)
  <2> HIDE DEF blk, count
  <2> QED BY <1>3, <1>7
<1> HIDE DEF node, blk, count
<1> QED BY <1>1, <1>5, <1>8
-----------------------------------------------------------------------------
(* Frames.                                                                 *)

\* Two frames that the nesting of the stacks cannot tell apart.
SameShape(f, g) ==
  /\ f.kind = g.kind /\ f.depth = g.depth /\ f.loops = g.loops
  /\ g.kind = "loop" => f.header = g.header /\ f.exit = g.exit /\ f.label = g.label

\* Marking a frame with the position of the expression below it.
LEMMA FrameTail ==
  ASSUME NEW f \in Frame, NEW t \in BOOLEAN
  PROVE  [f EXCEPT !.tail = t] \in Frame /\ SameShape([f EXCEPT !.tail = t], f)
<1>1. CASE f \in FuncFrame
  BY <1>1 DEF Frame, FuncFrame, SameShape
<1>2. CASE f \in BlockFrame
  BY <1>2 DEF Frame, BlockFrame, SameShape
<1>3. CASE f \in LoopFrame
  BY <1>3 DEF Frame, LoopFrame, SameShape
<1>4. CASE f \in BranchFrame
  BY <1>4 DEF Frame, BranchFrame, SameShape
<1> QED BY <1>1, <1>2, <1>3, <1>4 DEF Frame

\* What every frame has, and what the kind of a frame says of it.
LEMMA FrameFields ==
  ASSUME NEW f \in Frame
  PROVE  /\ f.kind \in {"func", "block", "loop", "branch"}
         /\ f.depth \in Nat /\ f.loops \in Nat /\ f.tail \in BOOLEAN /\ f.must \in Static
         /\ f.kind = "func" => f \in FuncFrame
         /\ f.kind = "block" => f \in BlockFrame
         /\ f.kind = "loop" => f \in LoopFrame
         /\ f.kind = "branch" => f \in BranchFrame
BY DEF Frame, FuncFrame, BlockFrame, LoopFrame, BranchFrame

\* A declaration is recorded in the frame of its scope.
LEMMA FrameOwns ==
  ASSUME NEW f \in Frame, f.kind \in {"func", "block"}, NEW x \in Nat
  PROVE  /\ [f EXCEPT !.owned = Append(@, x)] \in Frame
         /\ SameShape([f EXCEPT !.owned = Append(@, x)], f)
<1>1. CASE f.kind = "func"
  <2>1. f \in FuncFrame
    BY <1>1, FrameFields
  <2>2. Append(f.owned, x) \in Seq(LocalId)
    BY <2>1 DEF FuncFrame, LocalId
  <2> QED BY <2>1, <2>2 DEF Frame, FuncFrame, SameShape
<1>2. CASE f.kind = "block"
  <2>1. f \in BlockFrame
    BY <1>2, FrameFields
  <2>2. Append(f.owned, x) \in Seq(LocalId)
    BY <2>1 DEF BlockFrame, LocalId
  <2> QED BY <2>1, <2>2 DEF Frame, BlockFrame, SameShape
<1> QED BY <1>1, <1>2

\* A defer is.
LEMMA FrameDefers ==
  ASSUME NEW f \in Frame, f.kind \in {"func", "block"}, NEW x \in Nat, NEW late \in Late
  PROVE  /\ [f EXCEPT !.defers = Append(@, x), !.late = late] \in Frame
         /\ SameShape([f EXCEPT !.defers = Append(@, x), !.late = late], f)
<1>1. CASE f.kind = "func"
  <2>1. f \in FuncFrame
    BY <1>1, FrameFields
  <2>2. Append(f.defers, x) \in Seq(DeferId)
    BY <2>1 DEF FuncFrame, DeferId
  <2> QED BY <2>1, <2>2 DEF Frame, FuncFrame, SameShape
<1>2. CASE f.kind = "block"
  <2>1. f \in BlockFrame
    BY <1>2, FrameFields
  <2>2. Append(f.defers, x) \in Seq(DeferId)
    BY <2>1 DEF BlockFrame, DeferId
  <2> QED BY <2>1, <2>2 DEF Frame, BlockFrame, SameShape
<1> QED BY <1>1, <1>2

\* The top frame of a descent under way.
LEMMA TopType ==
  ASSUME TypeOK, StackShape, outcome = "lowering"
  PROVE  frames # <<>> /\ Len(frames) \in DOMAIN frames /\ Top \in Frame
         /\ Top = frames[Len(frames)]
BY LastType, LenProperties DEF TypeOK, StackShape, FrameNesting, Top, Last

\* The frames stay frames when the top one is told where its callee starts.
LEMMA MarkedType ==
  ASSUME TypeOK, StackShape, outcome = "lowering", NEW tail \in BOOLEAN
  PROVE  /\ Marked(tail) \in Seq(Frame) /\ Len(Marked(tail)) = Len(frames)
         /\ \A i \in DOMAIN frames : SameShape(Marked(tail)[i], frames[i])
<1> DEFINE n == Len(frames)  f == [frames[n] EXCEPT !.tail = tail]
<1>1. frames \in Seq(Frame) /\ frames[n] \in Frame
  BY TopType DEF TypeOK
<1>2. f \in Frame /\ SameShape(f, frames[n])
  BY <1>1, FrameTail
<1>3. Marked(tail) = [frames EXCEPT ![n] = f]
  BY DEF Marked
<1> HIDE DEF f
<1>4. \A i \in DOMAIN frames : [frames EXCEPT ![n] = f][i] = IF i = n THEN f ELSE frames[i]
  BY <1>1, <1>2, ExceptType
<1>5. \A i \in DOMAIN frames : SameShape(frames[i], frames[i])
  BY DEF SameShape
<1> QED BY <1>1, <1>2, <1>3, <1>4, <1>5, ExceptType

\* A branch being lowered is at one of its arms.
LEMMA BranchTop ==
  ASSUME TypeOK, StackShape, outcome = "lowering", Top.kind = "branch"
  PROVE  /\ Top \in BranchFrame /\ Top.arms \in Seq(Arm) /\ Top.next \in 1 .. Len(Top.arms)
         /\ \A i \in 1 .. Len(Top.arms) : Top.arms[i].block \in BlockId
                                       /\ Top.arms[i].ends \in Static
<1>1. Top \in BranchFrame
  BY TopType, FrameFields
<1>2. Top.arms \in Seq(Arm) /\ Top.next \in DOMAIN Top.arms
  BY <1>1 DEF BranchFrame
<1>3. DOMAIN Top.arms = 1 .. Len(Top.arms) /\ \A i \in 1 .. Len(Top.arms) : Top.arms[i] \in Arm
  BY <1>2, LenProperties, ElementOfSeq
<1> QED BY <1>1, <1>2, <1>3 DEF Arm

\* What is known of the termination of the next expression is one of three answers.
LEMMA ExpectedType ==
  ASSUME TypeOK, StackShape, outcome = "lowering", NEW tail \in BOOLEAN
  PROVE  Expected(tail) \in Static
<1>1. Top \in Frame
  BY TopType
<1>2. Top.must \in Static
  BY <1>1, FrameFields
<1>3. Top.kind = "branch" => Top.arms[Top.next].ends \in Static
  BY BranchTop
<1> QED BY <1>2, <1>3 DEF Expected, Static

\* A variable that can be moved is a local (Holders).
LEMMA HolderType ==
  ASSUME TypeOK, NEW src \in Holders
  PROVE  src \in LocalId
<1>1. PICK i \in ScopeFrames(Len(frames)) : src \in ToSet(frames[i].owned)
  BY DEF Holders
<1>2. i \in DOMAIN frames /\ frames[i] \in Frame /\ frames[i].kind \in {"func", "block"}
  BY LenProperties, ElementOfSeq DEF ScopeFrames, TypeOK
<1>3. frames[i].owned \in Seq(LocalId)
  BY <1>2, FrameFields DEF FuncFrame, BlockFrame
<1> QED BY <1>1, <1>3, ElementOfSeq, LenProperties DEF ToSet

\* What Complete and ReturnToCaller do to the stack of frames.
LEMMA CompleteType ==
  ASSUME TypeOK, StackShape, outcome = "lowering",
         NEW v \in Value, NEW tail \in BOOLEAN, Complete(v, tail)
  PROVE  frames' \in Seq(Frame) /\ result' \in Value \cup {"pending"}
BY MarkedType DEF Complete

\* Returning to the caller keeps the descent's stack and its result typed.
LEMMA ReturnType ==
  ASSUME TypeOK, NEW v \in Value, ReturnToCaller(v)
  PROVE  frames' \in Seq(Frame) /\ result' \in Value \cup {"pending"}
BY FrontType DEF ReturnToCaller, TypeOK

\* A new owned local keeps the scopes and the frames typed (Declare).
LEMMA DeclareType ==
  ASSUME TypeOK, StackShape, outcome = "lowering", Top.kind \in {"func", "block"},
         NEW x \in LocalId, Declare(x)
  PROVE  /\ frames' \in Seq(Frame) /\ scope_stack' \in Seq(Seq(LocalId))
         /\ Len(frames') = Len(frames) /\ Len(scope_stack') = Len(scope_stack)
         /\ \A i \in DOMAIN frames : SameShape(frames'[i], frames[i])
<1> DEFINE n == Len(frames)  f == [frames[n] EXCEPT !.owned = Append(@, x)]
<1>1. frames \in Seq(Frame) /\ frames[n] \in Frame /\ frames[n].kind \in {"func", "block"}
  BY TopType DEF TypeOK
<1>2. f \in Frame /\ SameShape(f, frames[n])
  BY <1>1, FrameOwns DEF LocalId
<1>3. frames' = [frames EXCEPT ![n] = f]
  BY DEF Declare
<1> HIDE DEF f
<1>4. \A i \in DOMAIN frames : [frames EXCEPT ![n] = f][i] = IF i = n THEN f ELSE frames[i]
  BY <1>1, <1>2, ExceptType
<1>5. \A i \in DOMAIN frames : SameShape(frames[i], frames[i])
  BY DEF SameShape
<1>6. frames' \in Seq(Frame) /\ Len(frames') = Len(frames)
  BY <1>1, <1>2, <1>3, ExceptType
<1>7. scope_stack' \in Seq(Seq(LocalId)) /\ Len(scope_stack') = Len(scope_stack)
  BY PushLastType DEF Declare, TypeOK
<1> QED BY <1>2, <1>3, <1>4, <1>5, <1>6, <1>7

\* A new defer keeps the scopes and the frames typed (Defer).
LEMMA DeferType ==
  ASSUME TypeOK, StackShape, Defer
  PROVE  /\ frames' \in Seq(Frame) /\ defer_scopes' \in Seq(Seq(DeferId))
         /\ Len(frames') = Len(frames) /\ Len(defer_scopes') = Len(defer_scopes)
         /\ \A i \in DOMAIN frames : SameShape(frames'[i], frames[i])
<1> DEFINE n == Len(frames)  late == IF Top.owned = <<>> THEN "no" ELSE "yes"
           f == [Top EXCEPT !.defers = Append(Top.defers, next_defer), !.late = late]
<1>0. outcome = "lowering" /\ Top.kind \in {"func", "block"} /\ late \in Late
  BY DEF Defer, At, Late
<1>1. frames \in Seq(Frame) /\ frames[n] = Top /\ Top \in Frame /\ n \in DOMAIN frames
  BY <1>0, TopType DEF TypeOK
<1>2. f \in Frame /\ SameShape(f, frames[n])
  BY <1>0, <1>1, FrameDefers DEF TypeOK
<1>3. frames' = [frames EXCEPT ![n] = f]
  BY DEF Defer
<1> HIDE DEF f
<1>4. \A i \in DOMAIN frames : [frames EXCEPT ![n] = f][i] = IF i = n THEN f ELSE frames[i]
  BY <1>1, <1>2, ExceptType
<1>5. \A i \in DOMAIN frames : SameShape(frames[i], frames[i])
  BY DEF SameShape
<1>6. frames' \in Seq(Frame) /\ Len(frames') = Len(frames)
  BY <1>1, <1>2, <1>3, ExceptType
<1>7. defer_scopes' \in Seq(Seq(DeferId)) /\ Len(defer_scopes') = Len(defer_scopes)
  BY PushLastType DEF Defer, TypeOK, DeferId
<1> QED BY <1>2, <1>3, <1>4, <1>5, <1>6, <1>7

\* Linking the first arm of a branch keeps the body a sequence of blocks.
LEMMA AfterArmType ==
  ASSUME TypeOK, StackShape, outcome = "lowering", Top.kind = "branch"
  PROVE  AfterArm \in Seq(Block)
<1>1. Top.after \in BlockId
  BY BranchTop DEF BranchFrame
<1>2. \A b : SetTerm(blocks, b, Goto(Top.after)) \in Seq(Block)
  BY <1>1, SetTermType, TermTypes DEF TypeOK
<1> QED BY <1>2 DEF AfterArm, TypeOK

\* The statements left to choose are a natural number after every construct.
LEMMA FuelType ==
  ASSUME TypeOK
  PROVE  (Statement => fuel' \in Nat) /\ \A tail \in BOOLEAN : Leaf(tail) => fuel' \in Nat
BY DEF TypeOK, Statement, Leaf

-----------------------------------------------------------------------------
(* Types: one step per action.                                             *)

\* The types hold before the first function.
LEMMA TypeInit == Init => TypeOK
<1> SUFFICES ASSUME Init PROVE TypeOK
  OBVIOUS
<1>1. blocks \in Seq(Block) /\ loop_stack \in Seq(Target) /\ frames \in Seq(Frame)
  BY EmptySeq DEF Init
<1>2. scope_stack \in Seq(Seq(LocalId)) /\ defer_scopes \in Seq(Seq(DeferId))
  BY EmptySeq DEF Init
<1>3. label_map \in [Labels -> Target \cup {NoTarget}]
  BY DEF Init
<1> QED BY <1>1, <1>2, <1>3 DEF Init, TypeOK, BlockId, Value

\* Every action of the lowering keeps the types.
LEMMA TypeStep ==
  ASSUME TypeOK, StackShape, [Next]_vars
  PROVE  TypeOK'
<1> USE DEF cfg, loops, scopes, owners, source
<1>1. ASSUME NEW params \in 0 .. MaxParams, NEW void \in BOOLEAN, NEW exprBody \in BOOLEAN,
             BeginFunc(params, void, exprBody)
      PROVE  TypeOK'
  <2> DEFINE owned == [i \in 1 .. params |-> i - 1]
             f == [kind |-> "func", tail |-> exprBody, must |-> "any", depth |-> 0,
                   loops |-> Len(loop_stack), owned |-> owned, defers |-> <<>>,
                   late |-> "no", void |-> void]
  <2>1. params \in Nat /\ owned \in Seq(LocalId)
    BY LoweringAssumption DEF LocalId
  <2>2. Len(loop_stack) \in Nat
    BY DEF TypeOK
  <2> HIDE DEF owned
  <2>3. f \in Frame
    BY <2>1, <2>2, EmptySeq DEF Frame, FuncFrame, Static, Late
  <2>4. NewBlock(0) \in Block
    BY TermTypes DEF BlockId
  <2>5. frames' = <<f>> /\ blocks' = <<NewBlock(0)>> /\ scope_stack' = <<owned>>
        /\ defer_scopes' = << <<>> >>
    BY <1>1 DEF BeginFunc, owned
  <2> HIDE DEF f
  <2>6. frames' \in Seq(Frame) /\ blocks' \in Seq(Block) /\ scope_stack' \in Seq(Seq(LocalId))
        /\ defer_scopes' \in Seq(Seq(DeferId))
    BY <2>1, <2>3, <2>4, <2>5
  <2>7. current_block' \in BlockId \cup {NoBlock} /\ next_block' \in Nat /\ next_local' \in Nat
        /\ moved_locals' \subseteq LocalId /\ taken' \subseteq LocalId
    BY <1>1, <2>1 DEF BeginFunc, BlockId
  <2>8. result' \in Value \cup {"pending"} /\ outcome' \in {"idle", "lowering", "lowered", "ice"}
        /\ fuel' \in Nat /\ funcs' \in Nat /\ next_defer' \in Nat
    BY <1>1, LoweringAssumption DEF BeginFunc, TypeOK
  <2>9. UNCHANGED <<loop_stack, label_map, errors>>
    BY <1>1 DEF BeginFunc
  <2> QED BY <2>6, <2>7, <2>8, <2>9 DEF TypeOK
<1>2. ASSUME EndFunc PROVE TypeOK'
  <2> DEFINE valued == IF result \in {"void", "value"} /\ Live
                       THEN SetTerm(blocks, current_block, Return) ELSE blocks
  <2>1. valued \in Seq(Block)
    BY SetTermType, TermTypes DEF TypeOK
  <2>2. SetTerm(valued, current_block, Return) \in Seq(Block)
    BY <2>1, SetTermType, TermTypes
  <2>3. blocks' \in Seq(Block)
    BY <1>2, <2>1, <2>2 DEF EndFunc
  <2>4. scope_stack' \in Seq(Seq(LocalId)) /\ defer_scopes' \in Seq(Seq(DeferId))
    BY <1>2, PoppedType DEF EndFunc, TypeOK
  <2>5. frames' \in Seq(Frame) /\ errors' \in BOOLEAN
    BY <1>2, EmptySeq DEF EndFunc, TypeOK
  <2> QED BY <1>2, <2>3, <2>4, <2>5 DEF EndFunc, TypeOK
<1>3. ASSUME Defer PROVE TypeOK'
  <2>1. frames' \in Seq(Frame) /\ defer_scopes' \in Seq(Seq(DeferId))
    BY <1>3, DeferType
  <2>2. fuel' \in Nat /\ next_defer' \in Nat
    BY <1>3, FuelType DEF Defer, TypeOK
  <2>3. /\ UNCHANGED <<cfg, loops, scope_stack, owners>>
        /\ UNCHANGED <<funcs, errors, result, outcome>>
    BY <1>3 DEF Defer
  <2> QED BY <2>1, <2>2, <2>3 DEF TypeOK
<1>4. ASSUME LetOwned PROVE TypeOK'
  BY <1>4, DeclareType DEF LetOwned, At, TypeOK, LocalId, Statement
<1>5. ASSUME NEW src \in Holders, LetMoved(src) PROVE TypeOK'
  <2>1. frames' \in Seq(Frame) /\ scope_stack' \in Seq(Seq(LocalId))
    BY <1>5, DeclareType DEF LetMoved, At, TypeOK, LocalId
  <2>2. src \in LocalId
    BY HolderType
  <2> QED BY <1>5, <2>1, <2>2 DEF LetMoved, Statement, TypeOK, LocalId
<1>6. ASSUME NEW src \in Holders, PassOwned(src) PROVE TypeOK'
  <2>1. src \in LocalId
    BY HolderType
  <2> QED BY <1>6, <2>1 DEF PassOwned, Statement, TypeOK, LocalId
<1>7. ASSUME NEW v \in {"void", "value"}, Simple(v) PROVE TypeOK'
  BY <1>7, CompleteType DEF Simple, At, Value, TypeOK
<1>8. ASSUME LeaveBlock PROVE TypeOK'
  BY <1>8, ReturnType, PoppedType DEF LeaveBlock, TypeOK, Value
<1>9. ASSUME AbandonBlock PROVE TypeOK'
  BY <1>9, ReturnType DEF AbandonBlock, Value, TypeOK
<1>10. ASSUME EndLoop PROVE TypeOK'
  <2>1. frames' \in Seq(Frame) /\ result' \in Value \cup {"pending"}
    BY <1>10, ReturnType DEF EndLoop, Value
  <2>2. Top \in LoopFrame
    BY <1>10, TopType, FrameFields DEF EndLoop
  <2>3. Top.header \in BlockId /\ Top.exit \in BlockId
    BY <2>2 DEF LoopFrame
  <2>4. SetTerm(blocks, current_block, Goto(Top.header)) \in Seq(Block)
    BY <2>3, SetTermType, TermTypes DEF TypeOK
  <2>5. blocks' \in Seq(Block)
    BY <1>10, <2>3, <2>4, TermTypes DEF EndLoop, TypeOK
  <2>6. loop_stack' \in Seq(Target)
    BY <1>10, PoppedType DEF EndLoop, TypeOK
  <2>7. label_map' \in [Labels -> Target \cup {NoTarget}]
    BY <1>10 DEF EndLoop, TypeOK
  <2> QED BY <1>10, <2>1, <2>3, <2>5, <2>6, <2>7 DEF EndLoop, TypeOK
<1>11. ASSUME NextArm PROVE TypeOK'
  <2> DEFINE n == Len(frames)
             v == IF Top.next = 1 THEN result = "value" ELSE Top.valued
             f == [frames[n] EXCEPT !.next = @ + 1, !.valued = v]
  <2>1. outcome = "lowering" /\ Top.kind = "branch" /\ Top.next < Len(Top.arms)
    BY <1>11 DEF NextArm
  <2>2. Top \in BranchFrame /\ Top = frames[n] /\ Top.next + 1 \in 1 .. Len(Top.arms)
        /\ Top.arms \in Seq(Arm)
    BY <2>1, TopType, BranchTop
  <2>3. v \in BOOLEAN
    BY <2>2 DEF BranchFrame
  <2> HIDE DEF v
  <2>4. f \in Frame
    <3> DEFINE g == frames[n]
    <3> DEFINE k == g.next + 1
    <3>1. g \in BranchFrame /\ k \in DOMAIN g.arms /\ k \in Nat
      BY <2>2, LenProperties
    <3>2. f = [[g EXCEPT !.next = k] EXCEPT !.valued = v]
      OBVIOUS
    <3> HIDE DEF g, k, f
    <3>3. [g EXCEPT !.next = k] \in BranchFrame
      BY <3>1 DEF BranchFrame
    <3>4. [[g EXCEPT !.next = k] EXCEPT !.valued = v] \in BranchFrame
      BY <2>3, <3>3 DEF BranchFrame
    <3> QED BY <3>2, <3>4 DEF Frame
  <2>5. frames' = [[frames EXCEPT ![n].next = @ + 1] EXCEPT ![n].valued = v]
    BY <1>11 DEF NextArm, Valued, v
  <2>6. n \in DOMAIN frames
    BY <2>1, TopType
  <2>7. frames' = [frames EXCEPT ![n] = f]
    BY <2>5, <2>6
  <2> HIDE DEF f
  <2>8. frames' \in Seq(Frame)
    BY <2>4, <2>7, ExceptType DEF TypeOK
  <2>9. blocks' \in Seq(Block) /\ current_block' \in BlockId
    BY <1>11, <2>1, <2>2, AfterArmType, PushIfNewType, BranchTop DEF NextArm
  <2> QED BY <1>11, <2>8, <2>9 DEF NextArm, TypeOK
<1>12. ASSUME EndBranch PROVE TypeOK'
  <2> DEFINE bs == AfterArm
             arms == {Top.arms[i].block : i \in DOMAIN Top.arms}
             opened == {b \in arms : TermOf(bs, b) = Unreachable}
             link(i) == IF bs[i].id \in opened /\ IsFirst(bs, i)
                        THEN [bs[i] EXCEPT !.term = Goto(Top.after)] ELSE bs[i]
             linked == [i \in DOMAIN bs |-> link(i)]
  <2>1. outcome = "lowering" /\ Top.kind = "branch"
    BY <1>12 DEF EndBranch
  <2>2. Top.after \in BlockId /\ Top.unreachable \in BlockId
    BY <2>1, BranchTop DEF BranchFrame
  <2>3. bs \in Seq(Block)
    BY <2>1, AfterArmType
  <2> HIDE DEF bs, opened
  <2>4. linked \in Seq(Block)
    <3>1. DOMAIN bs = 1 .. Len(bs) /\ Len(bs) \in Nat
      BY <2>3, LenProperties
    <3>2. \A i \in 1 .. Len(bs) : link(i) \in Block
      <4> TAKE i \in 1 .. Len(bs)
      <4>1. bs[i] \in Block /\ Goto(Top.after) \in Terminator
        BY <2>2, <2>3, ElementOfSeq, TermTypes
      <4> QED BY <4>1 DEF Block
    <3> HIDE DEF link
    <3> QED BY <3>1, <3>2
  <2> HIDE DEF linked
  <2>5. linked \o <<NewBlock(Top.after), NewBlock(Top.unreachable)>> \in Seq(Block)
    BY <2>2, <2>4, TermTypes
  <2>6. PushIfNew(bs, Top.unreachable) \in Seq(Block)
    BY <2>2, <2>3, PushIfNewType
  <2>7. Append(PushIfNew(bs, Top.unreachable), NewBlock(Top.after)) \in Seq(Block)
    BY <2>2, <2>6, TermTypes
  <2>8. blocks' \in Seq(Block) /\ current_block' \in BlockId \cup {NoBlock}
    <3> HIDE DEF link
    <3> QED BY <1>12, <2>2, <2>5, <2>6, <2>7 DEF EndBranch, bs, arms, opened, linked, link
  <2>9. frames' \in Seq(Frame) /\ result' \in Value \cup {"pending"}
    BY <1>12, ReturnType DEF EndBranch, Value
  <2> QED BY <1>12, <2>8, <2>9 DEF EndBranch, TypeOK
<1>13. ASSUME NEW tail \in BOOLEAN, EnterBlock(tail) PROVE TypeOK'
  <2> DEFINE f == [kind |-> "block", tail |-> FALSE, must |-> Expected(tail),
                   depth |-> Len(scope_stack), loops |-> Len(loop_stack),
                   owned |-> <<>>, defers |-> <<>>, late |-> "no"]
  <2>1. outcome = "lowering"
    BY <1>13 DEF EnterBlock, At
  <2>2. f \in Frame
    BY <2>1, ExpectedType, EmptySeq DEF Frame, BlockFrame, TypeOK, Late
  <2> HIDE DEF f
  <2>3. frames' \in Seq(Frame)
    BY <1>13, <2>1, <2>2, MarkedType DEF EnterBlock, f
  <2>4. scope_stack' \in Seq(Seq(LocalId)) /\ defer_scopes' \in Seq(Seq(DeferId))
    BY <1>13, EmptySeq DEF EnterBlock, TypeOK
  <2>5. fuel' \in Nat
    BY <1>13, FuelType DEF EnterBlock, TypeOK
  <2> QED BY <1>13, <2>3, <2>4, <2>5 DEF EnterBlock, TypeOK
<1>14. ASSUME NEW tail \in BOOLEAN, NEW label \in Labels \cup {NoLabel}, NEW cond \in BOOLEAN,
              BeginLoop(tail, label, cond)
       PROVE  TypeOK'
  <2> DEFINE header == next_block  body == next_block + 1  out == next_block + 2
             target == [header |-> header, exit |-> out, depth |-> Len(scope_stack)]
             f == [kind |-> "loop", tail |-> TRUE, must |-> "any", depth |-> Len(scope_stack),
                   loops |-> Len(loop_stack) + 1, header |-> header, exit |-> out,
                   label |-> label]
             test == IF cond THEN Switch({body, out}) ELSE Goto(body)
             hb == [id |-> header, term |-> test]
  <2>1. outcome = "lowering" /\ header \in BlockId /\ body \in BlockId /\ out \in BlockId
    BY <1>14 DEF BeginLoop, At, TypeOK, BlockId
  <2>2. target \in Target
    BY <2>1 DEF Target, TypeOK
  <2>3. f \in Frame
    BY <2>1 DEF Frame, LoopFrame, Static, TypeOK
  <2>4. test \in Terminator /\ Goto(header) \in Terminator
    BY <2>1, TermTypes
  <2>5. hb \in Block /\ NewBlock(body) \in Block
    BY <2>1, <2>4, TermTypes DEF Block
  <2>6. SetTerm(blocks, current_block, Goto(header)) \in Seq(Block)
    BY <2>4, SetTermType DEF TypeOK
  <2>7. /\ blocks' = SetTerm(blocks, current_block, Goto(header)) \o <<hb, NewBlock(body)>>
        /\ frames' = Append(Marked(tail), f) /\ loop_stack' = Append(loop_stack, target)
        /\ label_map' = IF label = NoLabel THEN label_map ELSE [label_map EXCEPT ![label] = target]
        /\ next_block' = next_block + 3 /\ current_block' = body
    BY <1>14 DEF BeginLoop
  <2> HIDE DEF header, body, out, target, f, test, hb
  <2>8. blocks' \in Seq(Block) /\ loop_stack' \in Seq(Target)
    BY <2>2, <2>5, <2>6, <2>7 DEF TypeOK
  <2>9. frames' \in Seq(Frame)
    BY <2>1, <2>3, <2>7, MarkedType
  <2>10. label_map' \in [Labels -> Target \cup {NoTarget}]
    BY <2>2, <2>7 DEF TypeOK
  <2>11. next_block' \in Nat /\ current_block' \in BlockId
    BY <2>1, <2>7 DEF TypeOK
  <2>12. fuel' \in Nat
    BY <1>14, FuelType DEF BeginLoop
  <2> QED BY <1>14, <2>8, <2>9, <2>10, <2>11, <2>12 DEF BeginLoop, TypeOK
<1>15. ASSUME NEW tail \in BOOLEAN, LoopInDeadCode(tail) PROVE TypeOK'
  BY <1>15, CompleteType, FuelType DEF LoopInDeadCode, At, Value, TypeOK
<1>16. ASSUME NEW tail \in BOOLEAN, NEW size \in 1 .. MaxArms,
              NEW pats \in [1 .. size -> Pattern], NEW ends \in [1 .. size -> {"yes", "no"}],
              BeginBranch(tail, pats, ends)
       PROVE  TypeOK'
  <2> DEFINE n == Len(pats)
             after    == next_block
             arm      == [i \in 1 .. n |-> next_block + i]
             allEnd   == \A i \in 1 .. n : ends[i] = "yes"
             guarded  == \E i \in 1 .. n : pats[i] = "cond"
             reuse    == allEnd /\ ~guarded
             unreach  == IF reuse THEN arm[n] ELSE next_block + n + 1
             first    == IF reuse THEN next_block + n + 1 ELSE next_block + n + 2
             decision == Decision(pats, arm, first, IF reuse THEN unreach ELSE after, unreach)
             arms     == [i \in 1 .. n |-> [block |-> arm[i], ends |-> ends[i]]]
             f        == [kind |-> "branch", tail |-> TRUE, must |-> "any",
                          depth |-> Len(scope_stack), loops |-> Len(loop_stack),
                          arms |-> arms, next |-> 1, after |-> after, unreachable |-> unreach,
                          guarded |-> guarded, valued |-> FALSE]
  <2>1. n \in Nat /\ n = size /\ n >= 1
    BY LoweringAssumption
  <2>2. outcome = "lowering"
    BY <1>16 DEF BeginBranch, At
  <2>3. /\ blocks' = SetTerm(blocks, current_block, Goto(decision.entry))
                     \o decision.blocks \o <<NewBlock(arm[1])>>
        /\ frames' = Append(Marked(tail), f)
        /\ next_block' = first + Len(decision.blocks) /\ current_block' = arm[1]
    BY <1>16 DEF BeginBranch
  <2> HIDE DEF n
  <2>4. after \in BlockId /\ arm \in [1 .. n -> BlockId]
    BY <2>1 DEF TypeOK, BlockId
  <2>5. unreach \in BlockId /\ first \in BlockId
    <3> HIDE DEF allEnd, guarded
    <3> QED BY <2>1, <2>4 DEF TypeOK, BlockId
  <2>6. arms \in Seq(Arm) /\ 1 \in DOMAIN arms /\ guarded \in BOOLEAN
    <3> HIDE DEF arm
    <3> QED BY <2>1, <2>4 DEF Arm, Static
  <2> HIDE DEF after, arm, reuse, unreach, first, arms, guarded, allEnd
  <2>7. decision.blocks \in Seq(Block) /\ decision.entry \in BlockId
    BY <2>1, <2>4, <2>5, DecisionType
  <2> HIDE DEF decision
  <2>8. f \in Frame
    BY <2>4, <2>5, <2>6 DEF Frame, BranchFrame, Static, TypeOK
  <2> HIDE DEF f
  <2>9. SetTerm(blocks, current_block, Goto(decision.entry)) \in Seq(Block)
    BY <2>7, SetTermType, TermTypes DEF TypeOK
  <2>10. arm[1] \in BlockId /\ NewBlock(arm[1]) \in Block
    BY <2>1, <2>4, TermTypes
  <2>11. blocks' \in Seq(Block)
    BY <2>3, <2>7, <2>9, <2>10
  <2>12. frames' \in Seq(Frame)
    BY <2>2, <2>1, <2>3, <2>8, MarkedType
  <2>13. next_block' \in Nat /\ current_block' \in BlockId
    BY <2>5, <2>3, <2>7, <2>10 DEF BlockId
  <2>14. fuel' \in Nat
    BY <1>16, FuelType DEF BeginBranch
  <2> QED BY <1>16, <2>11, <2>12, <2>13, <2>14 DEF BeginBranch, TypeOK
<1>17. ASSUME NEW tail \in BOOLEAN, BranchInDeadCode(tail) PROVE TypeOK'
  BY <1>17, FuelType DEF BranchInDeadCode, TypeOK
<1>18. ASSUME NEW tail \in BOOLEAN, Ret(tail) PROVE TypeOK'
  <2>1. frames' \in Seq(Frame) /\ result' \in Value \cup {"pending"}
    BY <1>18, CompleteType DEF Ret, At, Value
  <2>2. scope_stack' \in Seq(Seq(LocalId)) /\ defer_scopes' \in Seq(Seq(DeferId))
    BY <1>18, PoppedType, LastScopeType DEF Ret, TypeOK
  <2>3. blocks' \in Seq(Block)
    BY <1>18, SetTermType, TermTypes DEF Ret, TypeOK
  <2>4. fuel' \in Nat
    BY <1>18, FuelType DEF Ret
  <2> QED BY <1>18, <2>1, <2>2, <2>3, <2>4 DEF Ret, TypeOK
<1>19. ASSUME NEW tail \in BOOLEAN, RetInDeadCode(tail) PROVE TypeOK'
  BY <1>19, CompleteType, FuelType DEF RetInDeadCode, At, Value, TypeOK
<1>20. ASSUME NEW tail \in BOOLEAN, NEW skip \in BOOLEAN, NEW label \in Labels \cup {NoLabel},
              Jump(tail, skip, label)
       PROVE  TypeOK'
  <2> DEFINE target == TargetOf(label)
             to == IF skip THEN target.header ELSE target.exit
  <2>1. frames' \in Seq(Frame) /\ result' \in Value \cup {"pending"}
    BY <1>20, CompleteType DEF Jump, At, Value
  <2>2. target \in Target
    BY LastType, <1>20 DEF TypeOK, Jump, TargetOf
  <2>3. SetTerm(blocks, current_block, Goto(to)) \in Seq(Block)
    BY <2>2, SetTermType, TermTypes DEF Target, TypeOK
  <2>4. blocks' \in Seq(Block)
    BY <1>20, <2>3 DEF Jump, TypeOK
  <2>5. fuel' \in Nat
    BY <1>20, FuelType DEF Jump
  <2> QED BY <1>20, <2>1, <2>4, <2>5 DEF Jump, TypeOK
<1>21. ASSUME NEW tail \in BOOLEAN, NEW label \in Labels \cup {NoLabel}, JumpNowhere(tail, label)
       PROVE  TypeOK'
  BY <1>21, CompleteType, FuelType DEF JumpNowhere, At, Value, TypeOK
<1>22. ASSUME NEW tail \in BOOLEAN, Propagate(tail) PROVE TypeOK'
  <2> DEFINE error == next_block  success == next_block + 1  merge == next_block + 2
             eb == [id |-> error, term |-> Return]
             sb == [id |-> success, term |-> Goto(merge)]
             split == IF Live THEN SetTerm(blocks, current_block, Switch({error, success}))
                      ELSE blocks
             cs == <<eb, sb, NewBlock(merge)>>
  <2>1. frames' \in Seq(Frame) /\ result' \in Value \cup {"pending"}
    BY <1>22, CompleteType DEF Propagate, At, Value
  <2>2. error \in BlockId /\ success \in BlockId /\ merge \in BlockId
    BY DEF TypeOK, BlockId
  <2>3. eb \in Block /\ sb \in Block /\ NewBlock(merge) \in Block
    BY <2>2, TermTypes DEF Block
  <2>4. Switch({error, success}) \in Terminator
    BY <2>2, TermTypes
  <2>5. split \in Seq(Block)
    BY <2>4, SetTermType DEF TypeOK
  <2>6. blocks' = split \o cs \/ blocks' = split \o <<>>
    BY <1>22 DEF Propagate
  <2> HIDE DEF split, eb, sb
  <2>7. blocks' \in Seq(Block)
    <3>1. cs \in Seq(Block) /\ <<>> \in Seq(Block)
      BY <2>3, EmptySeq
    <3> HIDE DEF cs
    <3>2. \A b, c \in Seq(Block) : b \o c \in Seq(Block)
      OBVIOUS
    <3> QED BY <2>5, <2>6, <3>1, <3>2
  <2>8. fuel' \in Nat
    BY <1>22, FuelType DEF Propagate
  <2>9. next_block' \in Nat /\ current_block' \in BlockId
    BY <1>22, <2>2 DEF Propagate, TypeOK
  <2>10. UNCHANGED <<loops, scopes, owners, funcs, next_defer, errors, outcome>>
    BY <1>22 DEF Propagate
  <2> HIDE DEF merge, error, success
  <2> QED BY <2>1, <2>7, <2>8, <2>9, <2>10 DEF TypeOK
<1>23. ASSUME UNCHANGED vars PROVE TypeOK'
  BY <1>23 DEF vars, TypeOK
<1> QED
  BY <1>1, <1>2, <1>3, <1>4, <1>5, <1>6, <1>7, <1>8, <1>9, <1>10, <1>11, <1>12, <1>13, <1>14,
     <1>15, <1>16, <1>17, <1>18, <1>19, <1>20, <1>21, <1>22, <1>23 DEF Next

-----------------------------------------------------------------------------
(* The nesting of the stacks.                                              *)

\* The stacks are nested, being empty, before the first function.
LEMMA StackInit == Init => StackShape
BY DEF Init, StackShape, LoopContextBalanced

\* What the nesting gives every step to work with.
LEMMA Nesting ==
  ASSUME TypeOK, StackShape, outcome = "lowering"
  PROVE  /\ FrameNesting /\ LoopNesting /\ LabelNesting
         /\ Len(frames) \in Nat /\ Len(frames) >= 1 /\ DOMAIN frames = 1 .. Len(frames)
         /\ Len(loop_stack) \in Nat
         /\ Len(scope_stack) \in Nat /\ Len(scope_stack) >= 1
         /\ Top = frames[Len(frames)]
         /\ \A i \in 1 .. Len(frames) :
              /\ frames[i].kind \in {"func", "block", "loop", "branch"}
              /\ frames[i].depth \in Nat /\ frames[i].loops \in Nat
<1>1. FrameNesting /\ LoopNesting /\ LabelNesting
  BY DEF StackShape
<1>2. /\ Len(frames) \in Nat /\ Len(frames) >= 1 /\ DOMAIN frames = 1 .. Len(frames)
      /\ Top = frames[Len(frames)]
  BY TopType, LenProperties, EmptySeq DEF TypeOK
<1>3. \A i \in 1 .. Len(frames) : frames[i] \in Frame
  BY <1>2, ElementOfSeq DEF TypeOK
<1>4. \A i \in 1 .. Len(frames) : /\ frames[i].kind \in {"func", "block", "loop", "branch"}
                                  /\ frames[i].depth \in Nat /\ frames[i].loops \in Nat
  BY <1>3, FrameFields
<1>5. Len(loop_stack) \in Nat /\ Len(scope_stack) \in Nat
  BY LenProperties DEF TypeOK
<1>6. Len(scope_stack) >= 1
  BY <1>1, <1>2, <1>4, <1>5 DEF FrameNesting
<1> QED BY <1>1, <1>2, <1>4, <1>5, <1>6

\* The nesting after a step, from what the step does to the frames.
LEMMA FrameNestingAfter ==
  ASSUME NEW n \in Nat, n >= 1, Len(frames') = n,
         Len(defer_scopes') = Len(scope_stack'),
         \A i \in 1 .. n :
           /\ frames'[i].kind = "func" <=> i = 1
           /\ frames'[i].kind \in {"func", "block"} => frames'[i].depth < Len(scope_stack')
           /\ frames'[i].kind \in {"loop", "branch"} => frames'[i].depth \in 1 .. Len(scope_stack'),
         \A i, j \in 1 .. n : i < j =>
           /\ frames'[i].depth <= frames'[j].depth
           /\ frames'[i].kind \in {"func", "block"} => frames'[i].depth < frames'[j].depth
  PROVE  FrameNesting'
<1>1. frames' # <<>>
  BY EmptySeq
<1> QED BY <1>1 DEF FrameNesting

\* A step that opens and closes nothing.
LEMMA Steady ==
  ASSUME TypeOK, TypeOK', StackShape, outcome = "lowering", outcome' = "lowering",
         Len(frames') = Len(frames),
         \A i \in DOMAIN frames : SameShape(frames'[i], frames[i]),
         Len(scope_stack') = Len(scope_stack), Len(defer_scopes') = Len(defer_scopes),
         UNCHANGED loops
  PROVE  StackShape'
<1> DEFINE n == Len(frames)  d == Len(scope_stack)
<1>1. n \in Nat /\ n >= 1 /\ Top' = frames'[n] /\ Top = frames[n]
  BY Nesting DEF Top, Last
<1>2. \A i \in 1 .. n :
        /\ frames'[i].kind = frames[i].kind
        /\ frames'[i].depth = frames[i].depth /\ frames'[i].loops = frames[i].loops
        /\ frames[i].kind = "loop" => /\ frames'[i].header = frames[i].header
                                      /\ frames'[i].exit = frames[i].exit
                                      /\ frames'[i].label = frames[i].label
  BY Nesting DEF SameShape
<1>3. FrameNesting /\ LoopNesting /\ LabelNesting /\ Len(defer_scopes) = d
  BY Nesting DEF FrameNesting
<1>4. FrameNesting'
  <2>1. \A i \in 1 .. n :
          /\ frames[i].kind = "func" <=> i = 1
          /\ frames[i].kind \in {"func", "block"} => frames[i].depth < d
          /\ frames[i].kind \in {"loop", "branch"} => frames[i].depth \in 1 .. d
    BY <1>3 DEF FrameNesting
  <2>2. \A i, j \in 1 .. n : i < j =>
          /\ frames[i].depth <= frames[j].depth
          /\ frames[i].kind \in {"func", "block"} => frames[i].depth < frames[j].depth
    BY <1>3 DEF FrameNesting
  <2>3. Len(frames') = n /\ Len(scope_stack') = d /\ Len(defer_scopes') = d
    BY <1>3
  <2> HIDE DEF n, d
  <2>4. \A i \in 1 .. n :
          /\ frames'[i].kind = "func" <=> i = 1
          /\ frames'[i].kind \in {"func", "block"} => frames'[i].depth < d
          /\ frames'[i].kind \in {"loop", "branch"} => frames'[i].depth \in 1 .. d
    BY <1>2, <2>1
  <2>5. \A i, j \in 1 .. n : i < j =>
          /\ frames'[i].depth <= frames'[j].depth
          /\ frames'[i].kind \in {"func", "block"} => frames'[i].depth < frames'[j].depth
    BY <1>2, <2>2
  <2> QED BY <1>1, <2>3, <2>4, <2>5, FrameNestingAfter
<1>5. LoopFrames' = LoopFrames /\ LoopFrames \subseteq 1 .. n
  BY <1>2 DEF LoopFrames
<1>6. \A t : \A i \in LoopFrames : IsTarget(t, frames[i]) => IsTarget(t, frames'[i])
  BY <1>2, <1>5 DEF IsTarget, LoopFrames
<1>7. loop_stack' = loop_stack /\ label_map' = label_map
  BY DEF loops
<1>8. LoopNesting'
  <2>1. frames'[1].loops = 0 /\ Top'.loops = Len(loop_stack')
    BY <1>1, <1>2, <1>3, <1>7 DEF LoopNesting
  <2>2. \A i, j \in 1 .. n : i < j => frames'[i].loops <= frames'[j].loops
    BY <1>1, <1>2, <1>3 DEF LoopNesting
  <2>3. ASSUME NEW j \in 2 .. n
        PROVE  frames'[j].loops = frames'[j - 1].loops + IF frames'[j].kind = "loop" THEN 1 ELSE 0
    BY <1>3, <1>1, <1>2 DEF LoopNesting
  <2>4. \A i \in LoopFrames' : frames'[i].loops \in 1 .. Len(loop_stack')
                               /\ IsTarget(loop_stack'[frames'[i].loops], frames'[i])
    BY <1>2, <1>3, <1>5, <1>6, <1>7 DEF LoopNesting
  <2>5. \A k \in 1 .. Len(loop_stack') : \E i \in LoopFrames' : frames'[i].loops = k
    BY <1>2, <1>3, <1>5, <1>7 DEF LoopNesting
  <2> QED BY <2>1, <2>2, <2>3, <2>4, <2>5 DEF LoopNesting, IsTarget
<1>9. LabelNesting'
  <2> SUFFICES ASSUME NEW l \in Labels, label_map'[l] # NoTarget
               PROVE  \E i \in LoopFrames' : frames'[i].label = l
                                             /\ IsTarget(label_map'[l], frames'[i])
    BY DEF LabelNesting, IsTarget
  <2>1. PICK i \in LoopFrames : frames[i].label = l /\ IsTarget(label_map[l], frames[i])
    BY <1>3, <1>7 DEF LabelNesting
  <2>2. frames'[i].label = l
    BY <1>2, <1>5, <2>1 DEF LoopFrames
  <2> QED BY <1>5, <1>6, <1>7, <2>1, <2>2
<1> QED BY <1>4, <1>8, <1>9 DEF StackShape, LoopContextBalanced

\* A frame that is not the function's has one below it.
LEMMA Callee ==
  ASSUME TypeOK, StackShape, outcome = "lowering", Top.kind # "func"
  PROVE  /\ Len(frames) \in Nat /\ Len(frames) >= 2
         /\ Len(Front(frames)) = Len(frames) - 1
         /\ \A i \in 1 .. (Len(frames) - 1) : Front(frames)[i] = frames[i]
<1> DEFINE n == Len(frames)
<1>1. n \in Nat /\ n >= 1 /\ Top = frames[n] /\ frames # <<>>
  BY Nesting, TopType
<1>2. frames[1].kind = "func"
  BY <1>1, Nesting DEF FrameNesting
<1>3. n # 1
  BY <1>1, <1>2
<1>4. n >= 2
  BY <1>1, <1>3
<1> QED BY <1>1, <1>4, FrontType DEF TypeOK

\* The end of a block or of a branch: a frame goes, and with the frame of a block
\* at most one scope.
LEMMA Pop ==
  ASSUME TypeOK, TypeOK', StackShape, outcome = "lowering", outcome' = "lowering",
         Top.kind \in {"block", "branch"}, frames' = Front(frames),
         Len(scope_stack') = Len(defer_scopes'),
         \/ Len(scope_stack') = Len(scope_stack)
         \/ Top.kind = "block" /\ Len(scope_stack') = Len(scope_stack) - 1,
         UNCHANGED loops
  PROVE  StackShape'
<1> DEFINE n == Len(frames)  d == Len(scope_stack)  e == Len(scope_stack')
<1>1. /\ n \in Nat /\ n >= 2 /\ d \in Nat /\ Top = frames[n] /\ Len(frames') = n - 1
      /\ \A i \in 1 .. (n - 1) : frames'[i] = frames[i]
      /\ \A i \in 1 .. n : /\ frames[i].depth \in Nat /\ frames[i].loops \in Nat
                           /\ frames[i].kind \in {"func", "block", "loop", "branch"}
  BY Nesting, Callee
<1>2. Top' = frames[n - 1]
  BY <1>1 DEF Top, Last
<1>3. FrameNesting /\ LoopNesting /\ LabelNesting
  BY Nesting
<1>4. /\ \A i \in 1 .. n :
           /\ frames[i].kind = "func" <=> i = 1
           /\ frames[i].kind \in {"func", "block"} => frames[i].depth < d
           /\ frames[i].kind \in {"loop", "branch"} => frames[i].depth \in 1 .. d
      /\ \A i, j \in 1 .. n : i < j =>
           /\ frames[i].depth <= frames[j].depth
           /\ frames[i].kind \in {"func", "block"} => frames[i].depth < frames[j].depth
  BY <1>3 DEF FrameNesting
<1>5. loop_stack' = loop_stack /\ label_map' = label_map
  BY DEF loops
<1> HIDE DEF n, d, e
<1>6. FrameNesting'
  <2>1. e = d \/ (e = d - 1 /\ frames[n].kind = "block")
    BY <1>1 DEF d, e
  <2>2. ASSUME NEW i \in 1 .. (n - 1)
        PROVE  /\ frames[i].kind = "func" <=> i = 1
               /\ frames[i].kind \in {"func", "block"} => frames[i].depth < e
               /\ frames[i].kind \in {"loop", "branch"} => frames[i].depth \in 1 .. e
    <3>1. i \in 1 .. n /\ n \in 1 .. n /\ i < n
      BY <1>1
    <3>2. CASE e = d
      BY <1>4, <3>1, <3>2
    <3>3. CASE e = d - 1 /\ frames[n].kind = "block"
      <4>1. frames[n].depth < d
        BY <1>4, <3>1, <3>3
      <4> QED BY <1>1, <1>4, <3>1, <3>3, <4>1
    <3> QED BY <2>1, <3>2, <3>3
  <2>3. \A i, j \in 1 .. (n - 1) : i < j =>
          /\ frames[i].depth <= frames[j].depth
          /\ frames[i].kind \in {"func", "block"} => frames[i].depth < frames[j].depth
    BY <1>1, <1>4
  <2>4. n - 1 \in Nat /\ n - 1 >= 1
    BY <1>1
  <2>5. /\ \A i \in 1 .. (n - 1) :
             /\ frames'[i].kind = "func" <=> i = 1
             /\ frames'[i].kind \in {"func", "block"} => frames'[i].depth < e
             /\ frames'[i].kind \in {"loop", "branch"} => frames'[i].depth \in 1 .. e
        /\ \A i, j \in 1 .. (n - 1) : i < j =>
             /\ frames'[i].depth <= frames'[j].depth
             /\ frames'[i].kind \in {"func", "block"} => frames'[i].depth < frames'[j].depth
    BY <1>1, <2>2, <2>3
  <2> QED BY <1>1, <2>4, <2>5, FrameNestingAfter DEF e
<1>7. LoopFrames' = LoopFrames /\ LoopFrames \subseteq 1 .. (n - 1)
  <2>1. \A i \in 1 .. n : i \in 1 .. (n - 1) \/ (i = n /\ frames[i].kind # "loop")
    BY <1>1
  <2>2. \A i \in 1 .. (n - 1) : i \in 1 .. n
    BY <1>1
  <2> QED BY <1>1, <2>1, <2>2 DEF LoopFrames, n
<1>8. LoopNesting'
  <2>1. /\ frames[1].loops = 0 /\ frames[n].loops = Len(loop_stack)
        /\ \A i, j \in 1 .. n : i < j => frames[i].loops <= frames[j].loops
        /\ \A j \in 2 .. n :
             frames[j].loops = frames[j - 1].loops + IF frames[j].kind = "loop" THEN 1 ELSE 0
    BY <1>1, <1>3 DEF LoopNesting, n
  <2>2. frames'[1].loops = 0 /\ Top'.loops = Len(loop_stack')
    <3>1. n \in 2 .. n /\ n - 1 \in 1 .. n /\ 1 \in 1 .. (n - 1) /\ frames[n].kind # "loop"
      BY <1>1
    <3>2. frames[n].loops = frames[n - 1].loops + 0
      BY <2>1, <3>1
    <3> QED BY <1>1, <1>2, <1>5, <2>1, <3>1, <3>2
  <2>3. \A i, j \in 1 .. (n - 1) : i < j => frames'[i].loops <= frames'[j].loops
    <3>1. \A i \in 1 .. (n - 1) : i \in 1 .. n
      BY <1>1
    <3> QED BY <1>1, <2>1, <3>1
  <2>4. ASSUME NEW j \in 2 .. (n - 1)
        PROVE  frames'[j].loops = frames'[j - 1].loops + IF frames'[j].kind = "loop" THEN 1 ELSE 0
    <3>1. j \in 2 .. n /\ j \in 1 .. (n - 1) /\ j - 1 \in 1 .. (n - 1)
      BY <1>1
    <3> QED BY <1>1, <2>1, <3>1
  <2>5. \A i \in LoopFrames' : frames'[i].loops \in 1 .. Len(loop_stack')
                               /\ IsTarget(loop_stack'[frames'[i].loops], frames'[i])
    BY <1>1, <1>3, <1>5, <1>7 DEF LoopNesting
  <2>6. \A k \in 1 .. Len(loop_stack') : \E i \in LoopFrames' : frames'[i].loops = k
    BY <1>1, <1>3, <1>5, <1>7 DEF LoopNesting
  <2> QED BY <1>1, <2>2, <2>3, <2>4, <2>5, <2>6 DEF LoopNesting, IsTarget
<1>9. LabelNesting'
  <2> SUFFICES ASSUME NEW l \in Labels, label_map'[l] # NoTarget
               PROVE  \E i \in LoopFrames' : frames'[i].label = l
                                             /\ IsTarget(label_map'[l], frames'[i])
    BY DEF LabelNesting, IsTarget
  <2>1. PICK i \in LoopFrames : frames[i].label = l /\ IsTarget(label_map[l], frames[i])
    BY <1>3, <1>5 DEF LabelNesting
  <2> QED BY <1>1, <1>5, <1>7, <2>1
<1> QED BY <1>6, <1>8, <1>9 DEF StackShape, LoopContextBalanced

\* The end of a loop: its frame, its target and its label go together.
LEMMA PopLoop ==
  ASSUME TypeOK, TypeOK', StackShape, EndLoop
  PROVE  StackShape'
<1> DEFINE n == Len(frames)  d == Len(scope_stack)  m == Len(loop_stack)  top == frames[n]
<1>0. outcome = "lowering" /\ Top.kind = "loop" /\ Top = top
  BY Nesting DEF EndLoop
<1>1. /\ n \in Nat /\ n >= 2 /\ d \in Nat /\ m \in Nat
      /\ frames' = Front(frames) /\ Len(frames') = n - 1
      /\ \A i \in 1 .. (n - 1) : frames'[i] = frames[i]
      /\ \A i \in 1 .. n : /\ frames[i].depth \in Nat /\ frames[i].loops \in Nat
                           /\ frames[i].kind \in {"func", "block", "loop", "branch"}
  BY <1>0, Nesting, Callee DEF EndLoop, ReturnToCaller
<1>2. Top' = frames[n - 1]
  BY <1>1 DEF Top, Last
<1>3. /\ loop_stack' = Popped(loop_stack) /\ scope_stack' = scope_stack
      /\ defer_scopes' = defer_scopes /\ outcome' = "lowering"
      /\ label_map' = IF top.label = NoLabel THEN label_map
                      ELSE [label_map EXCEPT ![top.label] = NoTarget]
  BY <1>0 DEF EndLoop, scopes
<1>4. FrameNesting /\ LoopNesting /\ LabelNesting /\ Len(defer_scopes) = d
  BY <1>0, Nesting DEF FrameNesting
<1>5. /\ \A i \in 1 .. n :
           /\ frames[i].kind = "func" <=> i = 1
           /\ frames[i].kind \in {"func", "block"} => frames[i].depth < d
           /\ frames[i].kind \in {"loop", "branch"} => frames[i].depth \in 1 .. d
      /\ \A i, j \in 1 .. n : i < j =>
           /\ frames[i].depth <= frames[j].depth
           /\ frames[i].kind \in {"func", "block"} => frames[i].depth < frames[j].depth
  BY <1>4 DEF FrameNesting
<1>6. /\ frames[1].loops = 0 /\ frames[n].loops = m
      /\ \A i, j \in 1 .. n : i < j => frames[i].loops <= frames[j].loops
      /\ \A j \in 2 .. n :
           frames[j].loops = frames[j - 1].loops + IF frames[j].kind = "loop" THEN 1 ELSE 0
  BY <1>0, <1>4 DEF LoopNesting
<1>7. LoopFrames' = LoopFrames \ {n} /\ LoopFrames \subseteq 1 .. n
  BY <1>1 DEF LoopFrames
<1>8. \A i \in 1 .. (n - 1) : i \in 1 .. n /\ i < n
  BY <1>1
<1> HIDE DEF n, d
<1>9. FrameNesting'
  <2>1. \A i \in 1 .. (n - 1) :
          /\ frames[i].kind = "func" <=> i = 1
          /\ frames[i].kind \in {"func", "block"} => frames[i].depth < d
          /\ frames[i].kind \in {"loop", "branch"} => frames[i].depth \in 1 .. d
    BY <1>5, <1>8
  <2>2. \A i, j \in 1 .. (n - 1) : i < j =>
          /\ frames[i].depth <= frames[j].depth
          /\ frames[i].kind \in {"func", "block"} => frames[i].depth < frames[j].depth
    BY <1>5, <1>8
  <2>3. n - 1 \in Nat /\ n - 1 >= 1 /\ Len(defer_scopes') = Len(scope_stack')
        /\ Len(scope_stack') = d
    BY <1>1, <1>3, <1>4 DEF d
  <2>4. /\ \A i \in 1 .. (n - 1) :
             /\ frames'[i].kind = "func" <=> i = 1
             /\ frames'[i].kind \in {"func", "block"} => frames'[i].depth < Len(scope_stack')
             /\ frames'[i].kind \in {"loop", "branch"} => frames'[i].depth \in 1 .. Len(scope_stack')
        /\ \A i, j \in 1 .. (n - 1) : i < j =>
             /\ frames'[i].depth <= frames'[j].depth
             /\ frames'[i].kind \in {"func", "block"} => frames'[i].depth < frames'[j].depth
    BY <1>1, <2>1, <2>2, <2>3
  <2> QED BY <1>1, <2>3, <2>4, FrameNestingAfter
<1>10. frames[n - 1].loops = m - 1 /\ m >= 1
       /\ \A i \in 1 .. (n - 1) : frames[i].loops <= m - 1
  <2>1. n \in 2 .. n /\ n - 1 \in 1 .. n /\ n \in 1 .. n /\ frames[n].kind = "loop"
    BY <1>0, <1>1
  <2>2. frames[n].loops = frames[n - 1].loops + 1
    BY <1>6, <2>1
  <2>3. frames[n - 1].loops \in Nat
    BY <1>1, <2>1
  <2>4. \A i \in 1 .. (n - 1) : i < n - 1 => frames[i].loops <= frames[n - 1].loops
    BY <1>6, <1>8, <2>1
  <2>5. \A i \in 1 .. (n - 1) : i = n - 1 \/ i < n - 1
    BY <1>1
  <2>6. frames[n].loops = m /\ m \in Nat
    BY <1>6 DEF TypeOK
  <2>7. m = frames[n - 1].loops + 1
    BY <2>2, <2>6
  <2>8. \A i \in 1 .. (n - 1) : frames[i].loops <= frames[n - 1].loops
    BY <2>3, <2>4, <2>5
  <2>9. frames[n - 1].loops = m - 1 /\ m >= 1
    BY <2>3, <2>7
  <2> HIDE DEF m
  <2> QED BY <2>8, <2>9
<1>11. Len(loop_stack') = m - 1 /\ \A k \in 1 .. (m - 1) : loop_stack'[k] = loop_stack[k]
  BY <1>10, EmptySeq, <1>3, FrontType DEF Popped, TypeOK
<1>12. LoopNesting'
  <2>1. frames'[1].loops = 0 /\ Top'.loops = Len(loop_stack')
    BY <1>1, <1>2, <1>6, <1>10, <1>11
  <2>2. \A i, j \in 1 .. (n - 1) : i < j => frames'[i].loops <= frames'[j].loops
    BY <1>1, <1>6, <1>8
  <2>3. ASSUME NEW j \in 2 .. (n - 1)
        PROVE  frames'[j].loops = frames'[j - 1].loops + IF frames'[j].kind = "loop" THEN 1 ELSE 0
    <3>1. j \in 2 .. n /\ j \in 1 .. (n - 1) /\ j - 1 \in 1 .. (n - 1)
      BY <1>1
    <3> QED BY <1>1, <1>6, <3>1
  <2> HIDE DEF m
  <2>4. ASSUME NEW i \in LoopFrames'
        PROVE  frames'[i].loops \in 1 .. Len(loop_stack')
               /\ IsTarget(loop_stack'[frames'[i].loops], frames'[i])
    <3>1. i \in LoopFrames /\ i \in 1 .. (n - 1)
      BY <1>1, <1>7
    <3>2. frames[i].loops \in 1 .. m /\ IsTarget(loop_stack[frames[i].loops], frames[i])
      BY <1>4, <3>1 DEF LoopNesting, m
    <3>3. frames[i].loops <= m - 1
      BY <1>10, <3>1
    <3>4. frames[i].loops \in 1 .. (m - 1)
      BY <1>1, <3>2, <3>3
    <3> QED BY <1>1, <1>11, <3>1, <3>2, <3>4
  <2>5. ASSUME NEW k \in 1 .. Len(loop_stack')
        PROVE  \E i \in LoopFrames' : frames'[i].loops = k
    <3>1. k \in 1 .. m /\ k # m
      BY <1>1, <1>11
    <3>2. PICK i \in LoopFrames : frames[i].loops = k
      BY <1>4, <3>1 DEF LoopNesting, m
    <3>3. i # n /\ i \in 1 .. (n - 1)
      BY <1>1, <1>6, <1>7, <3>1, <3>2
    <3> QED BY <1>1, <1>7, <3>2, <3>3
  <2> QED BY <1>1, <2>1, <2>2, <2>3, <2>4, <2>5 DEF LoopNesting, IsTarget
<1>13. LabelNesting'
  <2> SUFFICES ASSUME NEW l \in Labels, label_map'[l] # NoTarget
               PROVE  \E i \in LoopFrames' : frames'[i].label = l
                                             /\ IsTarget(label_map'[l], frames'[i])
    BY DEF LabelNesting, IsTarget
  <2>1. label_map'[l] = label_map[l] /\ l # top.label
    BY LoweringAssumption, <1>3 DEF TypeOK
  <2>2. PICK i \in LoopFrames : frames[i].label = l /\ IsTarget(label_map[l], frames[i])
    BY <1>4, <2>1 DEF LabelNesting
  <2>3. i # n /\ i \in 1 .. (n - 1)
    BY <1>1, <1>7, <2>1, <2>2
  <2> QED BY <1>1, <1>7, <2>1, <2>2, <2>3
<1> QED BY <1>3, <1>9, <1>12, <1>13 DEF StackShape, LoopContextBalanced

\* A construct that is entered: its frame on top, and the scope of a block.
LEMMA Push ==
  ASSUME TypeOK, StackShape, outcome = "lowering",
         NEW tail \in BOOLEAN, NEW f, frames' = Append(Marked(tail), f),
         f.kind \in {"block", "loop", "branch"}, f.depth = Len(scope_stack),
         Len(defer_scopes') = Len(scope_stack'),
         Len(scope_stack') = Len(scope_stack) + IF f.kind = "block" THEN 1 ELSE 0
  PROVE  /\ FrameNesting'
         /\ Len(frames') = Len(frames) + 1 /\ Top' = f /\ frames'[Len(frames) + 1] = f
         /\ \A i \in 1 .. Len(frames) :
              /\ frames'[i].kind = frames[i].kind
              /\ frames'[i].depth = frames[i].depth /\ frames'[i].loops = frames[i].loops
              /\ frames[i].kind = "loop" => /\ frames'[i].header = frames[i].header
                                            /\ frames'[i].exit = frames[i].exit
                                            /\ frames'[i].label = frames[i].label
<1> DEFINE n == Len(frames)  d == Len(scope_stack)  e == Len(scope_stack')
<1>1. /\ n \in Nat /\ n >= 1 /\ d \in Nat /\ d >= 1 /\ FrameNesting /\ DOMAIN frames = 1 .. n
      /\ \A i \in 1 .. n : /\ frames[i].depth \in Nat
                           /\ frames[i].kind \in {"func", "block", "loop", "branch"}
  BY Nesting
<1>2. /\ Len(frames') = n + 1 /\ frames'[n + 1] = f
      /\ \A i \in 1 .. n : SameShape(frames'[i], frames[i])
  BY <1>1, MarkedType
<1>3. Top' = f
  BY <1>2 DEF Top, Last
<1>4. \A i \in 1 .. n :
        /\ frames'[i].kind = frames[i].kind
        /\ frames'[i].depth = frames[i].depth /\ frames'[i].loops = frames[i].loops
        /\ frames[i].kind = "loop" => /\ frames'[i].header = frames[i].header
                                      /\ frames'[i].exit = frames[i].exit
                                      /\ frames'[i].label = frames[i].label
  BY <1>2 DEF SameShape
<1>5. e \in Nat /\ d <= e /\ Len(defer_scopes') = e /\ (f.kind = "block" => e = d + 1)
      /\ f.depth = d
  BY <1>1
<1>6. /\ \A i \in 1 .. n :
           /\ frames[i].kind = "func" <=> i = 1
           /\ frames[i].kind \in {"func", "block"} => frames[i].depth < d
           /\ frames[i].kind \in {"loop", "branch"} => frames[i].depth \in 1 .. d
      /\ \A i, j \in 1 .. n : i < j =>
           /\ frames[i].depth <= frames[j].depth
           /\ frames[i].kind \in {"func", "block"} => frames[i].depth < frames[j].depth
  BY <1>1 DEF FrameNesting
<1> HIDE DEF n, d, e
<1>7. \A i \in 1 .. (n + 1) : i \in 1 .. n \/ (i = n + 1 /\ i # 1)
  BY <1>1
<1>8. ASSUME NEW i \in 1 .. (n + 1)
      PROVE  /\ frames'[i].kind = "func" <=> i = 1
             /\ frames'[i].kind \in {"func", "block"} => frames'[i].depth < e
             /\ frames'[i].kind \in {"loop", "branch"} => frames'[i].depth \in 1 .. e
  <2>1. CASE i \in 1 .. n
    <3>1. /\ frames[i].kind = "func" <=> i = 1
          /\ frames[i].kind \in {"func", "block"} => frames[i].depth < d
          /\ frames[i].kind \in {"loop", "branch"} => frames[i].depth \in 1 .. d
          /\ frames[i].depth \in Nat
      BY <1>1, <1>6, <2>1
    <3>2. /\ frames[i].kind \in {"func", "block"} => frames[i].depth < e
          /\ frames[i].kind \in {"loop", "branch"} => frames[i].depth \in 1 .. e
      BY <1>1, <1>5, <3>1
    <3> QED BY <1>4, <2>1, <3>1, <3>2
  <2>2. CASE i = n + 1 /\ i # 1
    BY <1>1, <1>2, <1>5, <2>2
  <2> QED BY <1>7, <2>1, <2>2
<1>9. ASSUME NEW i \in 1 .. (n + 1), NEW j \in 1 .. (n + 1), i < j
      PROVE  /\ frames'[i].depth <= frames'[j].depth
             /\ frames'[i].kind \in {"func", "block"} => frames'[i].depth < frames'[j].depth
  <2>1. i \in 1 .. n
    BY <1>1, <1>9
  <2>2. CASE j \in 1 .. n
    BY <1>4, <1>6, <1>9, <2>1, <2>2
  <2>3. CASE j = n + 1
    <3>1. frames'[j].depth = d
      BY <1>2, <1>5, <2>3
    <3>2. /\ frames[i].kind \in {"func", "block"} => frames[i].depth < d
          /\ frames[i].kind \in {"loop", "branch"} => frames[i].depth \in 1 .. d
          /\ frames[i].depth \in Nat /\ frames[i].kind \in {"func", "block", "loop", "branch"}
      BY <1>1, <1>6, <2>1
    <3>3. frames[i].depth <= d /\ (frames[i].kind \in {"func", "block"} => frames[i].depth < d)
      BY <1>1, <3>2
    <3> QED BY <1>4, <2>1, <3>1, <3>3
  <2> QED BY <1>7, <2>2, <2>3
<1>10. FrameNesting'
  BY <1>1, <1>2, <1>5, <1>8, <1>9, FrameNestingAfter DEF e
<1> QED BY <1>2, <1>3, <1>4, <1>10 DEF n

\* A block or a branch is entered.
LEMMA PushPlain ==
  ASSUME TypeOK, TypeOK', StackShape, outcome = "lowering", outcome' = "lowering",
         NEW tail \in BOOLEAN, NEW f, frames' = Append(Marked(tail), f),
         f.kind \in {"block", "branch"}, f.depth = Len(scope_stack), f.loops = Len(loop_stack),
         Len(defer_scopes') = Len(scope_stack'),
         Len(scope_stack') = Len(scope_stack) + IF f.kind = "block" THEN 1 ELSE 0,
         UNCHANGED loops
  PROVE  StackShape'
<1> DEFINE n == Len(frames)  m == Len(loop_stack)
<1>1. /\ n \in Nat /\ n >= 1 /\ LoopNesting /\ LabelNesting /\ Top = frames[n] /\ m \in Nat
      /\ \A i \in 1 .. n : frames[i].loops \in Nat
  BY Nesting
<1>2. /\ FrameNesting'
      /\ Len(frames') = n + 1 /\ Top' = f /\ frames'[n + 1] = f
      /\ \A i \in 1 .. n :
           /\ frames'[i].kind = frames[i].kind
           /\ frames'[i].depth = frames[i].depth /\ frames'[i].loops = frames[i].loops
           /\ frames[i].kind = "loop" => /\ frames'[i].header = frames[i].header
                                         /\ frames'[i].exit = frames[i].exit
                                         /\ frames'[i].label = frames[i].label
  BY Push
<1>3. loop_stack' = loop_stack /\ label_map' = label_map
  BY DEF loops
<1>4. /\ frames[1].loops = 0 /\ frames[n].loops = m
      /\ \A i, j \in 1 .. n : i < j => frames[i].loops <= frames[j].loops
      /\ \A j \in 2 .. n :
           frames[j].loops = frames[j - 1].loops + IF frames[j].kind = "loop" THEN 1 ELSE 0
  BY <1>1 DEF LoopNesting
<1>5. LoopFrames = {i \in 1 .. n : frames[i].kind = "loop"}
  BY DEF LoopFrames
<1> HIDE DEF n
<1>6. \A i \in 1 .. (n + 1) : i \in 1 .. n \/ i = n + 1
  BY <1>1
<1>7. LoopFrames' = LoopFrames
  BY <1>1, <1>2, <1>5, <1>6 DEF LoopFrames
<1>8. \A t : \A i \in LoopFrames : IsTarget(t, frames[i]) => IsTarget(t, frames'[i])
  BY <1>2, <1>5 DEF IsTarget
<1>9. LoopNesting'
  <2>1. frames'[1].loops = 0 /\ Top'.loops = Len(loop_stack')
    BY <1>1, <1>2, <1>3, <1>4
  <2>2. ASSUME NEW i \in 1 .. (n + 1), NEW j \in 1 .. (n + 1), i < j
        PROVE  frames'[i].loops <= frames'[j].loops
    BY <1>1, <2>2, <1>4, <1>2, <1>6
  <2>3. ASSUME NEW j \in 2 .. (n + 1)
        PROVE  frames'[j].loops = frames'[j - 1].loops + IF frames'[j].kind = "loop" THEN 1 ELSE 0
    <3>1. CASE j \in 2 .. n
      <4>1. j \in 1 .. n /\ j - 1 \in 1 .. n
        BY <1>1, <3>1
      <4>2. frames[j].loops = frames[j - 1].loops + IF frames[j].kind = "loop" THEN 1 ELSE 0
        BY <1>4, <3>1
      <4>3. /\ frames'[j].loops = frames[j].loops /\ frames'[j].kind = frames[j].kind
            /\ frames'[j - 1].loops = frames[j - 1].loops
        BY <1>2, <4>1
      <4> QED BY <4>2, <4>3
    <3>2. CASE j = n + 1
      BY <1>1, <3>2, <1>2, <1>4
    <3>3. j \in 2 .. n \/ j = n + 1
      BY <1>1
    <3> QED BY <3>1, <3>2, <3>3
  <2>4. \A i \in LoopFrames' : frames'[i].loops \in 1 .. Len(loop_stack')
                               /\ IsTarget(loop_stack'[frames'[i].loops], frames'[i])
    BY <1>1, <1>2, <1>3, <1>5, <1>7, <1>8 DEF LoopNesting
  <2>5. ASSUME NEW k \in 1 .. Len(loop_stack')
        PROVE  \E i \in LoopFrames' : frames'[i].loops = k
    <3>1. PICK i \in LoopFrames : frames[i].loops = k
      BY <1>1, <1>3 DEF LoopNesting
    <3> QED BY <1>2, <1>5, <1>7, <3>1
  <2> QED BY <1>2, <2>1, <2>2, <2>3, <2>4, <2>5 DEF LoopNesting, IsTarget
<1>10. LabelNesting'
  <2> SUFFICES ASSUME NEW l \in Labels, label_map'[l] # NoTarget
               PROVE  \E i \in LoopFrames' : frames'[i].label = l
                                             /\ IsTarget(label_map'[l], frames'[i])
    BY DEF LabelNesting, IsTarget
  <2>1. PICK i \in LoopFrames : frames[i].label = l /\ IsTarget(label_map[l], frames[i])
    BY <1>1, <1>3 DEF LabelNesting
  <2>2. frames'[i].label = l
    BY <1>2, <1>5, <2>1
  <2> QED BY <1>3, <1>7, <1>8, <2>1, <2>2
<1> QED BY <1>2, <1>9, <1>10 DEF StackShape, LoopContextBalanced

\* A loop is entered: its target and its label are pushed with its frame.
LEMMA PushLoop ==
  ASSUME TypeOK, TypeOK', StackShape, NEW tail \in BOOLEAN,
         NEW label \in Labels \cup {NoLabel}, NEW cond \in BOOLEAN,
         BeginLoop(tail, label, cond)
  PROVE  StackShape'
<1> DEFINE n == Len(frames)  m == Len(loop_stack)
           target == [header |-> next_block, exit |-> next_block + 2, depth |-> Len(scope_stack)]
           f == [kind |-> "loop", tail |-> TRUE, must |-> "any", depth |-> Len(scope_stack),
                 loops |-> m + 1, header |-> next_block, exit |-> next_block + 2,
                 label |-> label]
<1>1. /\ outcome = "lowering" /\ outcome' = "lowering"
      /\ frames' = Append(Marked(tail), f) /\ loop_stack' = Append(loop_stack, target)
      /\ label_map' = IF label = NoLabel THEN label_map ELSE [label_map EXCEPT ![label] = target]
      /\ scope_stack' = scope_stack /\ defer_scopes' = defer_scopes
  BY DEF BeginLoop, At, scopes
<1>2. /\ n \in Nat /\ n >= 1 /\ LoopNesting /\ LabelNesting /\ Top = frames[n] /\ m \in Nat
      /\ Len(defer_scopes) = Len(scope_stack) /\ Len(scope_stack) \in Nat
      /\ \A i \in 1 .. n : frames[i].loops \in Nat
  BY <1>1, Nesting DEF FrameNesting
<1>3. /\ f.kind = "loop" /\ f.depth = Len(scope_stack) /\ f.loops = m + 1 /\ f.label = label
      /\ IsTarget(target, f)
  BY DEF IsTarget
<1>4. /\ Len(loop_stack') = m + 1 /\ loop_stack'[m + 1] = target
      /\ \A k \in 1 .. m : loop_stack'[k] = loop_stack[k]
  BY <1>1, <1>2 DEF TypeOK
<1> HIDE DEF f, target
<1>5. /\ FrameNesting'
      /\ Len(frames') = n + 1 /\ Top' = f /\ frames'[n + 1] = f
      /\ \A i \in 1 .. n :
           /\ frames'[i].kind = frames[i].kind
           /\ frames'[i].depth = frames[i].depth /\ frames'[i].loops = frames[i].loops
           /\ frames[i].kind = "loop" => /\ frames'[i].header = frames[i].header
                                         /\ frames'[i].exit = frames[i].exit
                                         /\ frames'[i].label = frames[i].label
  <2>1. f.kind \in {"block", "loop", "branch"} /\ f.kind # "block" /\ f.depth = Len(scope_stack)
    BY <1>3
  <2>2. Len(scope_stack') = Len(scope_stack) + IF f.kind = "block" THEN 1 ELSE 0
    BY <1>1, <1>2, <2>1
  <2>3. Len(defer_scopes') = Len(scope_stack')
    BY <1>1, <1>2
  <2>4. outcome = "lowering" /\ frames' = Append(Marked(tail), f)
    BY <1>1
  <2> QED BY <2>1, <2>2, <2>3, <2>4, Push
<1>6. /\ frames[1].loops = 0 /\ frames[n].loops = m
      /\ \A i, j \in 1 .. n : i < j => frames[i].loops <= frames[j].loops
      /\ \A j \in 2 .. n :
           frames[j].loops = frames[j - 1].loops + IF frames[j].kind = "loop" THEN 1 ELSE 0
  BY <1>2 DEF LoopNesting
<1>7. LoopFrames = {i \in 1 .. n : frames[i].kind = "loop"}
  BY DEF LoopFrames
<1> HIDE DEF n
<1>8. \A i \in 1 .. (n + 1) : i \in 1 .. n \/ i = n + 1
  BY <1>2
<1>9. LoopFrames' = LoopFrames \cup {n + 1}
  BY <1>2, <1>3, <1>5, <1>7, <1>8 DEF LoopFrames
<1>10. \A t : \A i \in LoopFrames : IsTarget(t, frames[i]) => IsTarget(t, frames'[i])
  BY <1>5, <1>7 DEF IsTarget
<1>11. LoopNesting'
  <2>1. frames'[1].loops = 0 /\ Top'.loops = Len(loop_stack')
    BY <1>2, <1>3, <1>4, <1>5, <1>6
  <2>2. ASSUME NEW i \in 1 .. (n + 1), NEW j \in 1 .. (n + 1), i < j
        PROVE  frames'[i].loops <= frames'[j].loops
    <3>1. i \in 1 .. n /\ n \in 1 .. n /\ (i = n \/ i < n)
      BY <1>2, <2>2
    <3>2. frames[i].loops <= m + 1
      BY <1>2, <1>6, <3>1
    <3>3. j \in 1 .. n => frames[i].loops <= frames[j].loops
      BY <1>6, <2>2, <3>1
    <3> QED BY <1>3, <1>5, <1>8, <3>1, <3>2, <3>3
  <2>3. ASSUME NEW j \in 2 .. (n + 1)
        PROVE  frames'[j].loops = frames'[j - 1].loops + IF frames'[j].kind = "loop" THEN 1 ELSE 0
    <3>1. CASE j \in 2 .. n
      <4>1. j \in 1 .. n /\ j - 1 \in 1 .. n
        BY <1>2, <3>1
      <4> QED BY <1>5, <1>6, <3>1, <4>1
    <3>2. CASE j = n + 1
      BY <1>2, <3>2, <1>3, <1>5, <1>6
    <3>3. j \in 2 .. n \/ j = n + 1
      BY <1>2
    <3> QED BY <3>1, <3>2, <3>3
  <2> HIDE DEF m
  <2>4. ASSUME NEW i \in LoopFrames'
        PROVE  frames'[i].loops \in 1 .. Len(loop_stack')
               /\ IsTarget(loop_stack'[frames'[i].loops], frames'[i])
    <3>1. CASE i = n + 1
      BY <1>2, <1>3, <1>4, <1>5, <3>1
    <3>2. CASE i \in LoopFrames
      <4>1. frames[i].loops \in 1 .. m /\ IsTarget(loop_stack[frames[i].loops], frames[i])
        BY <1>2, <3>2 DEF LoopNesting, m
      <4>2. frames[i].loops \in 1 .. (m + 1)
        BY <1>2, <4>1
      <4>3. frames'[i].loops = frames[i].loops
        BY <1>5, <1>7, <3>2
      <4> QED BY <1>4, <1>10, <3>2, <4>1, <4>2, <4>3
    <3> QED BY <1>9, <3>1, <3>2
  <2>5. ASSUME NEW k \in 1 .. Len(loop_stack')
        PROVE  \E i \in LoopFrames' : frames'[i].loops = k
    <3>1. k \in 1 .. m \/ k = m + 1
      BY <1>2, <1>4
    <3>2. CASE k = m + 1
      BY <1>3, <1>5, <1>9, <3>2
    <3>3. CASE k \in 1 .. m
      <4>1. PICK i \in LoopFrames : frames[i].loops = k
        BY <1>2, <3>3 DEF LoopNesting, m
      <4> QED BY <1>5, <1>7, <1>9, <4>1
    <3> QED BY <3>1, <3>2, <3>3
  <2> QED BY <1>5, <2>1, <2>2, <2>3, <2>4, <2>5 DEF LoopNesting, IsTarget
<1>12. LabelNesting'
  <2> SUFFICES ASSUME NEW l \in Labels, label_map'[l] # NoTarget
               PROVE  \E i \in LoopFrames' : frames'[i].label = l
                                             /\ IsTarget(label_map'[l], frames'[i])
    BY DEF LabelNesting, IsTarget
  <2>1. label_map \in [Labels -> Target \cup {NoTarget}] /\ l # NoLabel
    BY LoweringAssumption DEF TypeOK
  <2>2. CASE l = label
    BY <1>1, <2>1, <2>2, <1>3, <1>5, <1>9
  <2>3. CASE l # label
    <3>1. label_map'[l] = label_map[l]
      BY <1>1, <2>1, <2>3
    <3>2. PICK i \in LoopFrames : frames[i].label = l /\ IsTarget(label_map[l], frames[i])
      BY <1>2, <3>1 DEF LabelNesting
    <3>3. frames'[i].label = l
      BY <1>5, <1>7, <3>2
    <3> QED BY <1>9, <1>10, <3>1, <3>2, <3>3
  <2> QED BY <2>2, <2>3
<1> QED BY <1>1, <1>5, <1>11, <1>12 DEF StackShape, LoopContextBalanced

\* Marking the top frame and going on.
LEMMA Stay ==
  ASSUME TypeOK, TypeOK', StackShape, outcome = "lowering", outcome' = "lowering",
         NEW v \in Value, NEW tail \in BOOLEAN, Complete(v, tail),
         Len(scope_stack') = Len(scope_stack), Len(defer_scopes') = Len(defer_scopes),
         UNCHANGED loops
  PROVE  StackShape'
BY Steady, MarkedType DEF Complete

\* A function begins with the stacks its predecessor left, which are empty.
LEMMA StackBegin ==
  ASSUME TypeOK, TypeOK', StackShape,
         NEW params \in 0 .. MaxParams, NEW void \in BOOLEAN, NEW exprBody \in BOOLEAN,
         BeginFunc(params, void, exprBody)
  PROVE  StackShape'
<1>1. loop_stack = <<>> /\ \A l \in Labels : label_map[l] = NoTarget
  BY DEF BeginFunc, StackShape, LoopContextBalanced
<1>2. loop_stack' = loop_stack /\ label_map' = label_map /\ Len(loop_stack) = 0
  BY <1>1, EmptySeq DEF BeginFunc, loops
<1>3. /\ Len(frames') = 1 /\ frames'[1].kind = "func" /\ frames'[1].depth = 0
      /\ frames'[1].loops = 0
  BY <1>2 DEF BeginFunc
<1>4. Len(scope_stack') = 1 /\ Len(defer_scopes') = 1 /\ outcome' = "lowering"
  BY DEF BeginFunc
<1>5. 1 .. 1 = {1} /\ 1 .. 0 = {} /\ 2 .. 1 = {}
  OBVIOUS
<1>6. FrameNesting'
  BY <1>3, <1>4, <1>5, FrameNestingAfter
<1>7. LoopFrames' = {} /\ Top' = frames'[1]
  BY <1>3, <1>5 DEF LoopFrames, Top, Last
<1>8. LoopNesting'
  BY <1>2, <1>3, <1>5, <1>7 DEF LoopNesting
<1>9. LabelNesting'
  BY <1>1, <1>2 DEF LabelNesting
<1> QED BY <1>4, <1>6, <1>8, <1>9 DEF StackShape, LoopContextBalanced

\* When only the function's frame is left, no loop is open.
LEMMA StackEnd ==
  ASSUME TypeOK, StackShape, EndFunc
  PROVE  StackShape'
<1>1. outcome = "lowering" /\ Top.kind = "func"
  BY DEF EndFunc
<1>2. /\ Len(frames) \in Nat /\ Len(frames) >= 1 /\ Top = frames[Len(frames)]
      /\ FrameNesting /\ LoopNesting /\ LabelNesting
  BY <1>1, Nesting
<1>3. Len(frames) = 1
  <2>1. Len(frames) \in 1 .. Len(frames)
    BY <1>2
  <2> QED BY <1>1, <1>2, <2>1 DEF FrameNesting
<1>4. Len(loop_stack) = 0
  BY <1>2, <1>3 DEF LoopNesting
<1>5. loop_stack = <<>>
  BY <1>4, EmptySeq DEF TypeOK
<1>6. LoopFrames = {}
  BY <1>3, <1>1, <1>2 DEF LoopFrames
<1>7. \A l \in Labels : label_map[l] = NoTarget
  BY <1>2, <1>6 DEF LabelNesting
<1> QED BY <1>5, <1>7 DEF EndFunc, loops, StackShape, LoopContextBalanced

\* Every action of the lowering keeps the stacks nested.
LEMMA StackStep ==
  ASSUME TypeOK, TypeOK', StackShape, [Next]_vars
  PROVE  StackShape'
<1> USE DEF scopes
<1>1. ASSUME NEW params \in 0 .. MaxParams, NEW void \in BOOLEAN, NEW exprBody \in BOOLEAN,
             BeginFunc(params, void, exprBody)
      PROVE  StackShape'
  BY <1>1, StackBegin
<1>2. ASSUME EndFunc PROVE StackShape'
  BY <1>2, StackEnd
<1>3. ASSUME Defer PROVE StackShape'
  BY <1>3, DeferType, Steady DEF Defer, At
<1>4. ASSUME LetOwned PROVE StackShape'
  BY <1>4, DeclareType, Steady DEF LetOwned, At, TypeOK, LocalId
<1>5. ASSUME NEW src \in Holders, LetMoved(src) PROVE StackShape'
  BY <1>5, DeclareType, Steady DEF LetMoved, At, TypeOK, LocalId
<1>6. ASSUME NEW src \in Holders, PassOwned(src) PROVE StackShape'
  BY <1>6, Steady DEF PassOwned, At, SameShape
<1>7. ASSUME NEW v \in {"void", "value"}, Simple(v) PROVE StackShape'
  BY <1>7, Stay DEF Simple, At, Value
<1>8. ASSUME LeaveBlock PROVE StackShape'
  <2>1. /\ outcome = "lowering" /\ Top.kind = "block" /\ outcome' = outcome /\ UNCHANGED loops
        /\ frames' = Front(frames)
        /\ scope_stack' = Popped(scope_stack) /\ defer_scopes' = Popped(defer_scopes)
    BY <1>8 DEF LeaveBlock, ReturnToCaller
  <2>2. Len(scope_stack) >= 1 /\ Len(scope_stack) \in Nat
        /\ Len(defer_scopes) = Len(scope_stack)
    BY <2>1, Nesting DEF FrameNesting
  <2>3. scope_stack # <<>> /\ defer_scopes # <<>>
    BY <2>2, EmptySeq
  <2>4. Len(scope_stack') = Len(scope_stack) - 1 /\ Len(defer_scopes') = Len(defer_scopes) - 1
    BY <2>1, <2>3, PoppedType DEF TypeOK
  <2> QED BY <2>1, <2>2, <2>4, Pop
<1>9. ASSUME AbandonBlock PROVE StackShape'
  BY <1>9, Nesting, Pop DEF AbandonBlock, ReturnToCaller, FrameNesting
<1>10. ASSUME EndLoop PROVE StackShape'
  BY <1>10, PopLoop
<1>11. ASSUME NextArm PROVE StackShape'
  <2> DEFINE n == Len(frames)
             v == IF Top.next = 1 THEN result = "value" ELSE Top.valued
             f == [[frames[n] EXCEPT !.next = @ + 1] EXCEPT !.valued = v]
  <2>1. /\ outcome = "lowering" /\ outcome' = outcome /\ Top.kind = "branch"
        /\ UNCHANGED <<scope_stack, defer_scopes, loops>>
    BY <1>11 DEF NextArm
  <2>2. Top \in BranchFrame /\ Top = frames[n] /\ n \in DOMAIN frames
        /\ frames \in Seq(Frame) /\ frames[n] \in Frame
    BY <2>1, TopType, BranchTop DEF TypeOK
  <2>3. frames' = [[frames EXCEPT ![n].next = @ + 1] EXCEPT ![n].valued = v]
    BY <1>11 DEF NextArm, Valued
  <2> HIDE DEF v
  <2>4. frames' = [frames EXCEPT ![n] = f]
    BY <2>2, <2>3
  <2>5. SameShape(f, frames[n])
    BY <2>1, <2>2 DEF SameShape, BranchFrame
  <2> HIDE DEF f
  <2>6. \A i \in DOMAIN frames : SameShape(frames'[i], frames[i])
    BY <2>2, <2>4, <2>5 DEF SameShape
  <2>7. Len(frames') = Len(frames)
    BY <2>2, <2>4
  <2> QED BY <2>1, <2>6, <2>7, Steady
<1>12. ASSUME EndBranch PROVE StackShape'
  BY <1>12, Nesting, Pop DEF EndBranch, ReturnToCaller, FrameNesting
<1>13. ASSUME NEW tail \in BOOLEAN, EnterBlock(tail) PROVE StackShape'
  <2> DEFINE f == [kind |-> "block", tail |-> FALSE, must |-> Expected(tail),
                   depth |-> Len(scope_stack), loops |-> Len(loop_stack),
                   owned |-> <<>>, defers |-> <<>>, late |-> "no"]
  <2>1. /\ outcome = "lowering" /\ outcome' = outcome /\ UNCHANGED loops
        /\ frames' = Append(Marked(tail), f)
        /\ scope_stack' = Append(scope_stack, <<>>) /\ defer_scopes' = Append(defer_scopes, <<>>)
    BY <1>13 DEF EnterBlock, At
  <2>2. f.kind = "block" /\ f.depth = Len(scope_stack) /\ f.loops = Len(loop_stack)
    OBVIOUS
  <2> HIDE DEF f
  <2>3. Len(scope_stack') = Len(scope_stack) + 1 /\ Len(defer_scopes') = Len(defer_scopes) + 1
    BY <2>1 DEF TypeOK
  <2>4. Len(defer_scopes) = Len(scope_stack)
    BY <2>1, Nesting DEF FrameNesting
  <2> QED BY <2>1, <2>2, <2>3, <2>4, PushPlain
<1>14. ASSUME NEW tail \in BOOLEAN, NEW label \in Labels \cup {NoLabel}, NEW cond \in BOOLEAN,
              BeginLoop(tail, label, cond)
       PROVE  StackShape'
  BY <1>14, PushLoop
<1>15. ASSUME NEW tail \in BOOLEAN, LoopInDeadCode(tail) PROVE StackShape'
  BY <1>15, Stay DEF LoopInDeadCode, At, Value
<1>16. ASSUME NEW tail \in BOOLEAN, NEW size \in 1 .. MaxArms,
              NEW pats \in [1 .. size -> Pattern], NEW ends \in [1 .. size -> {"yes", "no"}],
              BeginBranch(tail, pats, ends)
       PROVE  StackShape'
  <2> DEFINE n       == Len(pats)
             allEnd  == \A i \in 1 .. n : ends[i] = "yes"
             guarded == \E i \in 1 .. n : pats[i] = "cond"
             arm     == [i \in 1 .. n |-> next_block + i]
             unreach == IF allEnd /\ ~guarded THEN arm[n] ELSE next_block + n + 1
             f       == [kind |-> "branch", tail |-> TRUE, must |-> "any",
                         depth |-> Len(scope_stack), loops |-> Len(loop_stack),
                         arms |-> [i \in 1 .. n |-> [block |-> arm[i], ends |-> ends[i]]],
                         next |-> 1, after |-> next_block, unreachable |-> unreach,
                         guarded |-> guarded, valued |-> FALSE]
  <2>0. f.kind = "branch" /\ f.depth = Len(scope_stack) /\ f.loops = Len(loop_stack)
    OBVIOUS
  <2>1. frames' = Append(Marked(tail), f)
    BY <1>16 DEF BeginBranch
  <2> HIDE DEF f
  <2>2. /\ outcome = "lowering" /\ outcome' = outcome /\ UNCHANGED loops
        /\ UNCHANGED <<scope_stack, defer_scopes>>
    BY <1>16 DEF BeginBranch, At
  <2>3. Len(defer_scopes) = Len(scope_stack) /\ Len(scope_stack) \in Nat
    BY <2>2, Nesting DEF FrameNesting
  <2> QED BY <2>0, <2>1, <2>2, <2>3, PushPlain
<1>17. ASSUME NEW tail \in BOOLEAN, BranchInDeadCode(tail) PROVE StackShape'
  BY <1>17 DEF BranchInDeadCode, StackShape, LoopContextBalanced
<1>18. ASSUME NEW tail \in BOOLEAN, Ret(tail) PROVE StackShape'
  <2>1. /\ outcome = "lowering" /\ outcome' = outcome /\ UNCHANGED loops
        /\ Complete("none", tail)
        /\ scope_stack' = Append(Popped(scope_stack), LastScope(scope_stack))
        /\ defer_scopes' = Append(Popped(defer_scopes), LastScope(defer_scopes))
    BY <1>18 DEF Ret, At
  <2>2. Len(scope_stack) >= 1 /\ Len(defer_scopes) = Len(scope_stack)
        /\ Len(scope_stack) \in Nat
    BY <2>1, Nesting DEF FrameNesting
  <2>3. scope_stack # <<>> /\ defer_scopes # <<>>
    BY <2>2, EmptySeq
  <2>4. /\ Popped(scope_stack) \in Seq(Seq(LocalId))
        /\ Len(Popped(scope_stack)) = Len(scope_stack) - 1
        /\ Popped(defer_scopes) \in Seq(Seq(DeferId))
        /\ Len(Popped(defer_scopes)) = Len(defer_scopes) - 1
    BY <2>3, PoppedType DEF TypeOK
  <2>5. /\ Len(scope_stack') = Len(Popped(scope_stack)) + 1
        /\ Len(defer_scopes') = Len(Popped(defer_scopes)) + 1
    BY <2>1, <2>4
  <2>6. Len(scope_stack') = Len(scope_stack) /\ Len(defer_scopes') = Len(defer_scopes)
    BY <2>2, <2>4, <2>5
  <2> QED BY <2>1, <2>6, Stay DEF Value
<1>19. ASSUME NEW tail \in BOOLEAN, RetInDeadCode(tail) PROVE StackShape'
  BY <1>19, Stay DEF RetInDeadCode, At, Value
<1>20. ASSUME NEW tail \in BOOLEAN, NEW skip \in BOOLEAN, NEW label \in Labels \cup {NoLabel},
              Jump(tail, skip, label)
       PROVE  StackShape'
  BY <1>20, Stay DEF Jump, At, Value
<1>21. ASSUME NEW tail \in BOOLEAN, NEW label \in Labels \cup {NoLabel}, JumpNowhere(tail, label)
       PROVE  StackShape'
  BY <1>21, Stay DEF JumpNowhere, At, Value
<1>22. ASSUME NEW tail \in BOOLEAN, Propagate(tail) PROVE StackShape'
  BY <1>22, Stay DEF Propagate, At, Value
<1>23. ASSUME UNCHANGED vars PROVE StackShape'
  BY <1>23 DEF vars, loops, StackShape, FrameNesting, LoopNesting, LabelNesting, LoopFrames,
     IsTarget, LoopContextBalanced, Top
<1> QED
  BY <1>1, <1>2, <1>3, <1>4, <1>5, <1>6, <1>7, <1>8, <1>9, <1>10, <1>11, <1>12, <1>13, <1>14,
     <1>15, <1>16, <1>17, <1>18, <1>19, <1>20, <1>21, <1>22, <1>23 DEF Next

-----------------------------------------------------------------------------
(* The theorems.                                                           *)

\* The inductive invariant: types, and the nesting of the four stacks.
THEOREM StacksNested == Spec => [](TypeOK /\ StackShape)
<1>1. Init => TypeOK /\ StackShape
  BY TypeInit, StackInit
<1>2. TypeOK /\ StackShape /\ [Next]_vars => (TypeOK /\ StackShape)'
  BY TypeStep, StackStep
<1> QED BY <1>1, <1>2, PTL DEF Spec

\* Every component of LoweringContext and of the descent keeps its type.
THEOREM TypeCorrect == Spec => []TypeOK
BY StacksNested, PTL

\* No return, jump or end of a scope unwinds a scope that is not there
\* (exit_scope, unwind_scopes_to_depth).
THEOREM UnwindingStaysInside == Spec => []UnwindsWithinStack
<1>1. TypeOK /\ StackShape => UnwindsWithinStack
  <2> SUFFICES ASSUME TypeOK, StackShape, outcome = "lowering"
               PROVE  /\ Len(defer_scopes) = Len(scope_stack)
                      /\ \A i \in DOMAIN frames :
                           frames[i].kind \in {"func", "block"} => frames[i].depth < Len(scope_stack)
                      /\ \A i \in DOMAIN loop_stack :
                           loop_stack[i].depth \in 1 .. Len(scope_stack)
                      /\ \A l \in Labels : label_map[l] # NoTarget =>
                           label_map[l].depth \in 1 .. Len(scope_stack)
    BY DEF UnwindsWithinStack
  <2>1. FrameNesting /\ LoopNesting /\ LabelNesting /\ DOMAIN frames = 1 .. Len(frames)
        /\ DOMAIN loop_stack = 1 .. Len(loop_stack)
    BY Nesting, LenProperties DEF TypeOK
  <2>2. \A i \in LoopFrames : frames[i].depth \in 1 .. Len(scope_stack)
    BY <2>1 DEF FrameNesting, LoopFrames
  <2>3. \A t : \A i \in LoopFrames : IsTarget(t, frames[i]) => t.depth = frames[i].depth
    BY DEF IsTarget
  <2>4. ASSUME NEW k \in 1 .. Len(loop_stack)
        PROVE  loop_stack[k].depth \in 1 .. Len(scope_stack)
    <3>1. PICK i \in LoopFrames : frames[i].loops = k
      BY <2>1 DEF LoopNesting
    <3>2. IsTarget(loop_stack[k], frames[i])
      BY <2>1, <3>1 DEF LoopNesting
    <3> QED BY <2>2, <2>3, <3>1, <3>2
  <2>5. ASSUME NEW l \in Labels, label_map[l] # NoTarget
        PROVE  label_map[l].depth \in 1 .. Len(scope_stack)
    <3>1. PICK i \in LoopFrames : IsTarget(label_map[l], frames[i])
      BY <2>1, <2>5 DEF LabelNesting
    <3> QED BY <2>2, <2>3, <3>1
  <2> QED BY <2>1, <2>4, <2>5 DEF FrameNesting
<1> QED BY <1>1, StacksNested, PTL

\* A labelled jump resolves only to a loop whose body is still being lowered
\* (lower_loop, lower_stop, lower_skip, lower_jmp).
THEOREM LabelsResolveToOpenLoops == Spec => []LabelsNameOpenLoops
<1>1. TypeOK /\ StackShape => LabelsNameOpenLoops
  BY DEF StackShape, LabelNesting, LabelsNameOpenLoops
<1> QED BY <1>1, StacksNested, PTL

\* No function inherits a loop of its predecessor, although
\* reset_function_state resets neither loop_stack nor label_map.
THEOREM FunctionsStartClean == Spec => []LoopContextBalanced
<1>1. StackShape => LoopContextBalanced
  BY DEF StackShape
<1> QED BY <1>1, StacksNested, PTL

-----------------------------------------------------------------------------
(* The blocks of a body.                                                   *)

\* The ids of the blocks that know where control goes.
Decided(bs) == {bs[i].id : i \in {j \in DOMAIN bs : bs[j].term # Unreachable}}

\* Two blocks of one id: only the one that lookup finds has been decided.
FirstsDecided(bs) == \A i \in DOMAIN bs : bs[i].term # Unreachable => IsFirst(bs, i)

\* The body cs continues the body bs: no block goes, no decision is taken back.
Continues(bs, cs) ==
  /\ Len(bs) <= Len(cs)
  /\ \A i \in DOMAIN bs : /\ cs[i].id = bs[i].id
                          /\ bs[i].term # Unreachable => cs[i].term = bs[i].term

\* All the blocks a body may send control to.
TargetsOf(bs) == UNION {bs[i].term.targets : i \in DOMAIN bs}

\* A body continues itself.
LEMMA ContinuesItself ==
  ASSUME NEW bs \in Seq(Block)
  PROVE  Continues(bs, bs)
BY DEF Continues

\* What continues a continuation continues the body itself.
LEMMA ContinuesOn ==
  ASSUME NEW bs \in Seq(Block), NEW cs \in Seq(Block), NEW ds \in Seq(Block),
         Continues(bs, cs), Continues(cs, ds)
  PROVE  Continues(bs, ds)
<1>1. /\ Len(bs) \in Nat /\ Len(cs) \in Nat /\ Len(ds) \in Nat
      /\ DOMAIN bs = 1 .. Len(bs) /\ DOMAIN cs = 1 .. Len(cs)
      /\ Len(bs) <= Len(cs) /\ Len(cs) <= Len(ds)
  BY LenProperties DEF Continues
<1>2. DOMAIN bs \subseteq DOMAIN cs
  BY <1>1
<1>3. \A i \in DOMAIN bs : /\ ds[i].id = bs[i].id
                           /\ bs[i].term # Unreachable => ds[i].term = bs[i].term
  BY <1>2 DEF Continues
<1> QED BY <1>1, <1>3 DEF Continues

\* What continues a body has decided at least as much.
LEMMA DecidedStays ==
  ASSUME NEW bs \in Seq(Block), NEW cs \in Seq(Block), Continues(bs, cs)
  PROVE  Decided(bs) \subseteq Decided(cs)
<1>1. DOMAIN bs = 1 .. Len(bs) /\ DOMAIN cs = 1 .. Len(cs) /\ Len(bs) \in Nat /\ Len(cs) \in Nat
  BY LenProperties
<1>2. \A i \in DOMAIN bs : i \in DOMAIN cs
  BY <1>1 DEF Continues
<1> QED BY <1>2 DEF Continues, Decided

\* Assigning a terminator changes the first block of that id and no other.
LEMMA SetTermEffect ==
  ASSUME NEW bs \in Seq(Block), NEW b, NEW t \in Terminator
  PROVE  /\ SetTerm(bs, b, t) \in Seq(Block)
         /\ DOMAIN SetTerm(bs, b, t) = DOMAIN bs
         /\ Len(SetTerm(bs, b, t)) = Len(bs)
         /\ \A i \in DOMAIN bs :
              /\ SetTerm(bs, b, t)[i].id = bs[i].id
              /\ SetTerm(bs, b, t)[i].term =
                   IF bs[i].id = b /\ IsFirst(bs, i) THEN t ELSE bs[i].term
         /\ Ids(SetTerm(bs, b, t)) = Ids(bs)
         /\ \A i \in DOMAIN bs : IsFirst(SetTerm(bs, b, t), i) <=> IsFirst(bs, i)
<1> DEFINE cs == SetTerm(bs, b, t)
<1>1. cs \in Seq(Block) /\ DOMAIN cs = DOMAIN bs
  BY SetTermType DEF SetTerm
<1>2. Len(cs) = Len(bs) /\ DOMAIN bs = 1 .. Len(bs) /\ Len(bs) \in Nat
  BY <1>1, LenProperties
<1>3. ASSUME NEW i \in DOMAIN bs
      PROVE  /\ cs[i].id = bs[i].id
             /\ cs[i].term = IF bs[i].id = b /\ IsFirst(bs, i) THEN t ELSE bs[i].term
  <2>1. bs[i] \in Block
    BY <1>2, ElementOfSeq
  <2>2. cs[i] = IF bs[i].id = b /\ IsFirst(bs, i) THEN [bs[i] EXCEPT !.term = t] ELSE bs[i]
    BY DEF SetTerm
  <2> HIDE DEF cs
  <2> QED BY <2>1, <2>2 DEF Block
<1> HIDE DEF cs
<1>4. Ids(cs) = Ids(bs)
  BY <1>1, <1>3 DEF Ids
<1>5. ASSUME NEW i \in DOMAIN bs PROVE IsFirst(cs, i) <=> IsFirst(bs, i)
  BY <1>2, <1>3 DEF IsFirst
<1> QED BY <1>1, <1>2, <1>3, <1>4, <1>5 DEF cs

\* A block that is not there is given no terminator.
LEMMA SetMissing ==
  ASSUME NEW bs \in Seq(Block), NEW b, b \notin Ids(bs), NEW t
  PROVE  SetTerm(bs, b, t) = bs
<1>1. \A i \in DOMAIN bs : bs[i].id # b
  BY DEF Ids
<1>2. bs = [i \in DOMAIN bs |-> bs[i]]
  OBVIOUS
<1> QED BY <1>1, <1>2 DEF SetTerm

\* Deciding an open block continues the body and decides that block only.
LEMMA Decide ==
  ASSUME NEW bs \in Seq(Block), NEW b, NEW t \in Terminator, FirstsDecided(bs)
  PROVE  /\ FirstsDecided(SetTerm(bs, b, t))
         /\ Decided(SetTerm(bs, b, t)) \subseteq Decided(bs) \cup {b}
         /\ b \notin Decided(bs) => Continues(bs, SetTerm(bs, b, t))
         /\ TargetsOf(SetTerm(bs, b, t)) \subseteq TargetsOf(bs) \cup t.targets
<1> DEFINE cs == SetTerm(bs, b, t)
<1>1. /\ DOMAIN cs = DOMAIN bs /\ Len(cs) = Len(bs) /\ Len(bs) \in Nat
      /\ \A i \in DOMAIN bs :
           /\ cs[i].id = bs[i].id
           /\ cs[i].term = IF bs[i].id = b /\ IsFirst(bs, i) THEN t ELSE bs[i].term
           /\ IsFirst(cs, i) <=> IsFirst(bs, i)
  BY SetTermEffect, LenProperties
<1> HIDE DEF cs
<1>2. FirstsDecided(cs)
  BY <1>1 DEF FirstsDecided
<1>3. Decided(cs) \subseteq Decided(bs) \cup {b}
  BY <1>1 DEF Decided
<1>4. b \notin Decided(bs) => Continues(bs, cs)
  BY <1>1 DEF Decided, Continues
<1>5. TargetsOf(cs) \subseteq TargetsOf(bs) \cup t.targets
  BY <1>1 DEF TargetsOf
<1> QED BY <1>2, <1>3, <1>4, <1>5 DEF cs

\* Behind a body come blocks that are open, or whose ids are new to the body
\* and to each other.
LEMMA Extend ==
  ASSUME NEW bs \in Seq(Block), NEW cs \in Seq(Block), FirstsDecided(bs),
         \A j \in DOMAIN cs : cs[j].term # Unreachable => cs[j].id \notin Ids(bs) /\ IsFirst(cs, j)
  PROVE  /\ bs \o cs \in Seq(Block)
         /\ FirstsDecided(bs \o cs)
         /\ Ids(bs \o cs) = Ids(bs) \cup Ids(cs)
         /\ Decided(bs \o cs) = Decided(bs) \cup Decided(cs)
         /\ Continues(bs, bs \o cs)
         /\ TargetsOf(bs \o cs) = TargetsOf(bs) \cup TargetsOf(cs)
<1> DEFINE ds == bs \o cs  m == Len(bs)  n == Len(cs)
<1>1. /\ m \in Nat /\ n \in Nat /\ DOMAIN bs = 1 .. m /\ DOMAIN cs = 1 .. n
      /\ ds \in Seq(Block) /\ Len(ds) = m + n /\ DOMAIN ds = 1 .. m + n
      /\ \A i \in 1 .. m + n : ds[i] = IF i <= m THEN bs[i] ELSE cs[i - m]
  BY ConcatProperties
<1> HIDE DEF ds, m, n
<1>2. \A i \in DOMAIN bs : i \in DOMAIN ds /\ ds[i] = bs[i]
  BY <1>1
<1>3. \A i \in DOMAIN ds : \/ i \in DOMAIN bs /\ ds[i] = bs[i]
                           \/ ~(i <= m) /\ i - m \in DOMAIN cs /\ ds[i] = cs[i - m]
  BY <1>1
<1>4. \A j \in DOMAIN cs : j + m \in DOMAIN ds /\ ds[j + m] = cs[j]
  <2> TAKE j \in DOMAIN cs
  <2>1. j + m \in 1 .. m + n /\ ~(j + m <= m) /\ (j + m) - m = j
    BY <1>1
  <2> QED BY <1>1, <2>1
<1>5. \A i \in DOMAIN ds : \/ \E k \in DOMAIN bs : ds[i] = bs[k]
                           \/ \E k \in DOMAIN cs : ds[i] = cs[k]
  BY <1>3
<1>6. Ids(ds) = Ids(bs) \cup Ids(cs)
  BY <1>2, <1>4, <1>5 DEF Ids
<1>7. Decided(ds) = Decided(bs) \cup Decided(cs)
  BY <1>2, <1>4, <1>5 DEF Decided
<1>8. TargetsOf(ds) = TargetsOf(bs) \cup TargetsOf(cs)
  BY <1>2, <1>4, <1>5 DEF TargetsOf
<1>9. Continues(bs, ds)
  BY <1>1, <1>2 DEF Continues, m
<1>10. ASSUME NEW i \in DOMAIN ds, ds[i].term # Unreachable PROVE IsFirst(ds, i)
  <2>1. CASE i \in DOMAIN bs
    BY <1>1, <2>1, <1>2, <1>10 DEF FirstsDecided, IsFirst
  <2>2. CASE i \notin DOMAIN bs
    <3>1. ~(i <= m) /\ i - m \in DOMAIN cs /\ ds[i] = cs[i - m]
      BY <1>3, <2>2
    <3>2. cs[i - m].id \notin Ids(bs) /\ IsFirst(cs, i - m)
      BY <1>10, <3>1
    <3>3. \A j \in 1 .. (i - 1) : \/ j \in DOMAIN bs /\ ds[j] = bs[j]
                                  \/ j - m \in 1 .. (i - m) - 1 /\ ds[j] = cs[j - m]
      <4> TAKE j \in 1 .. (i - 1)
      <4>1. j \in DOMAIN ds
        BY <1>1
      <4>2. CASE j \in DOMAIN bs
        BY <1>2, <4>2
      <4>3. CASE j \notin DOMAIN bs
        BY <1>3, <4>1, <4>3, <1>1, <3>1
      <4> QED BY <4>2, <4>3
    <3> QED BY <3>1, <3>2, <3>3 DEF IsFirst, Ids
  <2> QED BY <2>1, <2>2
<1> QED BY <1>1, <1>6, <1>7, <1>8, <1>9, <1>10 DEF ds, FirstsDecided

\* Behind a body comes one block: open, or with a new id.
LEMMA ExtendOne ==
  ASSUME NEW bs \in Seq(Block), NEW b \in Block, FirstsDecided(bs),
         b.term # Unreachable => b.id \notin Ids(bs)
  PROVE  /\ Append(bs, b) \in Seq(Block)
         /\ FirstsDecided(Append(bs, b))
         /\ Ids(Append(bs, b)) = Ids(bs) \cup {b.id}
         /\ Decided(Append(bs, b)) = Decided(bs) \cup (IF b.term = Unreachable THEN {} ELSE {b.id})
         /\ Continues(bs, Append(bs, b))
         /\ TargetsOf(Append(bs, b)) = TargetsOf(bs) \cup b.term.targets
<1> DEFINE ds == Append(bs, b)  m == Len(bs)
<1>1. /\ m \in Nat /\ DOMAIN bs = 1 .. m /\ ds \in Seq(Block) /\ Len(ds) = m + 1
      /\ DOMAIN ds = 1 .. m + 1 /\ \A i \in 1 .. m : ds[i] = bs[i]
      /\ ds[m + 1] = b
  BY AppendProperties
<1> HIDE DEF ds, m
<1>2. \A i \in DOMAIN bs : i \in DOMAIN ds /\ ds[i] = bs[i]
  BY <1>1
<1>3. \A i \in DOMAIN ds : (i \in DOMAIN bs /\ ds[i] = bs[i]) \/ (i = m + 1 /\ ds[i] = b)
  BY <1>1
<1>4. m + 1 \in DOMAIN ds
  BY <1>1
<1>5. Ids(ds) = Ids(bs) \cup {b.id}
  BY <1>1, <1>2, <1>3, <1>4 DEF Ids
<1>6. Decided(ds) = Decided(bs) \cup (IF b.term = Unreachable THEN {} ELSE {b.id})
  <2>1. ASSUME NEW x \in Decided(ds)
        PROVE  x \in Decided(bs) \cup (IF b.term = Unreachable THEN {} ELSE {b.id})
    BY <1>2, <1>3, <2>1 DEF Decided
  <2>2. ASSUME NEW x \in Decided(bs) PROVE x \in Decided(ds)
    BY <1>2 DEF Decided
  <2>3. b.term # Unreachable => b.id \in Decided(ds)
    BY <1>1, <1>4 DEF Decided
  <2> QED BY <2>1, <2>2, <2>3
<1>7. TargetsOf(ds) = TargetsOf(bs) \cup b.term.targets
  BY <1>1, <1>2, <1>3, <1>4 DEF TargetsOf
<1>8. Continues(bs, ds)
  BY <1>1, <1>2 DEF Continues, m
<1>9. ASSUME NEW i \in DOMAIN ds, ds[i].term # Unreachable PROVE IsFirst(ds, i)
  <2>1. \A j \in 1 .. (i - 1) : j \in DOMAIN bs
    BY <1>1
  <2>2. CASE i \in DOMAIN bs
    BY <1>2, <1>9, <2>2, <2>1 DEF FirstsDecided, IsFirst
  <2>3. CASE i \notin DOMAIN bs
    BY <1>3, <1>9, <2>3, <1>2, <2>1 DEF IsFirst, Ids
  <2> QED BY <2>2, <2>3
<1> QED BY <1>1, <1>5, <1>6, <1>7, <1>8, <1>9 DEF ds, FirstsDecided

\* Behind a body comes an open block, whatever its id (Vec::push, PushIfNew).
LEMMA ExtendOpen ==
  ASSUME NEW bs \in Seq(Block), NEW b \in BlockId, FirstsDecided(bs),
         NEW cs, cs = Append(bs, NewBlock(b)) \/ cs = PushIfNew(bs, b)
  PROVE  /\ cs \in Seq(Block) /\ FirstsDecided(cs) /\ Ids(cs) = Ids(bs) \cup {b}
         /\ Decided(cs) = Decided(bs) /\ Continues(bs, cs) /\ TargetsOf(cs) = TargetsOf(bs)
<1> DEFINE e == NewBlock(b)
<1>1. e \in Block /\ e.id = b /\ e.term = Unreachable /\ e.term.targets = {}
  BY TermTypes DEF NewBlock, Unreachable
<1> HIDE DEF e
<1>2. CASE cs = Append(bs, e)
  <2>1. /\ cs \in Seq(Block) /\ FirstsDecided(cs) /\ Ids(cs) = Ids(bs) \cup {e.id}
        /\ Decided(cs) = Decided(bs) \cup (IF e.term = Unreachable THEN {} ELSE {e.id})
        /\ Continues(bs, cs) /\ TargetsOf(cs) = TargetsOf(bs) \cup e.term.targets
    BY <1>1, <1>2, ExtendOne
  <2> QED BY <1>1, <2>1
<1>3. CASE cs = bs /\ b \in Ids(bs)
  BY <1>3, ContinuesItself
<1> QED BY <1>2, <1>3 DEF PushIfNew, e

\* Lookup finds the first block of an id, and there is one.
LEMMA FirstExists ==
  ASSUME NEW bs \in Seq(Block), NEW b \in Ids(bs)
  PROVE  \E i \in DOMAIN bs : bs[i].id = b /\ IsFirst(bs, i)
<1> DEFINE n == Len(bs)  B == {k \in 0 .. n : \A j \in 1 .. k : bs[j].id # b}
<1> SUFFICES ASSUME \A i \in DOMAIN bs : bs[i].id = b => ~IsFirst(bs, i)
             PROVE  FALSE
  OBVIOUS
<1>1. n \in Nat /\ DOMAIN bs = 1 .. n
  BY LenProperties
<1> HIDE DEF n
<1>2. 0 \in B /\ B \in SUBSET (0 .. n)
  BY <1>1
<1>3. ASSUME NEW k \in 0 .. n - 1, k \in B PROVE k + 1 \in B
  <2>1. k + 1 \in DOMAIN bs /\ (k + 1) - 1 = k
    BY <1>1
  <2>2. \A j \in 1 .. k : bs[j].id # b
    BY <1>3
  <2>3. bs[k + 1].id # b
    BY <2>1, <2>2 DEF IsFirst
  <2>4. \A j \in 1 .. k + 1 : j \in 1 .. k \/ j = k + 1
    BY <1>1
  <2> QED BY <1>1, <2>1, <2>2, <2>3, <2>4
<1>4. B = 0 .. n
  <2> HIDE DEF B
  <2> QED BY <1>1, <1>2, <1>3, UpTo
<1>5. n \in B
  BY <1>1, <1>4
<1> QED BY <1>1, <1>5 DEF Ids

\* A block of the body that is given a terminator is decided.
LEMMA Settled ==
  ASSUME NEW bs \in Seq(Block), NEW b \in Ids(bs), NEW t \in Terminator, t # Unreachable
  PROVE  b \in Decided(SetTerm(bs, b, t))
<1> DEFINE cs == SetTerm(bs, b, t)
<1>1. PICK i \in DOMAIN bs : bs[i].id = b /\ IsFirst(bs, i)
  BY FirstExists
<1>2. i \in DOMAIN cs /\ cs[i].id = b /\ cs[i].term = t
  BY <1>1, SetTermEffect
<1> HIDE DEF cs
<1>3. b \in Decided(cs)
  BY <1>2 DEF Decided
<1> QED BY <1>3 DEF cs

\* What lookup says of the terminator of an id: decided or not.
LEMMA Lookup ==
  ASSUME NEW bs \in Seq(Block), FirstsDecided(bs), NEW b
  PROVE  TermOf(bs, b) = Unreachable <=> b \notin Decided(bs)
<1> DEFINE P(i) == bs[i].id = b /\ IsFirst(bs, i)
           k == CHOOSE i \in DOMAIN bs : P(i)
<1>1. CASE b \notin Ids(bs)
  BY <1>1 DEF TermOf, Decided, Ids
<1>2. CASE b \in Ids(bs)
  <2>1. \E i \in DOMAIN bs : P(i)
    BY <1>2, FirstExists
  <2>2. k \in DOMAIN bs /\ P(k)
    BY <2>1
  <2>3. TermOf(bs, b) = bs[k].term
    BY <1>2 DEF TermOf
  <2>4. DOMAIN bs = 1 .. Len(bs) /\ Len(bs) \in Nat
    BY LenProperties
  <2> HIDE DEF k
  <2>5. ASSUME NEW i \in DOMAIN bs, P(i) PROVE i = k
    BY <2>2, <2>4, <2>5 DEF IsFirst
  <2>6. b \in Decided(bs) => bs[k].term # Unreachable
    BY <2>5 DEF Decided, FirstsDecided
  <2>7. bs[k].term # Unreachable => b \in Decided(bs)
    BY <2>2 DEF Decided
  <2> QED BY <2>3, <2>6, <2>7
<1> QED BY <1>1, <1>2

-----------------------------------------------------------------------------
(* Who owns the ids of the blocks that are not written yet.                *)

\* The ids a loop or a branch took when it was entered.
ArmBlocks(f) == {f.arms[k].block : k \in DOMAIN f.arms}
Held(f) ==
  IF f.kind = "loop" THEN {f.header, f.exit}
  ELSE IF f.kind = "branch" THEN {f.after, f.unreachable} \cup ArmBlocks(f)
  ELSE {}

\* Those of them that will be blocks under construction later.
LaterArms(f) == {f.arms[k].block : k \in {m \in DOMAIN f.arms : m > f.next}}
Pending(f) ==
  IF f.kind = "loop" THEN {f.exit}
  ELSE IF f.kind = "branch" THEN {f.after} \cup LaterArms(f)
  ELSE {}

ArmsNumbered(f) == f.kind = "branch" => \A k \in DOMAIN f.arms : f.arms[k].block = f.after + k

IdsBelow == \A b \in Ids(blocks) : b < next_block

Reservations ==
  \A i \in DOMAIN frames : (\A b \in Held(frames[i]) : b < next_block) /\ ArmsNumbered(frames[i])

\* An inner construct has later ids than the constructs it is nested in.
Apart ==
  \A i, j \in DOMAIN frames : i < j => \A a \in Held(frames[i]), b \in Held(frames[j]) : a < b

StillOpen == \A i \in DOMAIN frames : Pending(frames[i]) \cap Decided(blocks) = {}

Building ==
  Live => /\ current_block < next_block /\ current_block \notin Decided(blocks)
          /\ \A i \in DOMAIN frames : current_block \notin Pending(frames[i])
          /\ "unionPropagate" \notin Features => current_block \in Ids(blocks)

GraphShape ==
  outcome = "lowering" =>
    FirstsDecided(blocks) /\ IdsBelow /\ Reservations /\ Apart /\ StillOpen /\ Building

\* The frame f has replaced g and may hold what g held.
Inherited(f, g) == Held(f) = Held(g) /\ Pending(f) \subseteq Pending(g) /\ ArmsNumbered(f)

\* Every frame after a step was there before or holds ids that are new.
Inherits ==
  \A i \in DOMAIN frames' :
    \/ i \in DOMAIN frames /\ Inherited(frames'[i], frames[i])
    \/ /\ i = Len(frames) + 1 /\ ArmsNumbered(frames'[i])
       /\ \A b \in Held(frames'[i]) : b \in next_block .. (next_block' - 1)

\* The ids of a frame are block ids, and what is pending is held.
LEMMA HeldType ==
  ASSUME NEW f \in Frame
  PROVE  Held(f) \subseteq Nat /\ Pending(f) \subseteq Held(f)
<1>1. CASE f.kind \in {"func", "block"}
  BY <1>1 DEF Held, Pending
<1>2. CASE f.kind = "loop"
  BY <1>2, FrameFields DEF Held, Pending, LoopFrame, BlockId
<1>3. CASE f.kind = "branch"
  <2>1. f \in BranchFrame
    BY <1>3, FrameFields
  <2>2. f.arms \in Seq(Arm) /\ f.after \in Nat /\ f.unreachable \in Nat
    BY <2>1 DEF BranchFrame, BlockId
  <2>3. \A k \in DOMAIN f.arms : f.arms[k] \in Arm
    BY <2>2, LenProperties, ElementOfSeq
  <2>4. ArmBlocks(f) \subseteq Nat
    BY <2>3 DEF ArmBlocks, Arm, BlockId
  <2>5. LaterArms(f) \subseteq ArmBlocks(f)
    BY DEF LaterArms, ArmBlocks
  <2> QED BY <1>3, <2>2, <2>4, <2>5 DEF Held, Pending
<1> QED BY <1>1, <1>2, <1>3, FrameFields

\* A frame that differs from another in its position, its owned locals or its
\* defers only inherits its ids.
LEMMA SameIds ==
  ASSUME NEW f, NEW g, ArmsNumbered(g), f.kind = g.kind,
         g.kind = "loop" => f.header = g.header /\ f.exit = g.exit,
         g.kind = "branch" => /\ f.arms = g.arms /\ f.next = g.next
                              /\ f.after = g.after /\ f.unreachable = g.unreachable
  PROVE  Inherited(f, g) /\ Pending(f) = Pending(g)
BY DEF Inherited, Held, Pending, ArmBlocks, LaterArms, ArmsNumbered

\* Reservations stay apart from each other and below the next id.
LEMMA FramesNext ==
  ASSUME TypeOK, TypeOK', GraphShape, outcome = "lowering", next_block <= next_block', Inherits
  PROVE  Reservations' /\ Apart'
<1>1. /\ next_block \in Nat /\ next_block' \in Nat
      /\ Len(frames) \in Nat /\ DOMAIN frames = 1 .. Len(frames)
      /\ Len(frames') \in Nat /\ DOMAIN frames' = 1 .. Len(frames')
  BY LenProperties DEF TypeOK
<1>2. /\ \A i \in DOMAIN frames : Held(frames[i]) \subseteq Nat
      /\ \A i \in DOMAIN frames' : Held(frames'[i]) \subseteq Nat
  BY HeldType, ElementOfSeq, <1>1 DEF TypeOK
<1>3. Reservations /\ Apart
  BY DEF GraphShape
<1>4. ASSUME NEW i \in DOMAIN frames'
      PROVE  (\A b \in Held(frames'[i]) : b < next_block') /\ ArmsNumbered(frames'[i])
  <2>1. CASE i \in DOMAIN frames /\ Inherited(frames'[i], frames[i])
    BY <1>2, <1>3, <2>1, <1>1 DEF Inherited, Reservations
  <2>2. CASE /\ i = Len(frames) + 1 /\ ArmsNumbered(frames'[i])
             /\ \A b \in Held(frames'[i]) : b \in next_block .. (next_block' - 1)
    BY <1>1, <2>2
  <2> QED BY <2>1, <2>2 DEF Inherits
<1>5. ASSUME NEW i \in DOMAIN frames', NEW j \in DOMAIN frames', i < j,
             NEW a \in Held(frames'[i]), NEW b \in Held(frames'[j])
      PROVE  a < b
  <2>1. i \in DOMAIN frames /\ a \in Held(frames[i])
    BY <1>1, <1>5 DEF Inherits, Inherited
  <2>2. CASE j \in DOMAIN frames /\ Inherited(frames'[j], frames[j])
    BY <1>3, <1>5, <2>1, <2>2 DEF Apart, Inherited
  <2>3. CASE \A c \in Held(frames'[j]) : c \in next_block .. (next_block' - 1)
    BY <1>2, <1>3, <2>1, <2>3, <1>1 DEF Reservations
  <2> QED BY <2>2, <2>3 DEF Inherits
<1> QED BY <1>4, <1>5 DEF Reservations, Apart

\* What is pending after a step was pending before or is new.
LEMMA PendingNext ==
  ASSUME TypeOK, TypeOK', Inherits, NEW i \in DOMAIN frames', NEW b \in Pending(frames'[i])
  PROVE  \/ i \in DOMAIN frames /\ b \in Pending(frames[i])
         \/ b \in next_block .. (next_block' - 1)
<1>1. frames'[i] \in Frame
  BY LenProperties, ElementOfSeq DEF TypeOK
<1>2. b \in Held(frames'[i])
  BY <1>1, HeldType
<1> QED BY <1>2 DEF Inherits, Inherited

\* A step may decide any block that no frame needs later.
LEMMA OpenNext ==
  ASSUME TypeOK, TypeOK', GraphShape, outcome = "lowering", Inherits,
         NEW D, Decided(blocks') \subseteq Decided(blocks) \cup D,
         \A i \in DOMAIN frames' : Pending(frames'[i]) \cap D = {}
  PROVE  StillOpen'
<1>1. ASSUME NEW i \in DOMAIN frames', NEW b \in Pending(frames'[i]), b \in Decided(blocks')
      PROVE  FALSE
  <2>1. b \in Decided(blocks)
    BY <1>1
  <2>2. b \in Ids(blocks)
    BY <2>1 DEF Decided, Ids
  <2>3. b < next_block /\ next_block \in Nat /\ next_block' \in Nat
    BY <2>2 DEF GraphShape, IdsBelow, TypeOK
  <2>4. b \notin next_block .. (next_block' - 1)
    BY <2>3
  <2>5. i \in DOMAIN frames /\ b \in Pending(frames[i])
    BY <2>4, PendingNext
  <2> QED BY <2>1, <2>5 DEF GraphShape, StillOpen
<1> QED BY <1>1 DEF StillOpen

\* An id that is taken and that no frame needs later will not be needed after
\* a step either.
LEMMA NotNeeded ==
  ASSUME TypeOK, TypeOK', GraphShape, outcome = "lowering", Inherits,
         NEW b \in Nat, b < next_block, \A i \in DOMAIN frames : b \notin Pending(frames[i])
  PROVE  \A i \in DOMAIN frames' : b \notin Pending(frames'[i])
<1>1. next_block \in Nat /\ next_block' \in Nat
  BY DEF TypeOK
<1>2. \A m, k \in Nat : b < m => b \notin m .. k - 1
  OBVIOUS
<1> QED BY <1>1, <1>2, PendingNext

\* The ids of the blocks of a body are numbers.
LEMMA IdsType ==
  ASSUME NEW bs \in Seq(Block)
  PROVE  Ids(bs) \subseteq Nat /\ Decided(bs) \subseteq Ids(bs)
<1>1. \A i \in DOMAIN bs : bs[i] \in Block
  BY LenProperties, ElementOfSeq
<1>2. Ids(bs) \subseteq Nat
  BY <1>1 DEF Ids, Block, BlockId
<1> QED BY <1>2 DEF Ids, Decided

\* Steps that leave the graph as it is and only spend ids.
LEMMA Calm ==
  ASSUME TypeOK, TypeOK', GraphShape, outcome = "lowering", outcome' = "lowering",
         UNCHANGED <<blocks, current_block>>, next_block <= next_block', Inherits
  PROVE  GraphShape'
<1>1. Reservations' /\ Apart'
  BY FramesNext
<1>2. StillOpen'
  <2>1. Decided(blocks') \subseteq Decided(blocks) \cup {}
    OBVIOUS
  <2>2. \A i \in DOMAIN frames' : Pending(frames'[i]) \cap {} = {}
    OBVIOUS
  <2> QED BY <2>1, <2>2, OpenNext
<1>3. \A b \in Ids(blocks) : b \in Nat
  BY IdsType DEF TypeOK
<1>4. IdsBelow'
  <2>1. next_block \in Nat /\ next_block' \in Nat
    BY DEF TypeOK
  <2>2. \A b \in Ids(blocks) : b < next_block
    BY DEF GraphShape, IdsBelow
  <2>3. \A b \in Ids(blocks) : b < next_block'
    BY <1>3, <2>1, <2>2
  <2> QED BY <2>3 DEF IdsBelow
<1>5. Building'
  <2>1. CASE current_block = NoBlock
    BY <2>1 DEF Building, Live
  <2>2. CASE current_block # NoBlock
    <3>1. /\ current_block \in Nat /\ next_block \in Nat /\ next_block' \in Nat
          /\ current_block < next_block /\ Building
      BY <2>2 DEF GraphShape, Building, Live, TypeOK, BlockId
    <3> QED BY <2>2, <3>1, NotNeeded DEF Building, Live
  <2> QED BY <2>1, <2>2
<1> QED BY <1>1, <1>2, <1>4, <1>5 DEF GraphShape

\* A step that moves on to another block, or to none: it decides the blocks D.
LEMMA Onward ==
  ASSUME TypeOK, TypeOK', GraphShape, outcome = "lowering", outcome' = "lowering",
         next_block <= next_block', Inherits,
         FirstsDecided(blocks'), \A b \in Ids(blocks') : b < next_block',
         NEW D, Decided(blocks') \subseteq Decided(blocks) \cup D,
         \A i \in DOMAIN frames' : Pending(frames'[i]) \cap D = {},
         Live' => /\ \/ current_block' \in Ids(blocks')
                     \/ "unionPropagate" \in Features /\ current_block' < next_block'
                  /\ current_block' \notin Decided(blocks')
                  /\ \A i \in DOMAIN frames' : current_block' \notin Pending(frames'[i])
  PROVE  GraphShape'
<1>1. Reservations' /\ Apart'
  BY FramesNext
<1>2. StillOpen'
  BY OpenNext
<1>3. IdsBelow'
  BY DEF IdsBelow
<1>4. Building'
  BY DEF Building
<1> QED BY <1>1, <1>2, <1>3, <1>4 DEF GraphShape

-----------------------------------------------------------------------------
(* What a step does to the frames.                                         *)

\* Frames that only changed in their position, owned locals or defers.
LEMMA InheritsKept ==
  ASSUME TypeOK, GraphShape, outcome = "lowering", NEW n \in DOMAIN frames, NEW f,
         frames' = [frames EXCEPT ![n] = f], Inherited(f, frames[n])
  PROVE  Inherits
<1>1. DOMAIN frames' = DOMAIN frames
  OBVIOUS
<1>2. \A i \in DOMAIN frames : frames'[i] = IF i = n THEN f ELSE frames[i]
  OBVIOUS
<1>3. \A i \in DOMAIN frames : Inherited(frames[i], frames[i])
  BY DEF GraphShape, Reservations, Inherited
<1> QED BY <1>1, <1>2, <1>3 DEF Inherits

\* The top frame told where the expression below it stands.
LEMMA MarkedInherits ==
  ASSUME TypeOK, StackShape, GraphShape, outcome = "lowering", NEW tail \in BOOLEAN
  PROVE  /\ Marked(tail) \in Seq(Frame) /\ DOMAIN Marked(tail) = DOMAIN frames
         /\ Len(Marked(tail)) = Len(frames)
         /\ \A i \in DOMAIN frames : /\ Inherited(Marked(tail)[i], frames[i])
                                     /\ Pending(Marked(tail)[i]) = Pending(frames[i])
<1> DEFINE n == Len(frames)  f == [frames[n] EXCEPT !.tail = tail]
<1>1. frames \in Seq(Frame) /\ frames[n] \in Frame /\ n \in DOMAIN frames
  BY TopType DEF TypeOK
<1>2. \A i \in DOMAIN frames : ArmsNumbered(frames[i])
  BY DEF GraphShape, Reservations
<1>3. /\ f.kind = frames[n].kind
      /\ frames[n].kind = "loop" => f.header = frames[n].header /\ f.exit = frames[n].exit
      /\ frames[n].kind = "branch" =>
           /\ f.arms = frames[n].arms /\ f.next = frames[n].next
           /\ f.after = frames[n].after /\ f.unreachable = frames[n].unreachable
  <2>1. CASE frames[n].kind = "loop"
    BY <1>1, <2>1, FrameFields DEF LoopFrame
  <2>2. CASE frames[n].kind = "branch"
    BY <1>1, <2>2, FrameFields DEF BranchFrame
  <2>3. CASE frames[n].kind \in {"func", "block"}
    BY <1>1, <2>3, FrameFields DEF FuncFrame, BlockFrame
  <2> QED BY <1>1, <2>1, <2>2, <2>3, FrameFields
<1> HIDE DEF f
<1>4. Inherited(f, frames[n]) /\ Pending(f) = Pending(frames[n])
  BY <1>1, <1>2, <1>3, SameIds
<1>5. \A i \in DOMAIN frames : Marked(tail)[i] = IF i = n THEN f ELSE frames[i]
  BY <1>1 DEF Marked, f
<1>6. \A i \in DOMAIN frames : Inherited(frames[i], frames[i])
  BY <1>2 DEF Inherited
<1>7. DOMAIN Marked(tail) = DOMAIN frames
  BY DEF Marked
<1> QED BY <1>4, <1>5, <1>6, <1>7, MarkedType

\* An expression that opens no frame.
LEMMA InheritsMarked ==
  ASSUME TypeOK, StackShape, GraphShape, outcome = "lowering", NEW tail \in BOOLEAN,
         frames' = Marked(tail)
  PROVE  Inherits
BY MarkedInherits DEF Inherits

\* A construct that opens a frame for itself.
LEMMA InheritsPush ==
  ASSUME TypeOK, StackShape, GraphShape, outcome = "lowering", NEW tail \in BOOLEAN,
         NEW f, frames' = Append(Marked(tail), f), ArmsNumbered(f),
         \A b \in Held(f) : b \in next_block .. (next_block' - 1)
  PROVE  /\ Inherits
         /\ \A i \in DOMAIN frames' :
              (i \in DOMAIN frames /\ Pending(frames'[i]) = Pending(frames[i])) \/ frames'[i] = f
<1> DEFINE n == Len(frames)
<1>1. /\ n \in Nat /\ DOMAIN frames = 1 .. n
      /\ Marked(tail) \in Seq(Frame) /\ Len(Marked(tail)) = n
  BY MarkedInherits, LenProperties DEF TypeOK
<1>2. /\ DOMAIN frames' = 1 .. n + 1 /\ frames'[n + 1] = f
      /\ \A i \in 1 .. n : frames'[i] = Marked(tail)[i]
  BY <1>1
<1>3. \A i \in DOMAIN frames' : i \in DOMAIN frames \/ i = n + 1
  BY <1>1, <1>2
<1> QED BY <1>1, <1>2, <1>3, MarkedInherits DEF Inherits

\* The top frame returns.
LEMMA InheritsPop ==
  ASSUME TypeOK, StackShape, GraphShape, outcome = "lowering", frames' = Front(frames)
  PROVE  /\ Inherits /\ DOMAIN frames' = 1 .. Len(frames) - 1
         /\ \A i \in DOMAIN frames' : /\ i \in DOMAIN frames /\ i < Len(frames)
                                      /\ frames'[i] = frames[i]
<1>1. frames # <<>> /\ frames \in Seq(Frame)
  BY TopType DEF TypeOK
<1>2. /\ DOMAIN frames' = 1 .. Len(frames) - 1
      /\ \A i \in 1 .. Len(frames) - 1 : frames'[i] = frames[i]
      /\ DOMAIN frames = 1 .. Len(frames) /\ Len(frames) \in Nat
  BY <1>1, FrontElements, LenProperties
<1>3. \A i \in DOMAIN frames' : /\ i \in DOMAIN frames /\ i < Len(frames)
                                /\ frames'[i] = frames[i]
  BY <1>2
<1>4. \A i \in DOMAIN frames : Inherited(frames[i], frames[i])
  BY DEF GraphShape, Reservations, Inherited
<1> QED BY <1>2, <1>3, <1>4 DEF Inherits

\* What the top frame holds, no frame below it needs.
LEMMA TopOnly ==
  ASSUME TypeOK, StackShape, GraphShape, outcome = "lowering",
         NEW i \in DOMAIN frames, i < Len(frames), NEW b \in Held(Top)
  PROVE  b \notin Pending(frames[i])
<1>1. /\ Top = frames[Len(frames)] /\ Len(frames) \in DOMAIN frames
      /\ frames[i] \in Frame /\ Top \in Frame
  BY TopType, LenProperties, ElementOfSeq DEF TypeOK
<1>2. \A a \in Held(frames[i]) : a < b
  BY <1>1 DEF GraphShape, Apart
<1>3. b \in Nat
  BY <1>1, HeldType
<1>4. b \notin Held(frames[i])
  BY <1>2, <1>3
<1> QED BY <1>1, <1>4, HeldType

-----------------------------------------------------------------------------
(* The decision blocks of a branch.                                        *)

\* The decision blocks d of the arms arm[1 .. n] are numbered from first, and
\* lead to each other, to an arm, or to one of the blocks in others.
Numbered(d, first) == \A j \in DOMAIN d.blocks : d.blocks[j].id = first + j - 1
LeadsTo(d, arm, n, others) ==
  \A b \in {d.entry} \cup TargetsOf(d.blocks) :
    b \in Ids(d.blocks) \cup others \/ \E i \in 1 .. n : b = arm[i]

\* The others are the two blocks given for what no arm matches.
LEMMA DecisionIds ==
  ASSUME NEW n \in Nat, NEW pats \in [1 .. n -> Pattern], NEW arm \in [1 .. n -> BlockId],
         NEW first \in BlockId, NEW fallback \in BlockId, NEW unreachable \in BlockId
  PROVE  /\ Numbered(Decision(pats, arm, first, fallback, unreachable), first)
         /\ LeadsTo(Decision(pats, arm, first, fallback, unreachable), arm, n,
                    {fallback, unreachable})
<1> DEFINE before  == {i \in 1 .. n : \A k \in 1 .. i : pats[k] # "wild"}
           wild    == Cardinality(before) + 1
           guards  == {i \in before : pats[i] = "cond"}
           last    == Max(guards \cup {0})
           lits    == {i \in before : i > last}
           leaf    == IF wild \in 1 .. n THEN arm[wild]
                      ELSE IF last = n THEN fallback ELSE unreachable
           m       == Cardinality(guards)
           count   == m + (IF lits = {} THEN 0 ELSE 1)
           node(j) == IF j <= count THEN first + j - 1 ELSE leaf
           tests(j) == IF j > m THEN lits
                       ELSE {i \in guards : Cardinality({g \in guards : g <= i}) = j}
           goes(j) == {arm[i] : i \in tests(j)} \cup {node(j + 1)}
           blk(j)  == [id |-> node(j), term |-> Switch(goes(j))]
           bs      == Decision(pats, arm, first, fallback, unreachable).blocks
           entry   == Decision(pats, arm, first, fallback, unreachable).entry
<1>0. Len(pats) = n
  OBVIOUS
<1>1. Decision(pats, arm, first, fallback, unreachable) =
        [entry |-> node(1), blocks |-> [j \in 1 .. count |-> blk(j)]]
  BY <1>0 DEF Decision
<1>2. m \in Nat
  <2>1. IsFiniteSet(1 .. n)
    BY FS_Interval
  <2>2. IsFiniteSet(guards)
    BY <2>1, FS_Subset
  <2> QED BY <2>2, FS_CardinalityType
<1>3. count \in Nat
  BY <1>2
<1> DEFINE around == {arm[i] : i \in 1 .. n} \cup {fallback, unreachable}
<1>4. leaf \in around
  <2> HIDE DEF wild, last
  <2> QED OBVIOUS
<1>5. \A j : \A i \in tests(j) : arm[i] \in around
  <2> HIDE DEF last, m
  <2> QED OBVIOUS
<1> HIDE DEF leaf, tests
<1>6. bs = [j \in 1 .. count |-> blk(j)] /\ entry = node(1)
  <2> HIDE DEF node, blk, count
  <2> QED BY <1>1
<1> HIDE DEF bs, entry
<1>7. DOMAIN bs = 1 .. count /\ \A j \in 1 .. count : bs[j] = blk(j)
  <2> HIDE DEF blk, count
  <2> QED BY <1>6
<1> HIDE DEF count
<1>14. \A j \in 1 .. count : /\ bs[j].id = node(j)
                             /\ bs[j].term.targets = goes(j)
  <2> HIDE DEF node, goes, before, guards, last, lits, m, wild, around
  <2> SUFFICES ASSUME NEW j \in 1 .. count
               PROVE  bs[j].id = node(j) /\ bs[j].term.targets = goes(j)
    OBVIOUS
  <2>1. bs[j] = [id |-> node(j), term |-> Switch(goes(j))]
    BY <1>7
  <2>2. Switch(goes(j)).targets = goes(j)
    BY DEF Switch
  <2> QED BY <2>1, <2>2
<1> HIDE DEF blk
<1>8. \A j \in DOMAIN bs : bs[j].id = first + j - 1
  <2> TAKE j \in DOMAIN bs
  <2>1. j \in 1 .. count /\ j <= count
    BY <1>3, <1>7
  <2>2. bs[j].id = node(j)
    BY <1>14, <2>1
  <2> QED BY <2>1, <2>2
<1>9. \A j \in Nat \ {0} : node(j) \in Ids(bs) \cup around
  <2> TAKE j \in Nat \ {0}
  <2>1. CASE j <= count
    BY <1>3, <2>1, <1>7, <1>14 DEF Ids
  <2>2. CASE ~(j <= count)
    BY <1>4, <2>2
  <2> QED BY <2>1, <2>2
<1>10. \A j \in DOMAIN bs : bs[j].term.targets \subseteq Ids(bs) \cup around
  <2> TAKE j \in DOMAIN bs
  <2>1. j + 1 \in Nat \ {0}
    BY <1>3, <1>7
  <2>2. bs[j].term.targets = {arm[i] : i \in tests(j)} \cup {node(j + 1)}
    BY <1>7, <1>14
  <2> HIDE DEF node
  <2> QED BY <1>5, <1>9, <2>1, <2>2
<1>11. TargetsOf(bs) \subseteq Ids(bs) \cup around
  BY <1>10 DEF TargetsOf
<1>12. entry \in Ids(bs) \cup around
  <2>1. 1 \in Nat \ {0}
    OBVIOUS
  <2> HIDE DEF node
  <2> QED BY <1>6, <1>9, <2>1
<1> QED BY <1>8, <1>11, <1>12 DEF bs, entry, Numbered, LeadsTo

-----------------------------------------------------------------------------
(* What a step does to the graph.                                          *)

Current == IF Live THEN {current_block} ELSE {}

\* Deciding where the block under construction goes, if there is one.
LEMMA DecideCurrent ==
  ASSUME TypeOK, GraphShape, outcome = "lowering", NEW t \in Terminator,
         NEW bs, bs = IF Live THEN SetTerm(blocks, current_block, t) ELSE blocks
  PROVE  /\ bs \in Seq(Block) /\ FirstsDecided(bs) /\ Ids(bs) = Ids(blocks)
         /\ Continues(blocks, bs)
         /\ Decided(bs) \subseteq Decided(blocks) \cup Current
         /\ TargetsOf(bs) \subseteq TargetsOf(blocks) \cup t.targets
<1>1. blocks \in Seq(Block) /\ FirstsDecided(blocks)
  BY DEF TypeOK, GraphShape
<1>2. CASE Live
  BY <1>2, <1>1, SetTermEffect, Decide DEF GraphShape, Building, Current
<1>3. CASE ~Live
  BY <1>1, <1>3, ContinuesItself DEF Current
<1> QED BY <1>2, <1>3

\* No frame will need the block that was under construction.
LEMMA CurrentNotNeeded ==
  ASSUME TypeOK, TypeOK', GraphShape, outcome = "lowering", Inherits
  PROVE  /\ \A b \in Current : b \in Nat /\ b < next_block
         /\ \A i \in DOMAIN frames' : Pending(frames'[i]) \cap Current = {}
<1>1. CASE Live
  BY <1>1, NotNeeded DEF GraphShape, Building, Current, TypeOK, BlockId, Live
<1>2. CASE ~Live
  BY <1>2 DEF Current
<1> QED BY <1>1, <1>2

\* A return or a jump: the flow ends here.
LEMMA FlowEnds ==
  ASSUME TypeOK, TypeOK', GraphShape, outcome = "lowering", outcome' = "lowering",
         next_block' = next_block, Inherits, current_block' = NoBlock, NEW t \in Terminator,
         blocks' = IF Live THEN SetTerm(blocks, current_block, t) ELSE blocks
  PROVE  GraphShape' /\ Continues(blocks, blocks')
<1>1. /\ FirstsDecided(blocks') /\ Ids(blocks') = Ids(blocks) /\ Continues(blocks, blocks')
      /\ Decided(blocks') \subseteq Decided(blocks) \cup Current
  BY DecideCurrent
<1>2. \A b \in Ids(blocks') : b < next_block'
  BY <1>1 DEF GraphShape, IdsBelow
<1>3. next_block <= next_block'
  BY DEF TypeOK
<1>4. ~Live'
  BY DEF Live
<1>5. \A i \in DOMAIN frames' : Pending(frames'[i]) \cap Current = {}
  BY CurrentNotNeeded
<1>6. GraphShape'
  BY <1>1, <1>2, <1>3, <1>4, <1>5, Onward
<1> QED BY <1>1, <1>6

\* The flow branches off into new blocks: bs decides the current block, cs are
\* the new blocks, and one of them, still open, is the next under construction.
LEMMA FlowForks ==
  ASSUME TypeOK, TypeOK', GraphShape, outcome = "lowering", outcome' = "lowering",
         next_block <= next_block', Inherits, NEW t \in Terminator,
         NEW bs, bs = IF Live THEN SetTerm(blocks, current_block, t) ELSE blocks,
         NEW cs \in Seq(Block), blocks' = bs \o cs,
         \A j \in DOMAIN cs : /\ cs[j].id \in next_block .. (next_block' - 1)
                              /\ cs[j].term # Unreachable => IsFirst(cs, j),
         \A i \in DOMAIN frames' : Pending(frames'[i]) \cap Decided(cs) = {},
         current_block' \in Ids(cs), current_block' \notin Decided(cs),
         \A i \in DOMAIN frames' : current_block' \notin Pending(frames'[i])
  PROVE  GraphShape' /\ Continues(blocks, blocks')
<1>1. /\ bs \in Seq(Block) /\ FirstsDecided(bs) /\ Ids(bs) = Ids(blocks) /\ Continues(blocks, bs)
      /\ Decided(bs) \subseteq Decided(blocks) \cup Current
  BY DecideCurrent
<1>2. /\ \A b \in Current : b \in Nat /\ b < next_block
      /\ \A i \in DOMAIN frames' : Pending(frames'[i]) \cap Current = {}
  BY CurrentNotNeeded
<1>3. /\ next_block \in Nat /\ next_block' \in Nat /\ blocks \in Seq(Block) /\ blocks' \in Seq(Block)
      /\ \A b \in Ids(blocks) : b \in Nat /\ b < next_block
  BY IdsType DEF TypeOK, GraphShape, IdsBelow
<1>4. \A b \in Ids(cs) : b \in next_block .. (next_block' - 1)
  BY DEF Ids
<1>5. \A b \in Ids(cs) : b \notin Ids(blocks) /\ b \notin Current
  BY <1>2, <1>3, <1>4
<1>6. \A j \in DOMAIN cs : cs[j].id \in Ids(cs)
  BY DEF Ids
<1>7. /\ FirstsDecided(blocks') /\ Ids(blocks') = Ids(blocks) \cup Ids(cs)
      /\ Decided(blocks') = Decided(bs) \cup Decided(cs) /\ Continues(bs, blocks')
  <2>1. \A j \in DOMAIN cs : cs[j].term # Unreachable => cs[j].id \notin Ids(bs) /\ IsFirst(cs, j)
    BY <1>1, <1>5, <1>6
  <2>2. bs \in Seq(Block) /\ FirstsDecided(bs)
    BY <1>1
  <2>3. /\ FirstsDecided(bs \o cs) /\ Ids(bs \o cs) = Ids(bs) \cup Ids(cs)
        /\ Decided(bs \o cs) = Decided(bs) \cup Decided(cs) /\ Continues(bs, bs \o cs)
    BY <2>1, <2>2, Extend, Zenon
  <2> QED BY <1>1, <2>3
<1>8. Continues(blocks, blocks')
  BY <1>1, <1>3, <1>7, ContinuesOn
<1>9. \A b \in Ids(blocks') : b < next_block'
  <2>1. \A b \in Ids(blocks) : b < next_block'
    BY <1>3
  <2>2. \A b \in Ids(cs) : b < next_block'
    BY <1>3, <1>4
  <2> QED BY <1>7, <2>1, <2>2
<1> DEFINE D == Current \cup Decided(cs)
<1>10. /\ Decided(blocks') \subseteq Decided(blocks) \cup D
       /\ \A i \in DOMAIN frames' : Pending(frames'[i]) \cap D = {}
  BY <1>1, <1>2, <1>7
<1>11. /\ current_block' \in Ids(blocks')
       /\ current_block' \notin Decided(blocks')
       /\ \A i \in DOMAIN frames' : current_block' \notin Pending(frames'[i])
  BY <1>3, IdsType, <1>5, <1>1, <1>2, <1>7
<1> HIDE DEF D
<1>12. GraphShape'
  BY <1>7, <1>9, <1>10, <1>11, Onward
<1> QED BY <1>8, <1>12

-----------------------------------------------------------------------------
(* The graph: the actions that change it.                                  *)

\* lower_func: a body of one open block.
LEMMA GraphBegin ==
  ASSUME TypeOK', NEW params \in 0 .. MaxParams, NEW void \in BOOLEAN, NEW exprBody \in BOOLEAN,
         BeginFunc(params, void, exprBody)
  PROVE  GraphShape'
<1> DEFINE f == [kind |-> "func", tail |-> exprBody, must |-> "any", depth |-> 0,
                 loops |-> Len(loop_stack), owned |-> [i \in 1 .. params |-> i - 1],
                 defers |-> <<>>, late |-> "no", void |-> void]
<1>1. /\ blocks' = <<NewBlock(0)>> /\ current_block' = 0 /\ next_block' = 1 /\ frames' = <<f>>
  BY DEF BeginFunc
<1>2. f.kind = "func"
  OBVIOUS
<1> HIDE DEF f
<1>3. DOMAIN blocks' = {1} /\ blocks'[1] = NewBlock(0) /\ DOMAIN frames' = {1} /\ frames'[1] = f
  BY <1>1
<1>4. Held(f) = {} /\ Pending(f) = {} /\ ArmsNumbered(f)
  BY <1>2 DEF Held, Pending, ArmsNumbered
<1>5. blocks'[1].id = 0 /\ blocks'[1].term = Unreachable
  BY <1>3 DEF NewBlock
<1>6. Ids(blocks') = {0} /\ Decided(blocks') = {}
  BY <1>3, <1>5 DEF Ids, Decided
<1>7. FirstsDecided(blocks')
  BY <1>3, <1>5 DEF FirstsDecided
<1>8. IdsBelow' /\ Building'
  BY <1>1, <1>3, <1>4, <1>6 DEF IdsBelow, Building
<1>9. Reservations' /\ Apart' /\ StillOpen'
  BY <1>3, <1>4 DEF Reservations, Apart, StillOpen
<1> QED BY <1>7, <1>8, <1>9 DEF GraphShape

\* lower_loop: the header is decided, the body is built, the exit is promised.
LEMMA GraphLoop ==
  ASSUME TypeOK, TypeOK', StackShape, GraphShape,
         NEW tail \in BOOLEAN, NEW label, NEW cond \in BOOLEAN, BeginLoop(tail, label, cond)
  PROVE  GraphShape' /\ Continues(blocks, blocks')
<1> DEFINE header == next_block  body == next_block + 1  exit == next_block + 2
           ht == IF cond THEN Switch({body, exit}) ELSE Goto(body)
           h == [id |-> header, term |-> ht]
           cs == <<h, NewBlock(body)>>
           f == [kind |-> "loop", tail |-> TRUE, must |-> "any", depth |-> Len(scope_stack),
                 loops |-> Len(loop_stack) + 1, header |-> header, exit |-> exit, label |-> label]
<1>1. /\ outcome = "lowering" /\ outcome' = "lowering" /\ Live
      /\ next_block' = next_block + 3 /\ current_block' = body
      /\ blocks' = SetTerm(blocks, current_block, Goto(header)) \o cs
      /\ frames' = Append(Marked(tail), f)
  BY DEF BeginLoop, At
<1>2. next_block \in Nat /\ header \in BlockId /\ body \in BlockId /\ exit \in BlockId
  BY DEF TypeOK, BlockId
<1>3. Goto(header) \in Terminator /\ ht \in Terminator /\ NewBlock(body) \in Block
  BY <1>2, TermTypes
<1>4. f.kind = "loop" /\ f.header = header /\ f.exit = exit
  OBVIOUS
<1> HIDE DEF f
<1>5. ArmsNumbered(f) /\ Held(f) = {header, exit} /\ Pending(f) = {exit}
  BY <1>4 DEF ArmsNumbered, Held, Pending
<1>6. \A b \in Held(f) : b \in next_block .. (next_block' - 1)
  BY <1>1, <1>2, <1>5
<1>7. /\ Inherits
      /\ \A i \in DOMAIN frames' :
           (i \in DOMAIN frames /\ Pending(frames'[i]) = Pending(frames[i])) \/ frames'[i] = f
  BY <1>1, <1>5, <1>6, InheritsPush
<1>8. h \in Block /\ h.id = header
  BY <1>2, <1>3 DEF Block
<1> HIDE DEF ht, h
<1>9. /\ cs \in Seq(Block) /\ DOMAIN cs = {1, 2} /\ cs[1] = h /\ cs[2] = NewBlock(body)
  BY <1>3, <1>8
<1> HIDE DEF cs
<1>10. /\ Ids(cs) = {header, body} /\ Decided(cs) \subseteq {header}
       /\ \A j \in DOMAIN cs : cs[j].term # Unreachable => IsFirst(cs, j)
  BY <1>8, <1>9 DEF Ids, Decided, NewBlock, IsFirst
<1>11. \A j \in DOMAIN cs : cs[j].id \in next_block .. (next_block' - 1)
  <2>1. \A j \in DOMAIN cs : cs[j].id \in Ids(cs)
    BY DEF Ids
  <2>2. header \in next_block .. (next_block' - 1) /\ body \in next_block .. (next_block' - 1)
    BY <1>1, <1>2
  <2> QED BY <1>10, <2>1, <2>2
<1>12. \A i \in DOMAIN frames', b \in {header, body} : b \notin Pending(frames'[i])
  <2>1. header # exit /\ body # exit
    BY <1>2
  <2>2. \A i \in DOMAIN frames : \A b \in Pending(frames[i]) : b < next_block /\ b \in Nat
    <3> TAKE i \in DOMAIN frames
    <3>1. frames[i] \in Frame
      BY LenProperties, ElementOfSeq DEF TypeOK
    <3>2. Pending(frames[i]) \subseteq Held(frames[i]) /\ Held(frames[i]) \subseteq Nat
      BY <3>1, HeldType
    <3>3. \A b \in Held(frames[i]) : b < next_block
      BY <1>1 DEF GraphShape, Reservations
    <3> QED BY <3>2, <3>3
  <2>3. \A i \in DOMAIN frames : header \notin Pending(frames[i]) /\ body \notin Pending(frames[i])
    BY <1>2, <2>2
  <2> QED BY <1>5, <1>7, <2>1, <2>3
<1>13. current_block' \in Ids(cs) /\ current_block' \notin Decided(cs)
  BY <1>2, <1>1, <1>10
<1>14. next_block <= next_block'
  BY <1>1, <1>2
<1>15. blocks' = (IF Live THEN SetTerm(blocks, current_block, Goto(header)) ELSE blocks) \o cs
  BY <1>1
<1> HIDE DEF header, body, exit
<1> QED BY <1>1, <1>3, <1>7, <1>9, <1>10, <1>11, <1>12, <1>13, <1>14, <1>15, FlowForks, ZenonT(40)

\* lower_propagate: an error block, a success block, and the block they join in.
LEMMA GraphPropagate ==
  ASSUME TypeOK, TypeOK', StackShape, GraphShape, NEW tail \in BOOLEAN, Propagate(tail)
  PROVE  GraphShape' /\ Continues(blocks, blocks')
<1> DEFINE error == next_block  success == next_block + 1  merge == next_block + 2
           e == [id |-> error, term |-> Return]
           s == [id |-> success, term |-> Goto(merge)]
           cs == <<e, s, NewBlock(merge)>>
           bs == IF Live THEN SetTerm(blocks, current_block, Switch({error, success})) ELSE blocks
<1>1. /\ outcome = "lowering" /\ outcome' = "lowering"
      /\ next_block' = next_block + 3 /\ current_block' = merge /\ frames' = Marked(tail)
      /\ blocks' = bs \o cs \/ ("unionPropagate" \in Features /\ blocks' = bs \o <<>>)
  BY DEF Propagate, At, Complete
<1>2. next_block \in Nat /\ error \in BlockId /\ success \in BlockId /\ merge \in BlockId
  BY DEF TypeOK, BlockId
<1>3. /\ Switch({error, success}) \in Terminator /\ Goto(merge) \in Terminator
      /\ NewBlock(merge) \in Block /\ Return \in Terminator
  BY <1>2, TermTypes
<1>4. e \in Block /\ s \in Block /\ e.id = error /\ s.id = success
  BY <1>2, <1>3 DEF Block
<1> HIDE DEF e, s
<1>5. /\ cs \in Seq(Block) /\ DOMAIN cs = {1, 2, 3}
      /\ cs[1] = e /\ cs[2] = s /\ cs[3] = NewBlock(merge)
  BY <1>3, <1>4
<1> HIDE DEF cs
<1>6. NewBlock(merge).id = merge /\ NewBlock(merge).term = Unreachable
  BY DEF NewBlock
<1>7. /\ Ids(cs) = {error, success, merge} /\ Decided(cs) \subseteq {error, success}
  BY <1>4, <1>5, <1>6 DEF Ids, Decided
<1>8. error # success /\ error # merge /\ success # merge
  BY <1>2
<1>9. \A j \in DOMAIN cs : IsFirst(cs, j)
  <2>1. IsFirst(cs, 1)
    BY DEF IsFirst
  <2>2. IsFirst(cs, 2)
    BY <1>4, <1>5, <1>8 DEF IsFirst
  <2>3. IsFirst(cs, 3)
    BY <1>4, <1>5, <1>6, <1>8 DEF IsFirst
  <2> QED BY <1>5, <2>1, <2>2, <2>3
<1>10. {error, success, merge} \subseteq next_block .. (next_block' - 1)
  BY <1>1, <1>2
<1>11. \A j \in DOMAIN cs : cs[j].id \in next_block .. (next_block' - 1)
  BY <1>7, <1>10 DEF Ids
<1>12. Inherits
  BY <1>1, InheritsMarked
<1>13. \A i \in DOMAIN frames', b \in {error, success, merge} : b \notin Pending(frames'[i])
  <2>1. \A i \in DOMAIN frames' : i \in DOMAIN frames /\ Pending(frames'[i]) = Pending(frames[i])
    BY <1>1, MarkedInherits
  <2>2. \A i \in DOMAIN frames : \A b \in Pending(frames[i]) : b < next_block /\ b \in Nat
    <3> TAKE i \in DOMAIN frames
    <3>1. frames[i] \in Frame
      BY LenProperties, ElementOfSeq DEF TypeOK
    <3>2. Pending(frames[i]) \subseteq Held(frames[i]) /\ Held(frames[i]) \subseteq Nat
      BY <3>1, HeldType
    <3>3. \A b \in Held(frames[i]) : b < next_block
      BY <1>1 DEF GraphShape, Reservations
    <3> QED BY <3>2, <3>3
  <2>3. \A b \in {error, success, merge} : ~(b < next_block)
    BY <1>2
  <2> HIDE DEF error, success, merge
  <2> QED BY <2>1, <2>2, <2>3
<1>14. current_block' \in Ids(cs) /\ current_block' \notin Decided(cs)
  BY <1>1, <1>7, <1>8
<1>15. next_block <= next_block'
  BY <1>1, <1>2
<1>16. \A i \in DOMAIN frames' : Pending(frames'[i]) \cap Decided(cs) = {}
  BY <1>7, <1>13
<1>17. \A i \in DOMAIN frames' : current_block' \notin Pending(frames'[i])
  BY <1>1, <1>13
<1>18. merge < next_block' /\ merge \notin 0 .. next_block - 1
  BY <1>1, <1>2
<1> HIDE DEF error, success, merge
<1>19. CASE blocks' = bs \o cs
  BY <1>1, <1>3, <1>5, <1>9, <1>11, <1>12, <1>14, <1>15, <1>16, <1>17, <1>19, FlowForks
<1>20. CASE "unionPropagate" \in Features /\ blocks' = bs \o <<>>
  <2>1. /\ bs \in Seq(Block) /\ FirstsDecided(bs) /\ Ids(bs) = Ids(blocks) /\ Continues(blocks, bs)
        /\ Decided(bs) \subseteq Decided(blocks) \cup Current
    BY <1>1, <1>3, DecideCurrent
  <2> HIDE DEF bs
  <2>2. blocks' = bs
    BY <1>20, <2>1
  <2>3. /\ next_block' \in Nat /\ \A b \in Ids(blocks) : b \in Nat /\ b < next_block
    BY <1>1, IdsType DEF TypeOK, GraphShape, IdsBelow
  <2>4. \A b \in Ids(blocks') : b < next_block'
    BY <1>2, <1>15, <2>1, <2>2, <2>3
  <2>5. Decided(blocks') \subseteq Ids(blocks') /\ merge \notin Ids(blocks')
    BY <1>2, <1>18, <2>1, <2>2, <2>3, IdsType
  <2>6. \A i \in DOMAIN frames' : Pending(frames'[i]) \cap Current = {}
    BY <1>1, <1>12, CurrentNotNeeded
  <2>7. GraphShape'
    BY <1>1, <1>12, <1>15, <1>17, <1>18, <1>20, <2>1, <2>2, <2>4, <2>5, <2>6, Onward
  <2> QED BY <2>1, <2>2, <2>7
<1> QED BY <1>1, <1>19, <1>20

\* lower_branch: the decision blocks are decided, the first arm is built.
LEMMA GraphBranch ==
  ASSUME TypeOK, TypeOK', StackShape, GraphShape, NEW tail \in BOOLEAN, NEW size \in Nat \ {0},
         NEW pats \in [1 .. size -> Pattern], NEW ends \in [1 .. size -> {"yes", "no"}],
         BeginBranch(tail, pats, ends)
  PROVE  GraphShape' /\ Continues(blocks, blocks')
<1> DEFINE n        == Len(pats)
           after    == next_block
           arm      == [i \in 1 .. n |-> next_block + i]
           guarded  == \E i \in 1 .. n : pats[i] = "cond"
           reuse    == (\A i \in 1 .. n : ends[i] = "yes") /\ ~guarded
           unreach  == IF reuse THEN arm[n] ELSE next_block + n + 1
           first    == IF reuse THEN next_block + n + 1 ELSE next_block + n + 2
           fallback == IF reuse THEN unreach ELSE after
           decision == Decision(pats, arm, first, fallback, unreach)
           ds       == decision.blocks
           cs       == ds \o <<NewBlock(arm[1])>>
           f        == [kind |-> "branch", tail |-> TRUE, must |-> "any",
                        depth |-> Len(scope_stack), loops |-> Len(loop_stack),
                        arms |-> [i \in 1 .. n |-> [block |-> arm[i], ends |-> ends[i]]],
                        next |-> 1, after |-> after, unreachable |-> unreach,
                        guarded |-> guarded, valued |-> FALSE]
<1>1. /\ outcome = "lowering" /\ outcome' = "lowering" /\ Live
      /\ next_block' = first + Len(ds) /\ current_block' = arm[1]
      /\ blocks' = SetTerm(blocks, current_block, Goto(decision.entry)) \o ds \o <<NewBlock(arm[1])>>
      /\ frames' = Append(Marked(tail), f)
  <2>1. outcome = "lowering" /\ outcome' = "lowering" /\ Live /\ current_block' = arm[1]
    BY DEF BeginBranch, At
  <2>2. next_block' = first + Len(ds)
    BY DEF BeginBranch
  <2>3. blocks' = SetTerm(blocks, current_block, Goto(decision.entry)) \o ds \o <<NewBlock(arm[1])>>
    BY DEF BeginBranch
  <2>4. frames' = Append(Marked(tail), f)
    BY DEF BeginBranch
  <2> QED BY <2>1, <2>2, <2>3, <2>4
<1>2. /\ next_block \in Nat /\ n \in Nat /\ n >= 1 /\ pats \in [1 .. n -> Pattern]
      /\ ends \in [1 .. n -> {"yes", "no"}]
  BY SMTT(20) DEF TypeOK
<1> HIDE DEF n
<1>3. /\ arm \in [1 .. n -> BlockId] /\ after \in BlockId
      /\ \A i \in 1 .. n : arm[i] = next_block + i
  BY <1>2 DEF BlockId
<1> HIDE DEF arm
<1>4. 1 \in 1 .. n /\ n \in 1 .. n
  BY <1>2
<1>5. /\ unreach \in BlockId /\ unreach >= next_block /\ unreach < first
      /\ first \in BlockId /\ first \in Nat /\ first > next_block + n
  <2> HIDE DEF reuse
  <2> QED BY <1>2, <1>3, <1>4 DEF BlockId
<1>6. f.kind = "branch" /\ f.after = after /\ f.unreachable = unreach /\ f.next = 1
      /\ f.arms = [i \in 1 .. n |-> [block |-> arm[i], ends |-> ends[i]]]
  OBVIOUS
<1> HIDE DEF f, reuse, unreach, first
<1>7. DOMAIN f.arms = 1 .. n /\ \A i \in 1 .. n : f.arms[i].block = arm[i]
  BY <1>6
<1>8. /\ ArmsNumbered(f) /\ Held(f) = {after, unreach} \cup {arm[i] : i \in 1 .. n}
      /\ Pending(f) = {after} \cup {arm[k] : k \in {m \in 1 .. n : m > 1}}
  <2>1. ArmsNumbered(f)
    BY <1>3, <1>6, <1>7 DEF ArmsNumbered
  <2>2. ArmBlocks(f) = {arm[i] : i \in 1 .. n}
    BY <1>7 DEF ArmBlocks
  <2>3. LaterArms(f) = {arm[k] : k \in {m \in 1 .. n : m > 1}}
    BY <1>6, <1>7 DEF LaterArms
  <2> QED BY <1>6, <2>1, <2>2, <2>3 DEF Held, Pending
<1>9. fallback \in BlockId
  BY <1>3, <1>5
<1>10. /\ ds \in Seq(Block) /\ decision.entry \in BlockId
       /\ \A j \in DOMAIN ds : ds[j].id = first + j - 1
  <2> HIDE DEF fallback
  <2>1. decision.entry \in BlockId /\ ds \in Seq(Block)
    BY <1>2, <1>3, <1>5, <1>9, DecisionType
  <2>2. /\ n \in Nat /\ pats \in [1 .. n -> Pattern] /\ arm \in [1 .. n -> BlockId]
        /\ first \in BlockId /\ fallback \in BlockId /\ unreach \in BlockId
        /\ ds = Decision(pats, arm, first, fallback, unreach).blocks
        /\ decision.entry = Decision(pats, arm, first, fallback, unreach).entry
    BY <1>2, <1>3, <1>5, <1>9
  <2> HIDE DEF decision, ds
  <2> DEFINE d == Decision(pats, arm, first, fallback, unreach)
  <2>4. Numbered(d, first)
    BY <2>2, DecisionIds
  <2> HIDE DEF d
  <2>5. ds = d.blocks
    BY <2>2 DEF d
  <2>3. \A j \in DOMAIN ds : ds[j].id = first + j - 1
    BY <2>4, <2>5 DEF Numbered
  <2> QED BY <2>1, <2>3
<1> HIDE DEF decision, ds, after
<1>11. Len(ds) \in Nat /\ DOMAIN ds = 1 .. Len(ds)
  BY <1>10, LenProperties
<1>12. next_block <= next_block' /\ next_block' \in Nat /\ next_block' >= first
  BY <1>1, <1>2, <1>5, <1>11
<1>13. \A j \in DOMAIN ds : ds[j].id \in first .. (next_block' - 1)
  BY <1>1, <1>5, <1>10, <1>11
<1>14. \A i \in 1 .. n : arm[i] \in next_block .. (first - 1)
  BY <1>2, <1>3, <1>5
<1>15. \A b \in Held(f) : b \in next_block .. (next_block' - 1)
  <2>1. \A i \in 1 .. n : arm[i] \in next_block .. (next_block' - 1)
    BY <1>2, <1>5, <1>12, <1>14
  <2>2. {after, unreach} \subseteq next_block .. (next_block' - 1)
    <3> DEFINE z == next_block  z2 == next_block'
    <3>0. z \in Nat /\ z2 \in Nat /\ first \in Nat /\ first > z /\ z2 >= first
      BY <1>2, <1>5, <1>12
    <3> HIDE DEF z, z2
    <3>4. z \in z .. (z2 - 1)
      BY <3>0
    <3>1. after \in next_block .. (next_block' - 1)
      BY <3>4 DEF after, z, z2
    <3>2. unreach \in Nat /\ unreach >= z /\ unreach < first
      BY <1>5 DEF BlockId, z
    <3>5. unreach \in z .. (z2 - 1)
      BY <3>0, <3>2
    <3>3. unreach \in next_block .. (next_block' - 1)
      BY <3>5 DEF z, z2
    <3> QED BY <3>1, <3>3
  <2> QED BY <1>8, <2>1, <2>2
<1>16. /\ Inherits
       /\ \A i \in DOMAIN frames' :
            (i \in DOMAIN frames /\ Pending(frames'[i]) = Pending(frames[i])) \/ frames'[i] = f
  BY <1>1, <1>8, <1>15, InheritsPush
<1>17. NewBlock(arm[1]) \in Block /\ Goto(decision.entry) \in Terminator
       /\ NewBlock(arm[1]).id = arm[1] /\ NewBlock(arm[1]).term = Unreachable
  BY <1>3, <1>4, <1>10, TermTypes DEF NewBlock
<1>18. FirstsDecided(ds)
  <2>1. ASSUME NEW j \in DOMAIN ds, NEW k \in 1 .. (j - 1) PROVE ds[k].id # ds[j].id
    <3>1. k \in DOMAIN ds /\ j \in Nat /\ k \in Nat /\ k < j
      BY <1>11, <2>1
    <3>2. ds[k].id = first + k - 1 /\ ds[j].id = first + j - 1
      BY <1>10, <3>1
    <3> QED BY <1>5, <3>1, <3>2
  <2> QED BY <2>1 DEF FirstsDecided, IsFirst
<1>19. cs = Append(ds, NewBlock(arm[1]))
  BY <1>10, <1>17
<1>20. /\ cs \in Seq(Block) /\ FirstsDecided(cs) /\ Ids(cs) = Ids(ds) \cup {arm[1]}
       /\ Decided(cs) = Decided(ds)
  <2>1. arm[1] \in BlockId
    BY <1>3, <1>4
  <2> HIDE DEF cs
  <2> QED BY <1>10, <1>18, <1>19, <2>1, ExtendOpen
<1> HIDE DEF cs
<1>21. \A b \in Ids(ds) : b \in first .. (next_block' - 1)
  BY <1>13 DEF Ids
<1>22. \A j \in DOMAIN cs : /\ cs[j].id \in next_block .. (next_block' - 1)
                            /\ cs[j].term # Unreachable => IsFirst(cs, j)
  <2>1. \A b \in Ids(ds) : b \in next_block .. (next_block' - 1)
    BY <1>2, <1>5, <1>21
  <2>2. arm[1] \in next_block .. (next_block' - 1)
    BY <1>2, <1>4, <1>5, <1>12, <1>14
  <2>3. \A j \in DOMAIN cs : cs[j].id \in Ids(cs)
    BY DEF Ids
  <2> QED BY <1>20, <2>1, <2>2, <2>3 DEF FirstsDecided
<1>23. Decided(ds) \subseteq Ids(ds) /\ arm[1] \notin Ids(ds)
  BY <1>2, <1>4, <1>5, <1>14, <1>10, <1>21, IdsType
<1>24. current_block' \in Ids(cs) /\ current_block' \notin Decided(cs)
  BY <1>1, <1>20, <1>23
<1>25. \A i \in DOMAIN frames : \A b \in Pending(frames[i]) : b \in 0 .. next_block - 1
  <2> TAKE i \in DOMAIN frames
  <2>1. frames[i] \in Frame
    BY LenProperties, ElementOfSeq DEF TypeOK
  <2>2. Pending(frames[i]) \subseteq Held(frames[i]) /\ Held(frames[i]) \subseteq Nat
    BY <2>1, HeldType
  <2>3. \A b \in Held(frames[i]) : b < next_block
    BY <1>1 DEF GraphShape, Reservations
  <2> QED BY <1>2, <2>2, <2>3
<1>26. \A b \in Ids(cs) : b \notin Pending(f)
  <2>1. arm[1] \notin Pending(f)
    BY <1>2, <1>3, <1>4, <1>8 DEF after
  <2>2. \A b \in Ids(ds) : b \notin Pending(f)
    BY <1>2, <1>5, <1>14, <1>8, <1>21 DEF after
  <2> QED BY <1>20, <2>1, <2>2
<1>27. \A i \in DOMAIN frames', b \in Ids(cs) : b \notin Pending(frames'[i])
  <2>1. \A b \in Ids(cs) : b \notin 0 .. next_block - 1
    BY <1>22, <1>2 DEF Ids
  <2> QED BY <1>16, <1>25, <1>26, <2>1
<1>28. Decided(cs) \subseteq Ids(cs)
  BY <1>20, IdsType
<1> DEFINE bs == IF Live THEN SetTerm(blocks, current_block, Goto(decision.entry)) ELSE blocks
<1>29. blocks' = bs \o cs
  <2>1. bs \in Seq(Block)
    BY <1>1, <1>17, DecideCurrent
  <2>2. blocks' = bs \o ds \o <<NewBlock(arm[1])>>
    BY <1>1
  <2> HIDE DEF bs
  <2>3. bs \o ds \o <<NewBlock(arm[1])>> = bs \o (ds \o <<NewBlock(arm[1])>>)
    BY <1>10, <1>17, <2>1
  <2> QED BY <2>2, <2>3 DEF cs
<1>30. \A i \in DOMAIN frames' : Pending(frames'[i]) \cap Decided(cs) = {}
  BY <1>27, <1>28
<1>31. \A i \in DOMAIN frames' : current_block' \notin Pending(frames'[i])
  BY <1>24, <1>27
<1> QED BY <1>1, <1>12, <1>16, <1>17, <1>20, <1>22, <1>24, <1>29, <1>30, <1>31, FlowForks

\* lower_loop: the flow goes on in the exit, whatever the body did.
LEMMA GraphEndLoop ==
  ASSUME TypeOK, TypeOK', StackShape, GraphShape, EndLoop
  PROVE  GraphShape' /\ Continues(blocks, blocks')
<1> DEFINE falls == Live /\ current_block \in Ids(blocks) /\ TermOf(blocks, current_block) = Unreachable
           bs == IF Live THEN SetTerm(blocks, current_block, Goto(Top.header)) ELSE blocks
<1>1. /\ outcome = "lowering" /\ outcome' = "lowering" /\ Top.kind = "loop"
      /\ next_block' = next_block /\ current_block' = Top.exit /\ frames' = Front(frames)
      /\ blocks' = Append(IF falls THEN SetTerm(blocks, current_block, Goto(Top.header)) ELSE blocks,
                          NewBlock(Top.exit))
  BY DEF EndLoop, ReturnToCaller
<1>2. /\ Top = frames[Len(frames)] /\ Len(frames) \in DOMAIN frames /\ Top \in LoopFrame
  BY <1>1, TopType, FrameFields
<1>3. Top.header \in BlockId /\ Top.exit \in BlockId
  BY <1>2 DEF LoopFrame
<1>4. blocks \in Seq(Block) /\ FirstsDecided(blocks)
  BY <1>1 DEF TypeOK, GraphShape
<1>5. falls <=> Live /\ current_block \in Ids(blocks)
  BY <1>1, <1>4, Lookup DEF GraphShape, Building
<1>6. blocks' = Append(bs, NewBlock(Top.exit))
  BY <1>1, <1>4, <1>5, SetMissing
<1>7. Goto(Top.header) \in Terminator
  BY <1>3, TermTypes
<1>8. /\ bs \in Seq(Block) /\ FirstsDecided(bs) /\ Ids(bs) = Ids(blocks) /\ Continues(blocks, bs)
      /\ Decided(bs) \subseteq Decided(blocks) \cup Current
  BY <1>1, <1>7, DecideCurrent
<1> HIDE DEF bs, falls
<1>9. /\ blocks' \in Seq(Block) /\ FirstsDecided(blocks') /\ Ids(blocks') = Ids(bs) \cup {Top.exit}
      /\ Decided(blocks') = Decided(bs) /\ Continues(bs, blocks')
  BY <1>3, <1>6, <1>8, ExtendOpen
<1>10. Continues(blocks, blocks')
  BY <1>4, <1>8, <1>9, ContinuesOn
<1>11. Inherits /\ \A i \in DOMAIN frames' : /\ i \in DOMAIN frames /\ i < Len(frames)
                                             /\ frames'[i] = frames[i]
  BY <1>1, InheritsPop
<1>12. Top.exit \in Held(Top) /\ Top.exit \in Pending(Top)
  BY <1>1 DEF Held, Pending
<1>13. \A i \in DOMAIN frames' : Top.exit \notin Pending(frames'[i])
  BY <1>1, <1>11, <1>12, TopOnly
<1>14. Top.exit \notin Decided(blocks) /\ Top.exit \notin Current /\ Top.exit < next_block
  BY <1>1, <1>2, <1>12 DEF GraphShape, StillOpen, Building, Current, Reservations
<1>15. \A b \in Ids(blocks') : b < next_block'
  BY <1>1, <1>8, <1>9, <1>14 DEF GraphShape, IdsBelow
<1>16. next_block <= next_block'
  BY <1>1 DEF TypeOK
<1>17. \A i \in DOMAIN frames' : Pending(frames'[i]) \cap Current = {}
  BY <1>1, <1>11, CurrentNotNeeded
<1>18. /\ current_block' \in Ids(blocks') /\ current_block' \notin Decided(blocks')
  BY <1>1, <1>8, <1>9, <1>14
<1>19. /\ Decided(blocks') \subseteq Decided(blocks) \cup Current
       /\ \A i \in DOMAIN frames' : current_block' \notin Pending(frames'[i])
  BY <1>1, <1>8, <1>9, <1>13
<1>20. GraphShape'
  BY <1>1, <1>9, <1>11, <1>15, <1>16, <1>17, <1>18, <1>19, Onward
<1> QED BY <1>10, <1>20

\* Linking the first arm of a branch, once its body is lowered (AfterArm).
LEMMA AfterArmGraph ==
  ASSUME TypeOK, StackShape, GraphShape, outcome = "lowering", Top.kind = "branch"
  PROVE  /\ AfterArm \in Seq(Block) /\ FirstsDecided(AfterArm) /\ Ids(AfterArm) = Ids(blocks)
         /\ Continues(blocks, AfterArm)
         /\ Decided(AfterArm) \subseteq Decided(blocks) \cup Current
                                        \cup (IF Top.next = 1 THEN {Top.arms[1].block} ELSE {})
         /\ TargetsOf(AfterArm) \subseteq TargetsOf(blocks) \cup {Top.after}
<1> DEFINE b == Top.arms[1].block  t == TermOf(blocks, b)  g == Goto(Top.after)
<1>1. blocks \in Seq(Block) /\ FirstsDecided(blocks)
  BY DEF TypeOK, GraphShape
<1>2. g \in Terminator /\ g.targets = {Top.after}
  BY BranchTop, TermTypes DEF BranchFrame, Goto
<1> HIDE DEF b, g
<1>3. CASE AfterArm = blocks
  BY <1>1, <1>3, ContinuesItself
<1>4. CASE Top.next = 1 /\ t = Unreachable /\ AfterArm = SetTerm(blocks, b, g)
  BY <1>1, <1>4, Lookup, <1>2, SetTermEffect, Decide DEF b
<1>5. CASE Live /\ AfterArm = SetTerm(blocks, current_block, g)
  BY <1>2, <1>5, DecideCurrent
<1> QED BY <1>3, <1>4, <1>5 DEF AfterArm, b, g

\* lower_branch: the next arm is under construction.
LEMMA GraphNextArm ==
  ASSUME TypeOK, TypeOK', StackShape, GraphShape, NextArm
  PROVE  GraphShape' /\ Continues(blocks, blocks')
<1> DEFINE n == Len(frames)
           v == IF Top.next = 1 THEN result = "value" ELSE Top.valued
           f == [[frames[n] EXCEPT !.next = @ + 1] EXCEPT !.valued = v]
           arm == Top.arms[Top.next + 1].block
<1>1. /\ outcome = "lowering" /\ outcome' = "lowering" /\ Top.kind = "branch"
      /\ Top.next < Len(Top.arms) /\ next_block' = next_block
      /\ current_block' = arm /\ blocks' = PushIfNew(AfterArm, arm)
  BY DEF NextArm
<1>2. /\ Top \in BranchFrame /\ Top = frames[n] /\ n \in DOMAIN frames /\ frames \in Seq(Frame)
      /\ Top.arms \in Seq(Arm) /\ Top.next \in 1 .. Len(Top.arms)
      /\ \A i \in 1 .. Len(Top.arms) : Top.arms[i].block \in BlockId
  BY <1>1, TopType, BranchTop DEF TypeOK
<1>3. /\ DOMAIN Top.arms = 1 .. Len(Top.arms) /\ Len(Top.arms) \in Nat
      /\ Top.next \in Nat /\ Top.next >= 1 /\ Top.next + 1 \in DOMAIN Top.arms
  BY <1>1, <1>2, LenProperties
<1>4. frames' = [frames EXCEPT ![n] = f]
  <2>1. frames' = [[frames EXCEPT ![n].next = @ + 1] EXCEPT ![n].valued = v]
    BY DEF NextArm, Valued
  <2> HIDE DEF v
  <2> QED BY <1>2, <2>1
<1>5. /\ f.kind = Top.kind /\ f.arms = Top.arms /\ f.after = Top.after
      /\ f.unreachable = Top.unreachable /\ f.next = Top.next + 1
  BY <1>2 DEF BranchFrame
<1> HIDE DEF f, v
<1>6. \A k \in DOMAIN Top.arms : Top.arms[k].block = Top.after + k
  BY <1>1, <1>2 DEF GraphShape, Reservations, ArmsNumbered
<1>7. Top.after \in Nat
  BY <1>2 DEF BranchFrame, BlockId
<1>8. Inherited(f, Top)
  <2>1. Held(f) = Held(Top) /\ ArmsNumbered(f)
    BY <1>1, <1>5, <1>6 DEF Held, ArmBlocks, ArmsNumbered
  <2>2. LaterArms(f) \subseteq LaterArms(Top)
    BY <1>3, <1>5 DEF LaterArms
  <2> QED BY <1>1, <1>5, <2>1, <2>2 DEF Inherited, Pending
<1>9. Inherits
  BY <1>1, <1>2, <1>4, <1>8, InheritsKept
<1>10. arm \in LaterArms(Top) /\ arm \in BlockId /\ arm # Top.after /\ arm # Top.arms[1].block
  <2>1. arm = Top.after + (Top.next + 1) /\ Top.arms[1].block = Top.after + 1
    BY <1>3, <1>6
  <2>2. Top.next + 1 > Top.next /\ arm \in LaterArms(Top)
    BY <1>3 DEF LaterArms
  <2> QED BY <1>2, <1>3, <1>7, <2>1, <2>2
<1>11. arm \notin Pending(f)
  <2>1. \A m \in DOMAIN Top.arms : m > f.next => Top.arms[m].block # arm
    BY <1>3, <1>5, <1>6, <1>7
  <2>2. arm \notin LaterArms(f)
    BY <1>5, <2>1 DEF LaterArms
  <2> QED BY <1>1, <1>5, <1>10, <2>2 DEF Pending
<1>12. /\ AfterArm \in Seq(Block) /\ FirstsDecided(AfterArm) /\ Ids(AfterArm) = Ids(blocks)
       /\ Continues(blocks, AfterArm)
       /\ Decided(AfterArm) \subseteq Decided(blocks) \cup Current \cup {Top.arms[1].block}
       /\ Top.next # 1 => Decided(AfterArm) \subseteq Decided(blocks) \cup Current
  BY <1>1, AfterArmGraph
<1>13. /\ blocks' \in Seq(Block) /\ FirstsDecided(blocks') /\ Ids(blocks') = Ids(blocks) \cup {arm}
       /\ Decided(blocks') = Decided(AfterArm) /\ Continues(AfterArm, blocks')
  BY <1>1, <1>10, <1>12, ExtendOpen
<1>14. Continues(blocks, blocks')
  BY <1>12, <1>13, ContinuesOn DEF TypeOK
<1>15. arm \in Pending(Top) /\ arm \in Held(Top) /\ Top.arms[1].block \in Held(Top)
  BY <1>3, <1>1, <1>10 DEF ArmBlocks, Pending, Held
<1>16. /\ DOMAIN frames' = DOMAIN frames /\ DOMAIN frames = 1 .. n /\ n \in Nat
       /\ \A i \in DOMAIN frames : frames'[i] = IF i = n THEN f ELSE frames[i]
  BY <1>2, <1>4, LenProperties
<1>17. \A i \in DOMAIN frames' : i # n => \A b \in Held(Top) : b \notin Pending(frames'[i])
  BY <1>1, <1>16, TopOnly
<1>18. \A i \in DOMAIN frames' : arm \notin Pending(frames'[i])
  BY <1>11, <1>15, <1>16, <1>17
<1>19. \A i \in DOMAIN frames' : Top.arms[1].block \notin Pending(frames'[i])
  <2>1. \A m \in DOMAIN Top.arms : m > f.next => Top.arms[m].block # Top.arms[1].block
    BY <1>3, <1>5, <1>6, <1>7
  <2>2. Top.arms[1].block \notin LaterArms(f)
    BY <1>5, <2>1 DEF LaterArms
  <2>5. Top.arms[1].block = Top.after + 1
    BY <1>3, <1>6
  <2>3. Top.arms[1].block # Top.after
    BY <1>7, <2>5
  <2>4. Top.arms[1].block \notin Pending(f)
    BY <1>1, <1>5, <2>2, <2>3 DEF Pending
  <2> QED BY <1>15, <1>16, <1>17, <2>4
<1> DEFINE D == Current \cup {Top.arms[1].block}
<1>20. \A i \in DOMAIN frames' : Pending(frames'[i]) \cap D = {}
  BY <1>1, <1>9, <1>19, CurrentNotNeeded
<1>21. Decided(blocks') \subseteq Decided(blocks) \cup D
  BY <1>12, <1>13
<1>22. arm \notin Decided(blocks) /\ arm \notin D /\ arm < next_block
  BY <1>1, <1>2, <1>15, <1>10 DEF GraphShape, StillOpen, Building, Current, Reservations
<1> HIDE DEF D, arm
<1>23. \A b \in Ids(blocks') : b < next_block'
  BY <1>1, <1>13, <1>22 DEF GraphShape, IdsBelow
<1>24. next_block <= next_block'
  BY <1>1 DEF TypeOK
<1>25. /\ current_block' \in Ids(blocks') /\ current_block' \notin Decided(blocks')
       /\ \A i \in DOMAIN frames' : current_block' \notin Pending(frames'[i])
  BY <1>1, <1>13, <1>18, <1>21, <1>22
<1>26. GraphShape'
  BY <1>1, <1>9, <1>13, <1>20, <1>21, <1>23, <1>24, <1>25, Onward
<1> QED BY <1>14, <1>26

Linked(bs, S, t) ==
  [i \in DOMAIN bs |-> IF bs[i].id \in S /\ IsFirst(bs, i)
                       THEN [bs[i] EXCEPT !.term = t] ELSE bs[i]]

\* Linking every arm that is still open (the end of lower_branch).
LEMMA LinkOpen ==
  ASSUME NEW bs \in Seq(Block), FirstsDecided(bs), NEW S, S \cap Decided(bs) = {},
         NEW t \in Terminator, NEW cs, cs = Linked(bs, S, t)
  PROVE  /\ cs \in Seq(Block) /\ FirstsDecided(cs) /\ Continues(bs, cs)
         /\ Ids(cs) \subseteq Ids(bs) /\ Ids(bs) \subseteq Ids(cs)
         /\ Decided(cs) \subseteq Decided(bs) \cup S
         /\ TargetsOf(cs) \subseteq TargetsOf(bs) \cup t.targets
<1>1. DOMAIN bs = 1 .. Len(bs) /\ Len(bs) \in Nat /\ \A i \in DOMAIN bs : bs[i] \in Block
  BY LenProperties, ElementOfSeq
<1>2. ASSUME NEW i \in DOMAIN bs
      PROVE  /\ cs[i] \in Block /\ cs[i].id = bs[i].id
             /\ cs[i].term = IF bs[i].id \in S /\ IsFirst(bs, i) THEN t ELSE bs[i].term
  BY <1>1 DEF Linked, Block
<1>3. DOMAIN cs = 1 .. Len(bs) /\ cs = [i \in 1 .. Len(bs) |-> cs[i]]
  BY <1>1 DEF Linked
<1>4. cs \in Seq(Block) /\ Len(cs) = Len(bs)
  BY <1>1, <1>2, <1>3
<1>5. \A i \in DOMAIN bs : IsFirst(cs, i) <=> IsFirst(bs, i)
  <2> TAKE i \in DOMAIN bs
  <2>1. \A j \in 1 .. (i - 1) : j \in DOMAIN bs
    BY <1>1
  <2> QED BY <1>2, <2>1 DEF IsFirst
<1>6. FirstsDecided(cs)
  BY <1>1, <1>2, <1>3, <1>5 DEF FirstsDecided
<1>7. Ids(cs) = Ids(bs)
  BY <1>1, <1>2, <1>3 DEF Ids
<1>8. Continues(bs, cs)
  BY <1>1, <1>2, <1>4 DEF Continues, Decided
<1>9. Decided(cs) \subseteq Decided(bs) \cup S
  BY <1>1, <1>2, <1>3 DEF Decided
<1>10. TargetsOf(cs) \subseteq TargetsOf(bs) \cup t.targets
  BY <1>1, <1>2, <1>3 DEF TargetsOf
<1> QED BY <1>4, <1>6, <1>7, <1>8, <1>9, <1>10

\* Every block that is linked is decided.
LEMMA LinkedSettles ==
  ASSUME NEW bs \in Seq(Block), NEW S, NEW t \in Terminator, t # Unreachable,
         NEW cs, cs = Linked(bs, S, t)
  PROVE  S \cap Ids(bs) \subseteq Decided(cs)
<1> SUFFICES ASSUME NEW b \in S, b \in Ids(bs) PROVE b \in Decided(cs)
  OBVIOUS
<1>1. PICK i \in DOMAIN bs : bs[i].id = b /\ IsFirst(bs, i)
  BY FirstExists
<1>2. bs[i] \in Block
  BY LenProperties, ElementOfSeq
<1>3. cs[i] = [bs[i] EXCEPT !.term = t] /\ DOMAIN cs = DOMAIN bs
  BY <1>1 DEF Linked
<1>4. cs[i].id = b /\ cs[i].term = t
  BY <1>1, <1>2, <1>3 DEF Block
<1> QED BY <1>1, <1>3, <1>4 DEF Decided

\* lower_branch: the arms are linked, and the flow goes on after the branch if
\* an arm or a guard lets it.  bs is the body before the last blocks are pushed.
LEMMA EndBranchBlocks ==
  ASSUME TypeOK, StackShape, GraphShape, EndBranch
  PROVE  \E bs \in Seq(Block) :
           /\ FirstsDecided(bs) /\ Ids(bs) = Ids(blocks) /\ Continues(blocks, bs)
           /\ Decided(bs) \subseteq Decided(blocks) \cup Current \cup ArmBlocks(Top)
           /\ ArmBlocks(Top) \cap Ids(blocks) \subseteq Decided(bs)
           /\ TargetsOf(bs) \subseteq TargetsOf(blocks) \cup {Top.after}
           /\ FirstsDecided(blocks') /\ Decided(blocks') = Decided(bs)
           /\ Continues(blocks, blocks') /\ TargetsOf(blocks') = TargetsOf(bs)
           /\ \/ /\ Ids(blocks') = Ids(blocks) \cup {Top.after, Top.unreachable}
                 /\ current_block' = Top.after
              \/ /\ Ids(blocks') = Ids(blocks) \cup {Top.unreachable} /\ ~Top.guarded
                 /\ current_block' = NoBlock
<1> DEFINE as == AfterArm
           open == {b \in {Top.arms[i].block : i \in DOMAIN Top.arms} : TermOf(as, b) = Unreachable}
           g == Goto(Top.after)
           linked == [i \in DOMAIN as |->
                        IF as[i].id \in open /\ IsFirst(as, i)
                        THEN [as[i] EXCEPT !.term = g] ELSE as[i]]
<1>1. outcome = "lowering" /\ Top.kind = "branch"
  BY DEF EndBranch
<1>2. /\ Top \in BranchFrame /\ Top.after \in BlockId /\ Top.unreachable \in BlockId
      /\ Top.arms \in Seq(Arm) /\ Top.next \in 1 .. Len(Top.arms)
  BY <1>1, BranchTop DEF BranchFrame
<1>3. 1 \in DOMAIN Top.arms
  BY <1>2, LenProperties
<1>4. blocks \in Seq(Block)
  BY DEF TypeOK
<1>5. /\ as \in Seq(Block) /\ FirstsDecided(as) /\ Ids(as) = Ids(blocks)
      /\ Continues(blocks, as)
      /\ Decided(as) \subseteq Decided(blocks) \cup Current \cup {Top.arms[1].block}
      /\ TargetsOf(as) \subseteq TargetsOf(blocks) \cup {Top.after}
  BY <1>1, AfterArmGraph
<1>6. Top.arms[1].block \in ArmBlocks(Top) /\ open \subseteq ArmBlocks(Top)
  BY <1>3 DEF ArmBlocks
<1>7. g \in Terminator /\ g.targets = {Top.after}
  BY <1>2, TermTypes DEF Goto
<1>8. \/ /\ blocks' = linked \o <<NewBlock(Top.after), NewBlock(Top.unreachable)>>
         /\ current_block' = Top.after
      \/ /\ open = {} /\ blocks' = Append(PushIfNew(as, Top.unreachable), NewBlock(Top.after))
         /\ current_block' = Top.after
      \/ /\ open = {} /\ ~Top.guarded /\ blocks' = PushIfNew(as, Top.unreachable)
         /\ current_block' = NoBlock
  BY DEF EndBranch
<1> HIDE DEF as, g
<1>9. open \cap Decided(as) = {}
  BY <1>5, Lookup
<1>16. ArmBlocks(Top) \subseteq Decided(as) \cup open
  BY <1>5, Lookup DEF ArmBlocks
<1> HIDE DEF open
<1>10. /\ linked \in Seq(Block) /\ FirstsDecided(linked) /\ Ids(linked) = Ids(as)
       /\ Continues(as, linked) /\ Decided(linked) \subseteq Decided(as) \cup open
       /\ TargetsOf(linked) \subseteq TargetsOf(as) \cup g.targets
  <2>1. linked = Linked(as, open, g)
    BY DEF Linked
  <2>2. as \in Seq(Block) /\ FirstsDecided(as) /\ open \cap Decided(as) = {} /\ g \in Terminator
    BY <1>5, <1>7, <1>9
  <2> HIDE DEF linked
  <2>3. linked \in Seq(Block)
    BY <2>1, <2>2, LinkOpen
  <2>4. Ids(linked) = Ids(as)
    <3>1. Ids(linked) \subseteq Ids(as)
      BY <2>1, <2>2, LinkOpen
    <3>2. Ids(as) \subseteq Ids(linked)
      BY <2>1, <2>2, LinkOpen
    <3> QED BY <3>1, <3>2
  <2>7. Continues(as, linked)
    BY <2>1, <2>2, LinkOpen
  <2>8. FirstsDecided(linked)
    BY <2>1, <2>2, LinkOpen
  <2>5. Decided(linked) \subseteq Decided(as) \cup open
    BY <2>1, <2>2, LinkOpen
  <2>6. TargetsOf(linked) \subseteq TargetsOf(as) \cup g.targets
    BY <2>1, <2>2, LinkOpen
  <2> QED BY <2>3, <2>4, <2>5, <2>6, <2>7, <2>8
<1>17. ArmBlocks(Top) \cap Ids(blocks) \subseteq Decided(linked)
  <2>1. linked = Linked(as, open, g) /\ g # Unreachable
    BY DEF Linked, g, Goto, Unreachable
  <2>2. linked \in Seq(Block)
    BY <1>10
  <2> HIDE DEF linked
  <2>3. open \cap Ids(as) \subseteq Decided(linked)
    BY <1>5, <1>7, <2>1, <2>2, LinkedSettles
  <2>4. Decided(as) \subseteq Decided(linked)
    BY <1>5, <1>10, <2>2, DecidedStays
  <2> QED BY <1>5, <1>16, <2>3, <2>4
<1> HIDE DEF linked
<1>11. CASE /\ blocks' = linked \o <<NewBlock(Top.after), NewBlock(Top.unreachable)>>
            /\ current_block' = Top.after
  <2> DEFINE c1 == Append(linked, NewBlock(Top.after))  c2 == Append(c1, NewBlock(Top.unreachable))
  <2>1. blocks' = c2
    BY <1>2, TermTypes, <1>10, <1>11
  <2>2. /\ c1 \in Seq(Block) /\ FirstsDecided(c1) /\ Ids(c1) = Ids(linked) \cup {Top.after}
        /\ Decided(c1) = Decided(linked) /\ Continues(linked, c1)
        /\ TargetsOf(c1) = TargetsOf(linked)
    BY <1>2, <1>10, ExtendOpen
  <2> HIDE DEF c1
  <2>3. /\ c2 \in Seq(Block) /\ FirstsDecided(c2) /\ Ids(c2) = Ids(c1) \cup {Top.unreachable}
        /\ Decided(c2) = Decided(c1) /\ Continues(c1, c2) /\ TargetsOf(c2) = TargetsOf(c1)
    BY <1>2, <2>2, ExtendOpen
  <2> HIDE DEF c2
  <2>4. Continues(blocks, linked)
    BY <1>4, <1>5, <1>10, ContinuesOn
  <2>5. Continues(linked, c2)
    BY <1>10, <2>2, <2>3, ContinuesOn
  <2>6. Continues(blocks, c2)
    BY <1>4, <1>10, <2>3, <2>4, <2>5, ContinuesOn
  <2>7. /\ Decided(linked) \subseteq Decided(blocks) \cup Current \cup ArmBlocks(Top)
        /\ TargetsOf(linked) \subseteq TargetsOf(blocks) \cup {Top.after}
        /\ Ids(linked) = Ids(blocks)
    BY <1>5, <1>6, <1>7, <1>10
  <2>8. Decided(blocks') = Decided(linked) /\ TargetsOf(blocks') = TargetsOf(linked)
        /\ Ids(blocks') = Ids(blocks) \cup {Top.after, Top.unreachable}
    BY <2>1, <2>2, <2>3, <2>7
  <2> USE <1>10
  <2> WITNESS linked \in Seq(Block)
  <2> QED BY <1>10, <1>11, <1>17, <2>1, <2>3, <2>4, <2>6, <2>7, <2>8
<1>12. ASSUME NEW c, c = PushIfNew(as, Top.unreachable)
       PROVE  /\ c \in Seq(Block) /\ FirstsDecided(c) /\ Ids(c) = Ids(as) \cup {Top.unreachable}
              /\ Decided(c) = Decided(as) /\ Continues(blocks, c) /\ TargetsOf(c) = TargetsOf(as)
  <2>1. /\ c \in Seq(Block) /\ FirstsDecided(c) /\ Ids(c) = Ids(as) \cup {Top.unreachable}
        /\ Decided(c) = Decided(as) /\ Continues(as, c) /\ TargetsOf(c) = TargetsOf(as)
    BY <1>2, <1>5, <1>12, ExtendOpen
  <2> QED BY <1>4, <1>5, <2>1, ContinuesOn
<1>13. Decided(as) \subseteq Decided(blocks) \cup Current \cup ArmBlocks(Top)
  BY <1>5, <1>6
<1>18. open = {} => ArmBlocks(Top) \cap Ids(blocks) \subseteq Decided(as)
  BY <1>16
<1>14. CASE /\ open = {} /\ blocks' = Append(PushIfNew(as, Top.unreachable), NewBlock(Top.after))
            /\ current_block' = Top.after
  <2> DEFINE c1 == PushIfNew(as, Top.unreachable)  c2 == Append(c1, NewBlock(Top.after))
  <2>1. /\ c1 \in Seq(Block) /\ FirstsDecided(c1) /\ Ids(c1) = Ids(as) \cup {Top.unreachable}
        /\ Decided(c1) = Decided(as) /\ Continues(blocks, c1) /\ TargetsOf(c1) = TargetsOf(as)
    BY <1>12
  <2>2. blocks' = c2
    BY <1>14
  <2> HIDE DEF c1
  <2>3. /\ c2 \in Seq(Block) /\ FirstsDecided(c2) /\ Ids(c2) = Ids(c1) \cup {Top.after}
        /\ Decided(c2) = Decided(c1) /\ Continues(c1, c2) /\ TargetsOf(c2) = TargetsOf(c1)
    BY <1>2, <2>1, ExtendOpen
  <2> HIDE DEF c2
  <2>4. Continues(blocks, c2)
    BY <1>4, <2>1, <2>3, ContinuesOn
  <2>5. Ids(blocks') = Ids(blocks) \cup {Top.after, Top.unreachable}
        /\ Decided(blocks') = Decided(as) /\ TargetsOf(blocks') = TargetsOf(as)
    BY <1>5, <2>1, <2>2, <2>3
  <2> USE <1>5
  <2> WITNESS as \in Seq(Block)
  <2> QED BY <1>5, <1>13, <1>14, <1>18, <2>2, <2>3, <2>4, <2>5
<1>15. CASE /\ open = {} /\ ~Top.guarded /\ blocks' = PushIfNew(as, Top.unreachable)
            /\ current_block' = NoBlock
  <2>1. /\ FirstsDecided(blocks') /\ Ids(blocks') = Ids(as) \cup {Top.unreachable}
        /\ Decided(blocks') = Decided(as) /\ Continues(blocks, blocks')
        /\ TargetsOf(blocks') = TargetsOf(as)
    BY <1>12, <1>15
  <2> USE <1>5
  <2> WITNESS as \in Seq(Block)
  <2> QED BY <1>5, <1>13, <1>15, <1>18, <2>1
<1> QED BY <1>8, <1>11, <1>14, <1>15

\* lower_branch: what follows the branch is under construction, if anything can.
LEMMA GraphEndBranch ==
  ASSUME TypeOK, TypeOK', StackShape, GraphShape, EndBranch
  PROVE  GraphShape' /\ Continues(blocks, blocks')
<1> DEFINE D == Current \cup ArmBlocks(Top)
<1>1. /\ outcome = "lowering" /\ outcome' = "lowering" /\ Top.kind = "branch"
      /\ next_block' = next_block /\ frames' = Front(frames)
  BY DEF EndBranch, ReturnToCaller
<1>2. /\ FirstsDecided(blocks') /\ Continues(blocks, blocks')
      /\ Decided(blocks') \subseteq Decided(blocks) \cup D
      /\ Ids(blocks') \subseteq Ids(blocks) \cup {Top.after, Top.unreachable}
      /\ Live' => current_block' = Top.after /\ Top.after \in Ids(blocks')
  <2>1. PICK bs \in Seq(Block) :
           /\ Decided(bs) \subseteq Decided(blocks) \cup Current \cup ArmBlocks(Top)
           /\ FirstsDecided(blocks') /\ Decided(blocks') = Decided(bs)
           /\ Continues(blocks, blocks')
           /\ \/ /\ Ids(blocks') = Ids(blocks) \cup {Top.after, Top.unreachable}
                 /\ current_block' = Top.after
              \/ /\ Ids(blocks') = Ids(blocks) \cup {Top.unreachable}
                 /\ current_block' = NoBlock
    BY EndBranchBlocks
  <2> QED BY <2>1 DEF Live
<1>3. /\ Top = frames[Len(frames)] /\ Len(frames) \in DOMAIN frames /\ Top \in BranchFrame
  BY <1>1, TopType, FrameFields
<1>4. Top.after \in Nat
  BY <1>3 DEF BranchFrame, BlockId
<1>5. Inherits /\ \A i \in DOMAIN frames' : /\ i \in DOMAIN frames /\ i < Len(frames)
                                            /\ frames'[i] = frames[i]
  BY <1>1, InheritsPop
<1>6. /\ Top.after \in Held(Top) /\ Top.unreachable \in Held(Top) /\ ArmBlocks(Top) \subseteq Held(Top)
      /\ Top.after \in Pending(Top)
  BY <1>1 DEF Held, Pending
<1>7. \A i \in DOMAIN frames' : \A b \in Held(Top) : b \notin Pending(frames'[i])
  BY <1>1, <1>5, TopOnly
<1>8. \A b \in {Top.after, Top.unreachable} : b < next_block
  BY <1>1, <1>3, <1>6 DEF GraphShape, Reservations
<1>9. Top.after \notin Decided(blocks) /\ Top.after \notin D
  <2>1. Top.after \notin Decided(blocks)
    BY <1>1, <1>3, <1>6 DEF GraphShape, StillOpen
  <2>2. Top.after \notin Current
    BY <1>1, <1>3, <1>6 DEF GraphShape, Building, Current
  <2>3. \A k \in DOMAIN Top.arms : Top.arms[k].block = Top.after + k /\ k \in Nat /\ k >= 1
    BY <1>1, <1>3, LenProperties DEF GraphShape, Reservations, ArmsNumbered, BranchFrame
  <2>4. Top.after \notin ArmBlocks(Top)
    BY <1>4, <2>3 DEF ArmBlocks
  <2> QED BY <2>1, <2>2, <2>4
<1>10. \A i \in DOMAIN frames' : Pending(frames'[i]) \cap D = {}
  BY <1>1, <1>5, <1>6, <1>7, CurrentNotNeeded
<1> HIDE DEF D
<1>11. \A b \in Ids(blocks') : b < next_block'
  BY <1>1, <1>2, <1>8 DEF GraphShape, IdsBelow
<1>12. next_block <= next_block'
  BY <1>1 DEF TypeOK
<1>13. Live' => /\ current_block' \in Ids(blocks') /\ current_block' \notin Decided(blocks')
                /\ \A i \in DOMAIN frames' : current_block' \notin Pending(frames'[i])
  BY <1>2, <1>6, <1>7, <1>9
<1>14. GraphShape'
  BY <1>1, <1>2, <1>5, <1>10, <1>11, <1>12, <1>13, Onward
<1> QED BY <1>2, <1>14

\* lower_func: the last block returns, unless its terminator is decided.
LEMMA GraphEnd ==
  ASSUME TypeOK, StackShape, GraphShape, EndFunc
  PROVE  /\ GraphShape' /\ Continues(blocks, blocks')
         /\ Ids(blocks') = Ids(blocks) /\ TargetsOf(blocks') \subseteq TargetsOf(blocks)
<1> DEFINE valued == IF result \in {"void", "value"} /\ Live
                     THEN SetTerm(blocks, current_block, Return) ELSE blocks
           open   == Live /\ current_block \in Ids(blocks)
                     /\ TermOf(valued, current_block) = Unreachable
<1>1. outcome = "lowering" /\ outcome' = "lowered"
  BY DEF EndFunc
<1>2. blocks' = IF open /\ Top.void THEN SetTerm(valued, current_block, Return) ELSE valued
  BY DEF EndFunc
<1>3. Return \in Terminator /\ Return.targets = {}
  BY TermTypes DEF Return
<1>4. blocks \in Seq(Block)
  BY DEF TypeOK
<1>5. /\ valued \in Seq(Block) /\ FirstsDecided(valued) /\ Ids(valued) = Ids(blocks)
      /\ Continues(blocks, valued) /\ TargetsOf(valued) \subseteq TargetsOf(blocks)
  BY <1>1, <1>4, ContinuesItself, <1>3, DecideCurrent DEF GraphShape
<1> HIDE DEF valued
<1>6. CASE blocks' = valued
  BY <1>1, <1>5, <1>6 DEF GraphShape
<1>7. CASE open /\ blocks' = SetTerm(valued, current_block, Return)
  BY <1>5, <1>7, Lookup, <1>3, SetTermEffect, Decide, <1>4, ContinuesOn, <1>1 DEF GraphShape
<1> QED BY <1>2, <1>6, <1>7

-----------------------------------------------------------------------------
(* The graph: one step per action.                                         *)

\* A declaration or a defer changes the frame of a scope, which holds no ids.
LEMMA InheritsScope ==
  ASSUME TypeOK, StackShape, GraphShape, outcome = "lowering", Top.kind \in {"func", "block"},
         NEW f, f.kind = Top.kind, frames' = [frames EXCEPT ![Len(frames)] = f]
  PROVE  Inherits
<1>1. /\ Len(frames) \in DOMAIN frames /\ Top = frames[Len(frames)]
  BY TopType
<1>2. Inherited(f, Top)
  BY DEF Inherited, Held, Pending, ArmsNumbered
<1> QED BY <1>1, <1>2, InheritsKept

\* Steps in which no frame comes or goes and the graph stays as it is.
LEMMA CalmStep ==
  ASSUME TypeOK, TypeOK', StackShape, GraphShape, outcome = "lowering", outcome' = "lowering",
         UNCHANGED <<blocks, current_block>>, next_block <= next_block', Inherits
  PROVE  GraphShape' /\ Continues(blocks, blocks')
BY Calm, ContinuesItself DEF TypeOK

\* Every step keeps the reservations, and within a function the body grows.
LEMMA GraphStep ==
  ASSUME TypeOK, TypeOK', StackShape, GraphShape, [Next]_vars
  PROVE  GraphShape' /\ (funcs' = funcs => Continues(blocks, blocks'))
<1>0. next_block \in Nat /\ next_block <= next_block /\ next_block <= next_block + 3
      /\ blocks \in Seq(Block)
  BY DEF TypeOK
<1>1. ASSUME NEW params \in 0 .. MaxParams, NEW void \in BOOLEAN, NEW exprBody \in BOOLEAN,
             BeginFunc(params, void, exprBody)
      PROVE  GraphShape' /\ funcs' # funcs
  <2>1. GraphShape'
    BY <1>1, GraphBegin
  <2>2. funcs' = funcs + 1 /\ funcs \in Nat
    BY <1>1 DEF BeginFunc, TypeOK
  <2> QED BY <2>1, <2>2
<1>2. ASSUME EndFunc PROVE GraphShape' /\ Continues(blocks, blocks')
  BY <1>2, GraphEnd
<1>3. ASSUME Defer PROVE GraphShape' /\ Continues(blocks, blocks')
  <2> DEFINE f == [Top EXCEPT !.defers = Append(Top.defers, next_defer),
                               !.late = IF Top.owned = <<>> THEN "no" ELSE "yes"]
  <2>1. /\ outcome = "lowering" /\ outcome' = "lowering" /\ UNCHANGED <<blocks, current_block>>
        /\ next_block' = next_block /\ Top.kind \in {"func", "block"}
        /\ frames' = [frames EXCEPT ![Len(frames)] = f]
    BY <1>3 DEF Defer, At, cfg
  <2>2. Top \in Frame /\ Top = frames[Len(frames)]
    BY <2>1, TopType
  <2>3. f.kind = Top.kind
    BY <1>3, <2>1, <2>2, DeferType DEF SameShape
  <2> HIDE DEF f
  <2> QED BY <1>0, <2>1, <2>3, InheritsScope, CalmStep
<1>4. ASSUME NEW x \in Nat, Declare(x), outcome = "lowering", outcome' = "lowering",
             UNCHANGED <<blocks, current_block, next_block>>, Top.kind \in {"func", "block"}
      PROVE  GraphShape' /\ Continues(blocks, blocks')
  <2> DEFINE f == [frames[Len(frames)] EXCEPT !.owned = Append(@, x)]
  <2>1. frames' = [frames EXCEPT ![Len(frames)] = f]
    BY <1>4 DEF Declare
  <2>2. Top \in Frame /\ Top = frames[Len(frames)]
    BY <1>4, TopType
  <2>3. f.kind = Top.kind
    BY <1>4, <2>2, FrameOwns DEF SameShape
  <2> HIDE DEF f
  <2> QED BY <1>0, <1>4, <2>1, <2>3, InheritsScope, CalmStep
<1>5. ASSUME LetOwned PROVE GraphShape' /\ Continues(blocks, blocks')
  BY <1>4, <1>5 DEF LetOwned, At, TypeOK
<1>6. ASSUME NEW src \in Holders, LetMoved(src) PROVE GraphShape' /\ Continues(blocks, blocks')
  BY <1>4, <1>6 DEF LetMoved, At, TypeOK
<1>7. ASSUME NEW tail \in BOOLEAN, frames' = Marked(tail) \/ frames' = frames,
             outcome = "lowering", outcome' = "lowering", UNCHANGED <<blocks, current_block>>,
             next_block' = next_block \/ next_block' = next_block + 3
      PROVE  GraphShape' /\ Continues(blocks, blocks')
  <2>1. Inherits
    BY <1>7, InheritsMarked DEF Inherits, Inherited, GraphShape, Reservations
  <2> QED BY <1>0, <1>7, <2>1, CalmStep
<1>8. ASSUME NEW src \in Holders, PassOwned(src) PROVE GraphShape' /\ Continues(blocks, blocks')
  BY <1>7, <1>8 DEF PassOwned, At
<1>9. ASSUME NEW v \in {"void", "value"}, Simple(v) PROVE GraphShape' /\ Continues(blocks, blocks')
  BY <1>7, <1>9 DEF Simple, At, cfg, Complete
<1>10. ASSUME NEW tail \in BOOLEAN, RetInDeadCode(tail)
       PROVE  GraphShape' /\ Continues(blocks, blocks')
  BY <1>7, <1>10 DEF RetInDeadCode, At, cfg, Complete
<1>11. ASSUME NEW tail \in BOOLEAN, NEW label \in Labels \cup {NoLabel}, JumpNowhere(tail, label)
       PROVE  GraphShape' /\ Continues(blocks, blocks')
  BY <1>7, <1>11 DEF JumpNowhere, At, cfg, Complete
<1>12. ASSUME NEW tail \in BOOLEAN, LoopInDeadCode(tail)
       PROVE  GraphShape' /\ Continues(blocks, blocks')
  BY <1>7, <1>12 DEF LoopInDeadCode, At, Complete
<1>13. ASSUME LeaveBlock \/ AbandonBlock PROVE GraphShape' /\ Continues(blocks, blocks')
  BY <1>13, InheritsPop, <1>0, CalmStep DEF LeaveBlock, AbandonBlock, cfg, ReturnToCaller
<1>14. ASSUME NEW tail \in BOOLEAN, EnterBlock(tail)
       PROVE  GraphShape' /\ Continues(blocks, blocks')
  <2> DEFINE f == [kind |-> "block", tail |-> FALSE, must |-> Expected(tail),
                   depth |-> Len(scope_stack), loops |-> Len(loop_stack),
                   owned |-> <<>>, defers |-> <<>>, late |-> "no"]
  <2>1. /\ outcome = "lowering" /\ outcome' = "lowering"
        /\ UNCHANGED <<blocks, current_block, next_block>> /\ frames' = Append(Marked(tail), f)
    BY <1>14 DEF EnterBlock, At, cfg
  <2>2. f.kind = "block"
    OBVIOUS
  <2> HIDE DEF f
  <2>3. Held(f) = {} /\ ArmsNumbered(f)
    BY <2>2 DEF Held, ArmsNumbered
  <2>4. Inherits
    BY <2>1, <2>3, InheritsPush
  <2> QED BY <1>0, <2>1, <2>4, CalmStep
<1>15. ASSUME EndLoop PROVE GraphShape' /\ Continues(blocks, blocks')
  BY <1>15, GraphEndLoop
<1>16. ASSUME NextArm PROVE GraphShape' /\ Continues(blocks, blocks')
  BY <1>16, GraphNextArm
<1>17. ASSUME EndBranch PROVE GraphShape' /\ Continues(blocks, blocks')
  BY <1>17, GraphEndBranch
<1>18. ASSUME NEW tail \in BOOLEAN, NEW label \in Labels \cup {NoLabel}, NEW cond \in BOOLEAN,
              BeginLoop(tail, label, cond)
       PROVE  GraphShape' /\ Continues(blocks, blocks')
  BY <1>18, GraphLoop
<1>19. ASSUME NEW tail \in BOOLEAN, NEW size \in 1 .. MaxArms,
              NEW pats \in [1 .. size -> Pattern], NEW ends \in [1 .. size -> {"yes", "no"}],
              BeginBranch(tail, pats, ends)
       PROVE  GraphShape' /\ Continues(blocks, blocks')
  BY LoweringAssumption, <1>19, GraphBranch
<1>20. ASSUME NEW tail \in BOOLEAN, BranchInDeadCode(tail)
       PROVE  GraphShape' /\ Continues(blocks, blocks')
  BY <1>0, <1>20, ContinuesItself DEF BranchInDeadCode, GraphShape, cfg
<1>21. ASSUME NEW tail \in BOOLEAN, Ret(tail) PROVE GraphShape' /\ Continues(blocks, blocks')
  BY <1>21, InheritsMarked, TermTypes, FlowEnds DEF Ret, At, Complete
<1>22. ASSUME NEW tail \in BOOLEAN, NEW skip \in BOOLEAN, NEW label \in Labels \cup {NoLabel},
              Jump(tail, skip, label)
       PROVE  GraphShape' /\ Continues(blocks, blocks')
  <2> DEFINE target == TargetOf(label)  b == IF skip THEN target.header ELSE target.exit
  <2>1. /\ outcome = "lowering" /\ outcome' = "lowering" /\ next_block' = next_block
        /\ current_block' = NoBlock /\ frames' = Marked(tail)
        /\ blocks' = IF Live THEN SetTerm(blocks, current_block, Goto(b)) ELSE blocks
        /\ target # NoTarget
    BY <1>22 DEF Jump, At, Complete
  <2>2. target \in Target
    BY <2>1, LastType DEF TargetOf, TypeOK
  <2>3. b \in BlockId
    BY <2>2 DEF Target
  <2> HIDE DEF b
  <2> QED BY <2>1, <2>3, InheritsMarked, TermTypes, FlowEnds
<1>23. ASSUME NEW tail \in BOOLEAN, Propagate(tail) PROVE GraphShape' /\ Continues(blocks, blocks')
  BY <1>23, GraphPropagate
<1>24. ASSUME UNCHANGED vars PROVE GraphShape' /\ Continues(blocks, blocks')
  BY <1>24, <1>0, ContinuesItself DEF vars, cfg, GraphShape, IdsBelow, Reservations, Apart, StillOpen,
     Building, Live
<1> QED
  BY <1>1, <1>2, <1>3, <1>5, <1>6, <1>8, <1>9, <1>10, <1>11, <1>12, <1>13, <1>14, <1>15, <1>16,
     <1>17, <1>18, <1>19, <1>20, <1>21, <1>22, <1>23, <1>24 DEF Next

\* Before the first function there is no graph.
LEMMA GraphInit == Init => GraphShape
BY DEF Init, GraphShape

-----------------------------------------------------------------------------
(* The theorems.                                                           *)

\* The inductive invariant: the ids of blocks that are still to be written are
\* reserved by the loop or branch under way that took them.
THEOREM IdsAreReserved == Spec => []GraphShape
<1>1. Init => GraphShape
  BY GraphInit
<1>2. TypeOK /\ TypeOK' /\ StackShape /\ GraphShape /\ [Next]_vars => GraphShape'
  BY GraphStep
<1> QED BY <1>1, <1>2, StacksNested, PTL DEF Spec

\* The block under construction exists and is open, so that no construct
\* overwrites the terminator another one chose (set_terminator), unless `!` is
\* applied to a union that is no error union (lower_propagate).
THEOREM CurrentIsOpen ==
  ASSUME "unionPropagate" \notin Features
  PROVE  Spec => []CurrentBlockOpen
<1>1. TypeOK /\ GraphShape => CurrentBlockOpen
  BY Lookup DEF CurrentBlockOpen, GraphShape, Building, TypeOK
<1> QED BY <1>1, IdsAreReserved, StacksNested, PTL

-----------------------------------------------------------------------------
(* A block whose terminator is decided is final.                           *)

\* current_block_mut: statements go into the block under construction only.
LEMMA EmitKeeps ==
  ASSUME NEW items, Emit(items), NEW b \in DOMAIN code, b # current_block
  PROVE  code'[b] = code[b]
BY DEF Emit

\* No step of a function adds a statement to a block that is decided.
LEMMA CodeStep ==
  ASSUME TypeOK, GraphShape, [Next]_vars, funcs' = funcs, NEW b \in Decided(blocks), b \in DOMAIN code
  PROVE  code'[b] = code[b]
<1>1. outcome = "lowering" => b # current_block
  <2>1. b \in Nat
    <3>1. PICK i \in DOMAIN blocks : blocks[i].id = b
      BY DEF Decided
    <3>2. blocks[i] \in Block
      BY ElementOfSeq, LenProperties DEF TypeOK
    <3> QED BY <3>1, <3>2 DEF Block, BlockId
  <2>2. Live /\ outcome = "lowering" => b # current_block
    BY DEF GraphShape, Building
  <2>3. ~Live => b # current_block
    BY <2>1 DEF Live, NoBlock
  <2> QED BY <2>2, <2>3
<1>2. ASSUME NEW params \in 0 .. MaxParams, NEW void \in BOOLEAN, NEW exprBody \in BOOLEAN,
             BeginFunc(params, void, exprBody)
      PROVE  FALSE
  BY <1>2 DEF BeginFunc, TypeOK
<1>3. CASE outcome = "lowering" /\ \E items : Emit(items)
  BY <1>1, <1>3, EmitKeeps
<1>4. EndFunc \/ LetOwned \/ LeaveBlock => outcome = "lowering" /\ \E items : Emit(items)
  BY DEF EndFunc, LetOwned, LeaveBlock, At
<1>5. \A src \in Holders : LetMoved(src) \/ PassOwned(src) =>
        outcome = "lowering" /\ \E items : Emit(items)
  BY DEF LetMoved, PassOwned, At
<1>6. \A tail \in BOOLEAN : Ret(tail) => outcome = "lowering" /\ \E items : Emit(items)
  BY DEF Ret, At
<1>7. \A tail \in BOOLEAN, skip \in BOOLEAN, label \in Labels \cup {NoLabel} :
        Jump(tail, skip, label) => outcome = "lowering" /\ \E items : Emit(items)
  BY DEF Jump, At
<1>8. Defer \/ AbandonBlock \/ EndLoop \/ NextArm \/ EndBranch \/ UNCHANGED vars => code' = code
  BY DEF Defer, AbandonBlock, EndLoop, NextArm, EndBranch, vars, cfg
<1>9. \A v \in {"void", "value"} : Simple(v) => code' = code
  BY DEF Simple, cfg
<1>10. \A tail \in BOOLEAN :
         EnterBlock(tail) \/ LoopInDeadCode(tail) \/ BranchInDeadCode(tail) \/ RetInDeadCode(tail)
           \/ Propagate(tail) => code' = code
  BY DEF EnterBlock, LoopInDeadCode, BranchInDeadCode, RetInDeadCode, Propagate, cfg
<1>11. \A tail \in BOOLEAN, label \in Labels \cup {NoLabel} :
         /\ JumpNowhere(tail, label) => code' = code
         /\ \A cond \in BOOLEAN : BeginLoop(tail, label, cond) => code' = code
  BY DEF JumpNowhere, BeginLoop, cfg
<1>12. \A tail \in BOOLEAN, n \in 1 .. MaxArms :
         \A pats \in [1 .. n -> Pattern], ends \in [1 .. n -> {"yes", "no"}] :
           BeginBranch(tail, pats, ends) => code' = code
  <2>1. ASSUME NEW tail, NEW pats, NEW ends, BeginBranch(tail, pats, ends) PROVE code' = code
    BY <2>1 DEF BeginBranch
  <2> QED BY <2>1
<1> QED
  BY <1>2, <1>3, <1>4, <1>5, <1>6, <1>7, <1>8, <1>9, <1>10, <1>11, <1>12 DEF Next

\* What has been decided of a block while its function is lowered stays: no
\* later construct redirects it, adds statements to it or removes it.
THEOREM DecidedIsFinal == Spec => DecidedBlocksAreFinal
<1>1. ASSUME TypeOK, TypeOK', StackShape, GraphShape, [Next]_vars, funcs' = funcs
      PROVE  /\ Len(blocks) <= Len(blocks')
             /\ \A i \in DOMAIN blocks :
                  /\ blocks'[i].id = blocks[i].id
                  /\ blocks[i].term # Unreachable =>
                       /\ blocks'[i].term = blocks[i].term
                       /\ blocks[i].id \in DOMAIN code =>
                            code'[blocks[i].id] = code[blocks[i].id]
  BY <1>1, GraphStep, CodeStep DEF Decided, Continues
<1> QED BY <1>1, StacksNested, IdsAreReserved, PTL DEF Spec, DecidedBlocksAreFinal

-----------------------------------------------------------------------------
(* The targets of jumps.  A terminator may name a block before the block   *)
(* is pushed; then the loop or branch that took the id pushes it when it   *)
(* returns.  lower_branch does so for the block after it unless no arm is  *)
(* open and no arm is a condition, which takes a literal, variant or       *)
(* wildcard pattern in every arm: hence the "match" of the theorem.        *)

\* The blocks a loop or branch still pushes.
Promised(f) ==
  IF f.kind = "branch" THEN Pending(f) \cup {f.unreachable} ELSE Pending(f)

\* What a frame needs to keep its promises: a loop may be jumped back to, a
\* branch ends with a block after it.
Kept(f, bs) ==
  /\ f.kind = "loop" => f.header \in Ids(bs)
  /\ f.kind = "branch" => f.guarded

TargetShape ==
  /\ outcome = "lowering" =>
       /\ \A b \in TargetsOf(blocks) :
            b \in Ids(blocks) \/ \E k \in DOMAIN frames : b \in Promised(frames[k])
       /\ \A k \in DOMAIN frames : Kept(frames[k], blocks)
  /\ outcome = "lowered" => TargetsOf(blocks) \subseteq Ids(blocks)

\* The frame f has replaced g, with the same promises to keep.
SameDuty(f, g) ==
  /\ f.kind = g.kind /\ Promised(f) = Promised(g)
  /\ g.kind = "loop" => f.header = g.header
  /\ g.kind = "branch" => f.guarded = g.guarded

\* Promises are kept or passed on, and new jumps go to blocks or to promises.
LEMMA TargetsNext ==
  ASSUME TargetShape, outcome = "lowering", outcome' = "lowering",
         Ids(blocks) \subseteq Ids(blocks'),
         \A k \in DOMAIN frames : \A b \in Promised(frames[k]) :
           b \in Ids(blocks') \/ (k \in DOMAIN frames' /\ b \in Promised(frames'[k])),
         \A k \in DOMAIN frames' :
           \/ k \in DOMAIN frames /\ SameDuty(frames'[k], frames[k])
           \/ Kept(frames'[k], blocks'),
         \A b \in TargetsOf(blocks') :
           \/ b \in TargetsOf(blocks) \cup Ids(blocks')
           \/ \E k \in DOMAIN frames' : b \in Promised(frames'[k])
  PROVE  TargetShape'
<1>1. ASSUME NEW b \in TargetsOf(blocks')
      PROVE  b \in Ids(blocks') \/ \E k \in DOMAIN frames' : b \in Promised(frames'[k])
  BY DEF TargetShape
<1>2. ASSUME NEW k \in DOMAIN frames' PROVE Kept(frames'[k], blocks')
  BY DEF TargetShape, Kept, SameDuty
<1> QED BY <1>1, <1>2 DEF TargetShape

\* Frames that are marked, or grow, keep their promises.
LEMMA DutyMarked ==
  ASSUME TypeOK, StackShape, GraphShape, outcome = "lowering", NEW tail \in BOOLEAN
  PROVE  \A k \in DOMAIN frames : SameDuty(Marked(tail)[k], frames[k])
<1> DEFINE n == Len(frames)  f == [frames[n] EXCEPT !.tail = tail]
<1>1. frames \in Seq(Frame) /\ frames[n] \in Frame /\ n \in DOMAIN frames
  BY TopType DEF TypeOK
<1>2. /\ f.kind = frames[n].kind
      /\ frames[n].kind = "loop" => f.header = frames[n].header
      /\ frames[n].kind = "branch" =>
           f.guarded = frames[n].guarded /\ f.unreachable = frames[n].unreachable
  <2>1. CASE frames[n].kind = "branch"
    BY <1>1, <2>1, FrameFields DEF BranchFrame
  <2>2. CASE frames[n].kind # "branch"
    BY <1>1, <2>2, FrameTail DEF SameShape
  <2> QED BY <2>1, <2>2
<1> HIDE DEF f
<1>3. \A k \in DOMAIN frames : Marked(tail)[k] = IF k = n THEN f ELSE frames[k]
  BY <1>1 DEF Marked, f
<1>4. \A k \in DOMAIN frames : Pending(Marked(tail)[k]) = Pending(frames[k])
  BY MarkedInherits
<1>5. Pending(f) = Pending(frames[n])
  BY <1>1, <1>3, <1>4
<1>6. SameDuty(f, frames[n])
  BY <1>2, <1>5 DEF SameDuty, Promised
<1>7. \A k \in DOMAIN frames : SameDuty(frames[k], frames[k])
  BY DEF SameDuty
<1> QED BY <1>3, <1>6, <1>7

\* A step that opens no frame, closes none and moves no branch on.
LEMMA TargetsSteady ==
  ASSUME TargetShape, outcome = "lowering", outcome' = "lowering",
         DOMAIN frames' = DOMAIN frames,
         \A k \in DOMAIN frames : SameDuty(frames'[k], frames[k]),
         Ids(blocks) \subseteq Ids(blocks'),
         \A b \in TargetsOf(blocks') :
           \/ b \in TargetsOf(blocks) \cup Ids(blocks')
           \/ \E k \in DOMAIN frames : b \in Promised(frames[k])
  PROVE  TargetShape'
<1>1. \A k \in DOMAIN frames : Promised(frames'[k]) = Promised(frames[k])
  BY DEF SameDuty
<1>2. \A b \in TargetsOf(blocks') :
        \/ b \in TargetsOf(blocks) \cup Ids(blocks')
        \/ \E k \in DOMAIN frames' : b \in Promised(frames'[k])
  BY <1>1
<1> QED BY <1>1, <1>2, TargetsNext

\* A step that leaves the graph alone, and the frames but for their positions.
LEMMA TargetsCalm ==
  ASSUME TypeOK, StackShape, GraphShape, TargetShape, outcome = "lowering", outcome' = "lowering",
         blocks' = blocks, NEW tail \in BOOLEAN, frames' = Marked(tail) \/ frames' = frames
  PROVE  TargetShape'
<1>1. /\ DOMAIN frames' = DOMAIN frames
      /\ \A k \in DOMAIN frames : SameDuty(frames'[k], frames[k])
  BY DutyMarked, MarkedInherits DEF SameDuty
<1> QED BY <1>1, TargetsSteady

\* A declaration or a defer.
LEMMA TargetsScope ==
  ASSUME TypeOK, StackShape, TargetShape, outcome = "lowering", outcome' = "lowering",
         blocks' = blocks, Top.kind \in {"func", "block"},
         NEW f, f.kind = Top.kind, frames' = [frames EXCEPT ![Len(frames)] = f]
  PROVE  TargetShape'
<1>1. Len(frames) \in DOMAIN frames /\ Top = frames[Len(frames)]
  BY TopType
<1>2. \A k \in DOMAIN frames : frames'[k] = IF k = Len(frames) THEN f ELSE frames[k]
  BY <1>1
<1>3. SameDuty(f, Top)
  BY DEF SameDuty, Promised, Pending
<1>4. \A k \in DOMAIN frames : SameDuty(frames[k], frames[k])
  BY DEF SameDuty
<1>5. \A k \in DOMAIN frames : SameDuty(frames'[k], frames[k])
  BY <1>1, <1>2, <1>3, <1>4
<1>6. DOMAIN frames' = DOMAIN frames
  OBVIOUS
<1> QED BY <1>5, <1>6, TargetsSteady

\* A construct that opens a frame may jump to what its frame promises.
LEMMA TargetsPush ==
  ASSUME TypeOK, StackShape, GraphShape, TargetShape, outcome = "lowering", outcome' = "lowering",
         NEW tail \in BOOLEAN, NEW f, frames' = Append(Marked(tail), f), Kept(f, blocks'),
         Ids(blocks) \subseteq Ids(blocks'),
         TargetsOf(blocks') \subseteq TargetsOf(blocks) \cup Ids(blocks') \cup Promised(f)
  PROVE  TargetShape'
<1> DEFINE n == Len(frames)
<1>1. /\ n \in Nat /\ DOMAIN frames = 1 .. n
      /\ Marked(tail) \in Seq(Frame) /\ Len(Marked(tail)) = n
  BY MarkedInherits, LenProperties DEF TypeOK
<1>2. /\ DOMAIN frames' = 1 .. n + 1 /\ frames'[n + 1] = f
      /\ \A k \in 1 .. n : frames'[k] = Marked(tail)[k]
  BY <1>1
<1>3. \A k \in DOMAIN frames' : k \in DOMAIN frames \/ k = n + 1
  BY <1>1, <1>2
<1>4. n + 1 \in DOMAIN frames' /\ \A k \in DOMAIN frames : k \in DOMAIN frames'
  BY <1>1, <1>2
<1>5. \A k \in DOMAIN frames : SameDuty(frames'[k], frames[k])
  BY <1>1, <1>2, DutyMarked
<1>6. \A k \in DOMAIN frames : Promised(frames'[k]) = Promised(frames[k])
  BY <1>5 DEF SameDuty
<1>7. \A b \in TargetsOf(blocks') :
        \/ b \in TargetsOf(blocks) \cup Ids(blocks')
        \/ \E k \in DOMAIN frames' : b \in Promised(frames'[k])
  BY <1>2, <1>4
<1>8. \A k \in DOMAIN frames' :
        \/ k \in DOMAIN frames /\ SameDuty(frames'[k], frames[k])
        \/ Kept(frames'[k], blocks')
  BY <1>2, <1>3, <1>5
<1>9. \A k \in DOMAIN frames : \A b \in Promised(frames[k]) :
        b \in Ids(blocks') \/ (k \in DOMAIN frames' /\ b \in Promised(frames'[k]))
  BY <1>4, <1>6
<1> QED BY <1>7, <1>8, <1>9, TargetsNext

\* A construct that returns has pushed what its frame promised.
LEMMA TargetsPop ==
  ASSUME TypeOK, StackShape, GraphShape, TargetShape, outcome = "lowering", outcome' = "lowering",
         frames' = Front(frames), Promised(Top) \subseteq Ids(blocks'),
         Ids(blocks) \subseteq Ids(blocks'),
         TargetsOf(blocks') \subseteq TargetsOf(blocks) \cup Ids(blocks')
  PROVE  TargetShape'
<1> DEFINE n == Len(frames)
<1>1. /\ DOMAIN frames' = 1 .. n - 1 /\ n \in Nat /\ DOMAIN frames = 1 .. n
      /\ \A k \in DOMAIN frames' : k \in DOMAIN frames /\ frames'[k] = frames[k]
      /\ Top = frames[n]
  BY InheritsPop, TopType, LenProperties DEF TypeOK
<1>2. \A k \in DOMAIN frames : k \in DOMAIN frames' \/ k = n
  BY <1>1
<1>3. \A k \in DOMAIN frames : \A b \in Promised(frames[k]) :
        b \in Ids(blocks') \/ (k \in DOMAIN frames' /\ b \in Promised(frames'[k]))
  BY <1>1, <1>2
<1>4. \A k \in DOMAIN frames' : SameDuty(frames'[k], frames[k])
  BY <1>1 DEF SameDuty
<1> QED BY <1>1, <1>3, <1>4, TargetsNext

\* The blocks behind a body bring their ids and their targets.
LEMMA ConcatBodies ==
  ASSUME NEW bs \in Seq(Block), NEW cs \in Seq(Block)
  PROVE  /\ Ids(bs \o cs) = Ids(bs) \cup Ids(cs)
         /\ TargetsOf(bs \o cs) = TargetsOf(bs) \cup TargetsOf(cs)
<1>1. ToSet(bs \o cs) = ToSet(bs) \cup ToSet(cs)
  BY ConcatElements
<1>2. \A s : /\ Ids(s) = {b.id : b \in ToSet(s)}
             /\ TargetsOf(s) = UNION {b.term.targets : b \in ToSet(s)}
  BY DEF Ids, TargetsOf, ToSet
<1> QED BY <1>1, <1>2

\* lower_loop: the exit is promised, the header and the body are pushed.
LEMMA TargetsLoop ==
  ASSUME TypeOK, StackShape, GraphShape, TargetShape,
         NEW tail \in BOOLEAN, NEW label, NEW cond \in BOOLEAN, BeginLoop(tail, label, cond)
  PROVE  TargetShape'
<1> DEFINE header == next_block  body == next_block + 1  exit == next_block + 2
           ht == IF cond THEN Switch({body, exit}) ELSE Goto(body)
           h == [id |-> header, term |-> ht]
           bs == SetTerm(blocks, current_block, Goto(header))
           cs == <<h, NewBlock(body)>>
           f == [kind |-> "loop", tail |-> TRUE, must |-> "any", depth |-> Len(scope_stack),
                 loops |-> Len(loop_stack) + 1, header |-> header, exit |-> exit, label |-> label]
<1>1. /\ outcome = "lowering" /\ outcome' = "lowering" /\ Live
      /\ blocks' = bs \o cs /\ frames' = Append(Marked(tail), f)
  BY DEF BeginLoop, At
<1>2. header \in BlockId /\ body \in BlockId /\ exit \in BlockId
  BY DEF TypeOK, BlockId
<1>3. Goto(header) \in Terminator /\ ht \in Terminator /\ NewBlock(body) \in Block
  BY <1>2, TermTypes
<1>4. f.kind = "loop" /\ f.header = header /\ f.exit = exit
  OBVIOUS
<1>5. Promised(f) = {exit}
  BY <1>4 DEF Promised, Pending
<1>6. h \in Block /\ h.id = header /\ h.term = ht /\ ht.targets \subseteq {body, exit}
  BY <1>2, <1>3 DEF Block, Switch, Goto
<1> HIDE DEF f, h, ht
<1>7. /\ cs \in Seq(Block) /\ DOMAIN cs = {1, 2} /\ cs[1] = h /\ cs[2] = NewBlock(body)
  BY <1>3, <1>6
<1>8. NewBlock(body).id = body /\ NewBlock(body).term.targets = {}
  BY DEF NewBlock, Unreachable
<1> HIDE DEF cs
<1>9. Ids(cs) = {header, body} /\ TargetsOf(cs) \subseteq {body, exit}
  BY <1>6, <1>7, <1>8 DEF Ids, TargetsOf
<1>10. /\ bs \in Seq(Block) /\ FirstsDecided(bs) /\ Ids(bs) = Ids(blocks)
       /\ TargetsOf(bs) \subseteq TargetsOf(blocks) \cup {header}
  <2>1. Goto(header).targets = {header}
    BY DEF Goto
  <2>2. bs = IF Live THEN SetTerm(blocks, current_block, Goto(header)) ELSE blocks
    BY <1>1
  <2> HIDE DEF bs
  <2> QED BY <1>1, <1>3, <2>1, <2>2, DecideCurrent
<1> HIDE DEF bs
<1>11. Ids(bs \o cs) = Ids(bs) \cup Ids(cs) /\ TargetsOf(bs \o cs) = TargetsOf(bs) \cup TargetsOf(cs)
  BY <1>7, <1>10, ConcatBodies
<1>12. Kept(f, blocks')
  BY <1>1, <1>4, <1>9, <1>11 DEF Kept
<1> HIDE DEF header, body, exit
<1> QED BY <1>1, <1>5, <1>9, <1>10, <1>11, <1>12, TargetsPush

\* lower_propagate: the three blocks are pushed at once.
LEMMA TargetsPropagate ==
  ASSUME TypeOK, StackShape, GraphShape, TargetShape, "unionPropagate" \notin Features,
         NEW tail \in BOOLEAN, Propagate(tail)
  PROVE  TargetShape'
<1> DEFINE error == next_block  success == next_block + 1  merge == next_block + 2
           e == [id |-> error, term |-> Return]
           s == [id |-> success, term |-> Goto(merge)]
           cs == <<e, s, NewBlock(merge)>>
           t == Switch({error, success})
           bs == IF Live THEN SetTerm(blocks, current_block, t) ELSE blocks
<1>1. /\ outcome = "lowering" /\ outcome' = "lowering"
      /\ blocks' = bs \o cs /\ frames' = Marked(tail)
  BY DEF Propagate, At, Complete
<1>2. error \in BlockId /\ success \in BlockId /\ merge \in BlockId
  BY DEF TypeOK, BlockId
<1>3. t \in Terminator /\ Goto(merge) \in Terminator /\ NewBlock(merge) \in Block /\ Return \in Terminator
  BY <1>2, TermTypes
<1>4. /\ e \in Block /\ s \in Block /\ e.id = error /\ s.id = success
      /\ e.term.targets = {} /\ s.term.targets = {merge} /\ t.targets = {error, success}
  BY <1>2, <1>3 DEF Block, Return, Goto, Switch
<1> HIDE DEF e, s
<1>5. /\ cs \in Seq(Block) /\ DOMAIN cs = {1, 2, 3}
      /\ cs[1] = e /\ cs[2] = s /\ cs[3] = NewBlock(merge)
  BY <1>3, <1>4
<1>6. NewBlock(merge).id = merge /\ NewBlock(merge).term.targets = {}
  BY DEF NewBlock, Unreachable
<1> HIDE DEF cs
<1>7. Ids(cs) = {error, success, merge} /\ TargetsOf(cs) \subseteq {merge}
  BY <1>4, <1>5, <1>6 DEF Ids, TargetsOf
<1> HIDE DEF t
<1>8. /\ bs \in Seq(Block) /\ FirstsDecided(bs) /\ Ids(bs) = Ids(blocks)
      /\ TargetsOf(bs) \subseteq TargetsOf(blocks) \cup {error, success}
  BY <1>1, <1>3, <1>4, DecideCurrent
<1> HIDE DEF bs
<1>9. Ids(bs \o cs) = Ids(bs) \cup Ids(cs) /\ TargetsOf(bs \o cs) = TargetsOf(bs) \cup TargetsOf(cs)
  BY <1>5, <1>8, ConcatBodies
<1>10. /\ DOMAIN frames' = DOMAIN frames
       /\ \A k \in DOMAIN frames : SameDuty(frames'[k], frames[k])
  BY <1>1, DutyMarked, MarkedInherits
<1> HIDE DEF error, success, merge
<1>11. /\ Ids(blocks) \subseteq Ids(blocks')
       /\ \A b \in TargetsOf(blocks') : b \in TargetsOf(blocks) \cup Ids(blocks')
  BY <1>1, <1>7, <1>8, <1>9
<1> QED BY <1>1, <1>10, <1>11, TargetsSteady

\* lower_ret, lower_stop, lower_skip, lower_jmp: the current block ends.
LEMMA TargetsEnd ==
  ASSUME TypeOK, StackShape, GraphShape, TargetShape, outcome = "lowering", outcome' = "lowering",
         NEW tail \in BOOLEAN, frames' = Marked(tail), NEW t \in Terminator,
         blocks' = IF Live THEN SetTerm(blocks, current_block, t) ELSE blocks,
         \A b \in t.targets : b \in Ids(blocks) \/ \E k \in DOMAIN frames : b \in Promised(frames[k])
  PROVE  TargetShape'
<1>1. /\ DOMAIN frames' = DOMAIN frames
      /\ \A k \in DOMAIN frames : SameDuty(frames'[k], frames[k])
  BY DutyMarked, MarkedInherits
<1>2. Ids(blocks') = Ids(blocks) /\ TargetsOf(blocks') \subseteq TargetsOf(blocks) \cup t.targets
  BY DecideCurrent
<1> QED BY <1>1, <1>2, TargetsSteady

\* A jump that resolves leads to a loop whose frame is open.
LEMMA JumpTarget ==
  ASSUME TypeOK, StackShape, outcome = "lowering", NEW label \in Labels \cup {NoLabel},
         TargetOf(label) # NoTarget
  PROVE  \E i \in DOMAIN frames :
           /\ frames[i].kind = "loop"
           /\ TargetOf(label).header = frames[i].header /\ TargetOf(label).exit = frames[i].exit
<1> DEFINE target == TargetOf(label)
<1>1. CASE label # NoLabel
  <2>1. target = label_map[label] /\ label \in Labels
    BY <1>1 DEF TargetOf
  <2>2. LabelNesting
    BY DEF StackShape
  <2>3. PICK i \in LoopFrames : IsTarget(target, frames[i])
    BY <2>1, <2>2 DEF LabelNesting
  <2>4. i \in DOMAIN frames
    BY <2>3, LenProperties DEF LoopFrames, TypeOK
  <2> QED BY <2>3, <2>4 DEF IsTarget, LoopFrames
<1>2. CASE label = NoLabel
  <2>1. loop_stack # <<>> /\ target = loop_stack[Len(loop_stack)]
    BY <1>2 DEF TargetOf, Last
  <2>2. loop_stack \in Seq(Target)
    BY DEF TypeOK
  <2>3. Len(loop_stack) \in 1 .. Len(loop_stack)
    BY <2>1, <2>2, FrontElements
  <2>4. LoopNesting
    BY DEF StackShape
  <2>5. PICK i \in LoopFrames : frames[i].loops = Len(loop_stack)
    BY <2>3, <2>4 DEF LoopNesting
  <2>6. IsTarget(target, frames[i])
    BY <2>1, <2>4, <2>5 DEF LoopNesting
  <2>7. i \in DOMAIN frames
    BY <2>5, LenProperties DEF LoopFrames, TypeOK
  <2> QED BY <2>5, <2>6, <2>7 DEF IsTarget, LoopFrames
<1> QED BY <1>1, <1>2

\* A jump goes to a loop whose frame is open: its header is pushed, its exit is
\* promised.
LEMMA TargetsJump ==
  ASSUME TypeOK, StackShape, GraphShape, TargetShape, NEW tail \in BOOLEAN, NEW skip \in BOOLEAN,
         NEW label \in Labels \cup {NoLabel}, Jump(tail, skip, label)
  PROVE  TargetShape'
<1> DEFINE target == TargetOf(label)  b == IF skip THEN target.header ELSE target.exit
<1>1. /\ outcome = "lowering" /\ outcome' = "lowering" /\ frames' = Marked(tail)
      /\ blocks' = IF Live THEN SetTerm(blocks, current_block, Goto(b)) ELSE blocks
      /\ target # NoTarget
  BY DEF Jump, At, Complete
<1>2. \E i \in DOMAIN frames :
        /\ frames[i].kind = "loop"
        /\ target.header = frames[i].header /\ target.exit = frames[i].exit
  BY <1>1, JumpTarget
<1> HIDE DEF target
<1>3. PICK i \in DOMAIN frames :
        /\ frames[i].kind = "loop"
        /\ target.header = frames[i].header /\ target.exit = frames[i].exit
  BY <1>2
<1>4. frames[i] \in LoopFrame
  BY <1>3, LenProperties, ElementOfSeq, FrameFields DEF TypeOK
<1>5. b \in BlockId
  BY <1>3, <1>4 DEF LoopFrame
<1>6. b \in Ids(blocks) \/ b \in Promised(frames[i])
  BY <1>1, <1>3 DEF TargetShape, Kept, Promised, Pending
<1> HIDE DEF b
<1>7. Goto(b) \in Terminator /\ Goto(b).targets = {b}
  BY <1>5, TermTypes DEF Goto
<1>8. \A c \in Goto(b).targets :
        c \in Ids(blocks) \/ \E k \in DOMAIN frames : c \in Promised(frames[k])
  BY <1>6, <1>7
<1> QED BY <1>1, <1>7, <1>8, TargetsEnd

\* lower_loop, at its end: the exit is pushed, and the body goes back to the header.
LEMMA TargetsEndLoop ==
  ASSUME TypeOK, StackShape, GraphShape, TargetShape, EndLoop
  PROVE  TargetShape'
<1> DEFINE falls == Live /\ current_block \in Ids(blocks) /\ TermOf(blocks, current_block) = Unreachable
           bs == IF falls THEN SetTerm(blocks, current_block, Goto(Top.header)) ELSE blocks
<1>1. /\ outcome = "lowering" /\ outcome' = "lowering" /\ Top.kind = "loop"
      /\ frames' = Front(frames) /\ blocks' = Append(bs, NewBlock(Top.exit))
  BY DEF EndLoop, ReturnToCaller
<1>2. /\ Top = frames[Len(frames)] /\ Len(frames) \in DOMAIN frames /\ Top \in LoopFrame
  BY <1>1, TopType, FrameFields
<1>3. Top.header \in BlockId /\ Top.exit \in BlockId
  BY <1>2 DEF LoopFrame
<1>4. blocks \in Seq(Block) /\ FirstsDecided(blocks)
  BY <1>1 DEF TypeOK, GraphShape
<1>5. Goto(Top.header) \in Terminator /\ Goto(Top.header).targets = {Top.header}
  BY <1>3, TermTypes DEF Goto
<1>6. /\ bs \in Seq(Block) /\ FirstsDecided(bs) /\ Ids(bs) = Ids(blocks)
      /\ TargetsOf(bs) \subseteq TargetsOf(blocks) \cup {Top.header}
  <2>1. CASE falls
    <3>1. bs = IF Live THEN SetTerm(blocks, current_block, Goto(Top.header)) ELSE blocks
      BY <2>1
    <3> HIDE DEF bs
    <3> QED BY <1>1, <1>5, <3>1, DecideCurrent
  <2>2. CASE ~falls
    BY <1>4, <2>2
  <2> QED BY <2>1, <2>2
<1> HIDE DEF bs
<1>7. Ids(blocks') = Ids(bs) \cup {Top.exit} /\ TargetsOf(blocks') = TargetsOf(bs)
  BY <1>1, <1>3, <1>6, ExtendOpen
<1>8. Top.header \in Ids(blocks) /\ Promised(Top) = {Top.exit}
  BY <1>1, <1>2 DEF TargetShape, Kept, Promised, Pending
<1> QED BY <1>1, <1>6, <1>7, <1>8, TargetsPop

\* lower_branch, between two arms: the block of the next arm is pushed.
LEMMA TargetsNextArm ==
  ASSUME TypeOK, StackShape, GraphShape, TargetShape, NextArm
  PROVE  TargetShape'
<1> DEFINE n == Len(frames)
           v == IF Top.next = 1 THEN result = "value" ELSE Top.valued
           f == [[frames[n] EXCEPT !.next = @ + 1] EXCEPT !.valued = v]
           arm == Top.arms[Top.next + 1].block
<1>1. /\ outcome = "lowering" /\ outcome' = "lowering" /\ Top.kind = "branch"
      /\ Top.next < Len(Top.arms) /\ blocks' = PushIfNew(AfterArm, arm)
  BY DEF NextArm
<1>2. /\ Top \in BranchFrame /\ Top = frames[n] /\ n \in DOMAIN frames /\ frames \in Seq(Frame)
      /\ Top.arms \in Seq(Arm) /\ Top.next \in 1 .. Len(Top.arms)
      /\ \A i \in 1 .. Len(Top.arms) : Top.arms[i].block \in BlockId
  BY <1>1, TopType, BranchTop DEF TypeOK
<1>3. /\ DOMAIN Top.arms = 1 .. Len(Top.arms) /\ Len(Top.arms) \in Nat
      /\ Top.next \in Nat /\ Top.next >= 1 /\ Top.next + 1 \in DOMAIN Top.arms
  BY <1>1, <1>2, LenProperties
<1>4. frames' = [frames EXCEPT ![n] = f]
  <2>1. frames' = [[frames EXCEPT ![n].next = @ + 1] EXCEPT ![n].valued = v]
    BY DEF NextArm, Valued
  <2> HIDE DEF v
  <2> QED BY <1>2, <2>1
<1>5. /\ f.kind = Top.kind /\ f.arms = Top.arms /\ f.after = Top.after
      /\ f.unreachable = Top.unreachable /\ f.next = Top.next + 1 /\ f.guarded = Top.guarded
  BY <1>2 DEF BranchFrame
<1> HIDE DEF f, v
<1>6. Promised(Top) \subseteq Promised(f) \cup {arm} /\ Top.after \in Promised(f)
  <2>1. LaterArms(Top) \subseteq LaterArms(f) \cup {arm}
    BY <1>3, <1>5 DEF LaterArms
  <2> QED BY <1>1, <1>5, <2>1 DEF Promised, Pending
<1>7. arm \in BlockId
  BY <1>2, <1>3
<1>8. /\ AfterArm \in Seq(Block) /\ FirstsDecided(AfterArm) /\ Ids(AfterArm) = Ids(blocks)
      /\ TargetsOf(AfterArm) \subseteq TargetsOf(blocks) \cup {Top.after}
  BY <1>1, AfterArmGraph
<1> HIDE DEF arm
<1>9. Ids(blocks') = Ids(AfterArm) \cup {arm} /\ TargetsOf(blocks') = TargetsOf(AfterArm)
  BY <1>1, <1>7, <1>8, ExtendOpen
<1>10. /\ DOMAIN frames' = DOMAIN frames
       /\ \A k \in DOMAIN frames : frames'[k] = IF k = n THEN f ELSE frames[k]
  BY <1>2, <1>4
<1>11. \A k \in DOMAIN frames : \A b \in Promised(frames[k]) :
         b \in Ids(blocks') \/ (k \in DOMAIN frames' /\ b \in Promised(frames'[k]))
  BY <1>2, <1>6, <1>9, <1>10
<1>12. Kept(frames[n], blocks)
  BY <1>1, <1>2 DEF TargetShape
<1>13. Kept(f, blocks')
  BY <1>1, <1>2, <1>5, <1>12 DEF Kept
<1>14. \A k \in DOMAIN frames' :
         \/ k \in DOMAIN frames /\ SameDuty(frames'[k], frames[k])
         \/ Kept(frames'[k], blocks')
  BY <1>10, <1>13 DEF SameDuty
<1>15. frames'[n] = f /\ n \in DOMAIN frames'
  BY <1>2, <1>10
<1>16. \A b \in TargetsOf(blocks') :
         \/ b \in TargetsOf(blocks) \cup Ids(blocks')
         \/ \E k \in DOMAIN frames' : b \in Promised(frames'[k])
  BY <1>6, <1>8, <1>9, <1>15
<1> QED BY <1>1, <1>8, <1>9, <1>11, <1>14, <1>16, TargetsNext

\* lower_branch, at its end: the block after it and the unreachable one.
LEMMA TargetsEndBranch ==
  ASSUME TypeOK, StackShape, GraphShape, TargetShape, EndBranch
  PROVE  TargetShape'
<1>1. /\ outcome = "lowering" /\ outcome' = "lowering" /\ Top.kind = "branch"
      /\ Top.next = Len(Top.arms) /\ frames' = Front(frames)
  BY DEF EndBranch, ReturnToCaller
<1>2. /\ Top \in BranchFrame /\ Top = frames[Len(frames)] /\ Len(frames) \in DOMAIN frames
      /\ Top.arms \in Seq(Arm)
  BY <1>1, TopType, BranchTop
<1>3. Top.guarded
  BY <1>1, <1>2 DEF TargetShape, Kept
<1>4. PICK bs \in Seq(Block) :
        /\ TargetsOf(bs) \subseteq TargetsOf(blocks) \cup {Top.after}
        /\ TargetsOf(blocks') = TargetsOf(bs)
        /\ Ids(blocks') = Ids(blocks) \cup {Top.after, Top.unreachable}
  BY <1>3, EndBranchBlocks
<1>5. Promised(Top) = {Top.after, Top.unreachable}
  BY <1>2, LenProperties, <1>1 DEF LaterArms, Promised, Pending
<1> QED BY <1>1, <1>4, <1>5, TargetsPop

\* lower_branch, at its start, in a program without patterns: every arm is a
\* condition, so the branch will have a block after it whatever its arms do.
LEMMA TargetsBranch ==
  ASSUME TypeOK, StackShape, GraphShape, TargetShape, "match" \notin Features,
         NEW tail \in BOOLEAN, NEW size \in Nat \ {0},
         NEW pats \in [1 .. size -> Pattern], NEW ends \in [1 .. size -> {"yes", "no"}],
         BeginBranch(tail, pats, ends)
  PROVE  TargetShape'
<1> DEFINE n        == Len(pats)
           after    == next_block
           arm      == [i \in 1 .. n |-> next_block + i]
           guarded  == \E i \in 1 .. n : pats[i] = "cond"
           reuse    == (\A i \in 1 .. n : ends[i] = "yes") /\ ~guarded
           unreach  == IF reuse THEN arm[n] ELSE next_block + n + 1
           first    == IF reuse THEN next_block + n + 1 ELSE next_block + n + 2
           fallback == IF reuse THEN unreach ELSE after
           decision == Decision(pats, arm, first, fallback, unreach)
           ds       == decision.blocks
           t        == Goto(decision.entry)
           bs       == SetTerm(blocks, current_block, t)
           last     == NewBlock(arm[1])
           f        == [kind |-> "branch", tail |-> TRUE, must |-> "any",
                        depth |-> Len(scope_stack), loops |-> Len(loop_stack),
                        arms |-> [i \in 1 .. n |-> [block |-> arm[i], ends |-> ends[i]]],
                        next |-> 1, after |-> after, unreachable |-> unreach,
                        guarded |-> guarded, valued |-> FALSE]
<1>1. /\ outcome = "lowering" /\ outcome' = "lowering" /\ Live
      /\ blocks' = bs \o ds \o <<last>>
      /\ frames' = Append(Marked(tail), f)
      /\ (\E i \in 1 .. n : pats[i] # "cond") => "match" \in Features
  <2>1. outcome = "lowering" /\ outcome' = "lowering" /\ Live
    BY DEF BeginBranch, At
  <2>2. blocks' = bs \o ds \o <<last>>
    BY DEF BeginBranch
  <2>3. frames' = Append(Marked(tail), f)
    BY DEF BeginBranch
  <2>4. (\E i \in 1 .. n : pats[i] # "cond") => "match" \in Features
    BY DEF BeginBranch
  <2> QED BY <2>1, <2>2, <2>3, <2>4
<1>2. /\ next_block \in Nat /\ n \in Nat /\ n >= 1 /\ pats \in [1 .. n -> Pattern]
  BY DEF TypeOK
<1>3. 1 \in 1 .. n /\ n \in 1 .. n
  BY <1>2
<1>4. guarded
  BY <1>1, <1>3
<1> HIDE DEF n
<1>5. /\ arm \in [1 .. n -> BlockId] /\ after \in BlockId
  BY <1>2 DEF BlockId
<1>6. fallback = after /\ ~reuse
  BY <1>4
<1>7. unreach \in BlockId /\ first \in BlockId
  <2> HIDE DEF reuse
  <2> QED BY <1>2, <1>6 DEF BlockId
<1>8. f.kind = "branch" /\ f.after = after /\ f.unreachable = unreach /\ f.next = 1
      /\ f.arms = [i \in 1 .. n |-> [block |-> arm[i], ends |-> ends[i]]] /\ f.guarded = guarded
  OBVIOUS
<1> HIDE DEF f, arm, unreach, first, guarded, fallback, after, reuse
<1>9. Kept(f, blocks')
  BY <1>4, <1>8 DEF Kept
<1>10. \A i \in 1 .. n : arm[i] \in Promised(f) \cup {arm[1]}
  <2> SUFFICES ASSUME NEW i \in 1 .. n, i # 1 PROVE arm[i] \in LaterArms(f)
    BY <1>8 DEF Promised, Pending
  <2>1. DOMAIN f.arms = 1 .. n /\ f.arms[i].block = arm[i]
    BY <1>8
  <2>2. i > f.next
    BY <1>2, <1>8
  <2> QED BY <2>1, <2>2 DEF LaterArms
<1>11. {fallback, unreach} \subseteq Promised(f)
  BY <1>6, <1>8 DEF Promised, Pending
<1>12. decision.entry \in BlockId /\ ds \in Seq(Block)
  BY <1>2, <1>5, <1>6, <1>7, DecisionType
<1>13. \A b \in {decision.entry} \cup TargetsOf(ds) :
         b \in Ids(ds) \cup {fallback, unreach} \/ \E i \in 1 .. n : b = arm[i]
  <2>1. /\ n \in Nat /\ pats \in [1 .. n -> Pattern] /\ arm \in [1 .. n -> BlockId]
        /\ first \in BlockId /\ fallback \in BlockId /\ unreach \in BlockId
    BY <1>2, <1>5, <1>6, <1>7
  <2> HIDE DEF decision, ds
  <2> DEFINE d == Decision(pats, arm, first, fallback, unreach)
  <2>2. LeadsTo(d, arm, n, {fallback, unreach})
    BY <2>1, DecisionIds
  <2> QED BY <2>2 DEF decision, ds, LeadsTo
<1> HIDE DEF decision, ds
<1>14. /\ last \in Block /\ last.id = arm[1] /\ last.term.targets = {}
       /\ t \in Terminator /\ t.targets = {decision.entry}
  BY <1>3, <1>5, <1>12, TermTypes DEF NewBlock, Unreachable, Goto
<1> HIDE DEF last, t
<1>15. /\ bs \in Seq(Block) /\ Ids(bs) = Ids(blocks)
       /\ TargetsOf(bs) \subseteq TargetsOf(blocks) \cup {decision.entry}
  <2>1. bs = IF Live THEN SetTerm(blocks, current_block, t) ELSE blocks
    BY <1>1
  <2> HIDE DEF bs
  <2> QED BY <1>1, <1>14, <2>1, DecideCurrent
<1> HIDE DEF bs
<1>16. /\ bs \o ds \in Seq(Block) /\ Ids(bs \o ds) = Ids(bs) \cup Ids(ds)
       /\ TargetsOf(bs \o ds) = TargetsOf(bs) \cup TargetsOf(ds)
  BY <1>12, <1>15, ConcatBodies, ConcatElements
<1>17. /\ <<last>> \in Seq(Block) /\ Ids(<<last>>) = {arm[1]} /\ TargetsOf(<<last>>) = {}
  <2> DEFINE one == <<last>>
  <2>1. one \in Seq(Block) /\ DOMAIN one = {1} /\ one[1] = last
    BY <1>14
  <2> HIDE DEF one
  <2>2. Ids(one) = {arm[1]} /\ TargetsOf(one) = {}
    BY <1>14, <2>1 DEF Ids, TargetsOf
  <2> QED BY <2>1, <2>2 DEF one
<1>18. /\ Ids(blocks') = Ids(blocks) \cup Ids(ds) \cup {arm[1]}
       /\ TargetsOf(blocks') \subseteq TargetsOf(blocks) \cup {decision.entry} \cup TargetsOf(ds)
  <2> DEFINE front == bs \o ds
  <2>1. front \in Seq(Block) /\ blocks' = front \o <<last>>
    BY <1>1, <1>16
  <2>2. Ids(front) = Ids(blocks) \cup Ids(ds) /\ TargetsOf(front) = TargetsOf(bs) \cup TargetsOf(ds)
    BY <1>15, <1>16
  <2> HIDE DEF front
  <2>3. /\ Ids(blocks') = Ids(front) \cup Ids(<<last>>)
        /\ TargetsOf(blocks') = TargetsOf(front) \cup TargetsOf(<<last>>)
    BY <1>17, <2>1, ConcatBodies
  <2> QED BY <1>15, <1>17, <2>2, <2>3
<1>19. /\ Ids(blocks) \subseteq Ids(blocks')
       /\ TargetsOf(blocks') \subseteq TargetsOf(blocks) \cup Ids(blocks') \cup Promised(f)
  BY <1>10, <1>11, <1>13, <1>18
<1> QED BY <1>1, <1>9, <1>19, TargetsPush

\* lower_func, at its end: every construct has returned, so nothing is promised.
LEMMA TargetsEndFunc ==
  ASSUME TypeOK, StackShape, GraphShape, TargetShape, EndFunc
  PROVE  TargetShape'
<1>1. outcome = "lowering" /\ outcome' = "lowered" /\ Top.kind = "func"
  BY DEF EndFunc
<1>2. /\ Top = frames[Len(frames)] /\ DOMAIN frames = 1 .. Len(frames)
      /\ Len(frames) \in DOMAIN frames
  BY <1>1, TopType, LenProperties DEF TypeOK
<1>3. Len(frames) = 1
  BY <1>1, <1>2 DEF StackShape, FrameNesting
<1>4. \A k \in DOMAIN frames : Promised(frames[k]) = {}
  BY <1>1, <1>2, <1>3 DEF Promised, Pending
<1>5. TargetsOf(blocks) \subseteq Ids(blocks)
  BY <1>1, <1>4 DEF TargetShape
<1> QED BY <1>1, <1>5, GraphEnd DEF TargetShape

\* lower_func, at its start: one block, with no target.
LEMMA TargetsBegin ==
  ASSUME NEW params, NEW void, NEW exprBody, BeginFunc(params, void, exprBody)
  PROVE  TargetShape'
<1> DEFINE f == [kind |-> "func", tail |-> exprBody, must |-> "any", depth |-> 0,
                 loops |-> Len(loop_stack), owned |-> [i \in 1 .. params |-> i - 1],
                 defers |-> <<>>, late |-> "no", void |-> void]
<1>1. blocks' = <<NewBlock(0)>> /\ frames' = <<f>> /\ outcome' = "lowering"
  BY DEF BeginFunc
<1>2. f.kind = "func"
  OBVIOUS
<1> HIDE DEF f
<1>3. DOMAIN blocks' = {1} /\ blocks'[1] = NewBlock(0) /\ DOMAIN frames' = {1} /\ frames'[1] = f
  BY <1>1
<1>4. blocks'[1].term.targets = {}
  BY <1>3 DEF NewBlock, Unreachable
<1>5. TargetsOf(blocks') = {} /\ \A k \in DOMAIN frames' : Kept(frames'[k], blocks')
  BY <1>2, <1>3, <1>4 DEF TargetsOf, Kept
<1> QED BY <1>1, <1>5 DEF TargetShape

\* Every step keeps the targets, in a program without patterns.
LEMMA TargetsStep ==
  ASSUME TypeOK, StackShape, GraphShape, TargetShape, [Next]_vars,
         "match" \notin Features, "unionPropagate" \notin Features
  PROVE  TargetShape'
<1>1. ASSUME NEW params \in 0 .. MaxParams, NEW void \in BOOLEAN, NEW exprBody \in BOOLEAN,
             BeginFunc(params, void, exprBody)
      PROVE  TargetShape'
  BY <1>1, TargetsBegin
<1>2. ASSUME EndFunc PROVE TargetShape'
  BY <1>2, TargetsEndFunc
<1>3. ASSUME Defer PROVE TargetShape'
  <2> DEFINE f == [Top EXCEPT !.defers = Append(Top.defers, next_defer),
                               !.late = IF Top.owned = <<>> THEN "no" ELSE "yes"]
  <2>1. /\ outcome = "lowering" /\ outcome' = "lowering" /\ blocks' = blocks
        /\ Top.kind \in {"func", "block"} /\ frames' = [frames EXCEPT ![Len(frames)] = f]
    BY <1>3 DEF Defer, At, cfg
  <2>2. Top \in Frame /\ Top = frames[Len(frames)]
    BY <2>1, TopType
  <2>3. f.kind = Top.kind
    BY <1>3, <2>1, <2>2, DeferType DEF SameShape
  <2> HIDE DEF f
  <2> QED BY <2>1, <2>3, TargetsScope
<1>4. ASSUME NEW x \in Nat, Declare(x), outcome = "lowering", outcome' = "lowering",
             blocks' = blocks, Top.kind \in {"func", "block"}
      PROVE  TargetShape'
  <2> DEFINE f == [frames[Len(frames)] EXCEPT !.owned = Append(@, x)]
  <2>1. frames' = [frames EXCEPT ![Len(frames)] = f]
    BY <1>4 DEF Declare
  <2>2. Top \in Frame /\ Top = frames[Len(frames)]
    BY <1>4, TopType
  <2>3. f.kind = Top.kind
    BY <1>4, <2>2, FrameOwns DEF SameShape
  <2> HIDE DEF f
  <2> QED BY <1>4, <2>1, <2>3, TargetsScope
<1>5. ASSUME LetOwned PROVE TargetShape'
  BY <1>4, <1>5 DEF LetOwned, At, TypeOK
<1>6. ASSUME NEW src \in Holders, LetMoved(src) PROVE TargetShape'
  BY <1>4, <1>6 DEF LetMoved, At, TypeOK
<1>7. ASSUME NEW src \in Holders, PassOwned(src) PROVE TargetShape'
  BY <1>7, TargetsCalm DEF PassOwned, At
<1>8. ASSUME NEW v \in {"void", "value"}, Simple(v) PROVE TargetShape'
  BY <1>8, TargetsCalm DEF Simple, At, cfg, Complete
<1>9. ASSUME NEW tail \in BOOLEAN,
             \/ RetInDeadCode(tail)
             \/ LoopInDeadCode(tail)
             \/ \E label \in Labels \cup {NoLabel} : JumpNowhere(tail, label)
      PROVE  TargetShape'
  BY <1>9, TargetsCalm DEF RetInDeadCode, LoopInDeadCode, JumpNowhere, At, cfg, Complete
<1>10. ASSUME LeaveBlock \/ AbandonBlock PROVE TargetShape'
  BY <1>10, TargetsPop DEF LeaveBlock, AbandonBlock, cfg, ReturnToCaller, Promised, Pending
<1>11. ASSUME NEW tail \in BOOLEAN, EnterBlock(tail) PROVE TargetShape'
  <2> DEFINE f == [kind |-> "block", tail |-> FALSE, must |-> Expected(tail),
                   depth |-> Len(scope_stack), loops |-> Len(loop_stack),
                   owned |-> <<>>, defers |-> <<>>, late |-> "no"]
  <2>1. /\ outcome = "lowering" /\ outcome' = "lowering" /\ blocks' = blocks
        /\ frames' = Append(Marked(tail), f)
    BY <1>11 DEF EnterBlock, At, cfg
  <2>2. f.kind = "block"
    OBVIOUS
  <2> HIDE DEF f
  <2>3. Kept(f, blocks')
    BY <2>2 DEF Kept
  <2> QED BY <2>1, <2>3, TargetsPush
<1>12. ASSUME NEW tail \in BOOLEAN, BranchInDeadCode(tail) PROVE TargetShape'
  BY <1>12 DEF BranchInDeadCode, TargetShape
<1>13. ASSUME NEW tail \in BOOLEAN, Ret(tail) PROVE TargetShape'
  BY <1>13, TermTypes, TargetsEnd DEF Ret, At, Complete, Return
<1>14. ASSUME NEW tail \in BOOLEAN, NEW size \in 1 .. MaxArms,
              NEW pats \in [1 .. size -> Pattern], NEW ends \in [1 .. size -> {"yes", "no"}],
              BeginBranch(tail, pats, ends)
       PROVE  TargetShape'
  BY LoweringAssumption, <1>14, TargetsBranch
<1>15. CASE UNCHANGED vars
  BY <1>15 DEF vars, cfg, TargetShape
<1> QED
  BY <1>1, <1>2, <1>3, <1>5, <1>6, <1>7, <1>8, <1>9, <1>10, <1>11, <1>12, <1>13, <1>14, <1>15,
     TargetsLoop, TargetsPropagate, TargetsJump, TargetsEndLoop, TargetsNextArm, TargetsEndBranch
  DEF Next

\* The lowering of a program whose branches only have conditions, and whose `!`
\* are on error unions, leaves no jump without a target: what a construct referred to before it was there has been
\* pushed when the function ends (error 9003 of validate_cfg).
THEOREM EveryTargetIsPushed ==
  ASSUME "match" \notin Features, "unionPropagate" \notin Features
  PROVE  Spec => []NoDanglingTarget
<1>1. Init => TargetShape
  BY DEF Init, TargetShape
<1>2. TypeOK /\ StackShape /\ GraphShape /\ TargetShape /\ [Next]_vars => TargetShape'
  BY TargetsStep
<1>3. TargetShape => NoDanglingTarget
  BY DEF TargetShape, NoDanglingTarget, Dangling, TargetsOf
<1> QED BY <1>1, <1>2, <1>3, StacksNested, IdsAreReserved, PTL DEF Spec

-----------------------------------------------------------------------------
(* Dead ends.  A block that is jumped to has no terminator while some      *)
(* construct still has to see to it: it is under construction, or an open  *)
(* loop or branch holds its id and will build or link it.                  *)

\* Where control may run into a block without a terminator.
LooseEnds(bs) == ({0} \cup TargetsOf(bs)) \ Decided(bs)

\* The blocks a loop or a branch builds later or links when it ends.
Settles(f) ==
  IF f.kind = "loop" THEN {f.exit}
  ELSE IF f.kind = "branch" THEN {f.after} \cup ArmBlocks(f)
  ELSE {}

\* What lets it do so: a loop is entered, and the flow of a branch never left
\* the blocks of its arms, which are there to be linked.
Ready(f, bs, current) ==
  /\ f.kind = "loop" => f.header \in Decided(bs)
  /\ f.kind = "branch" => /\ f.guarded
                          /\ current \in {NoBlock, f.arms[f.next].block}
                          /\ \A m \in 1 .. f.next : f.arms[m].block \in Ids(bs)

\* Only blocks are nested in an arm.
FlatArms ==
  \A i, j \in DOMAIN frames : i < j /\ frames[i].kind = "branch" => frames[j].kind = "block"

\* Some construct will see to the block.
Awaited(b) == b \in Current \/ \E k \in DOMAIN frames : b \in Settles(frames[k])

EndShape ==
  /\ outcome = "lowering" =>
       /\ \A b \in LooseEnds(blocks) : Awaited(b)
       /\ \A k \in DOMAIN frames : Ready(frames[k], blocks, current_block)
       /\ FlatArms
  /\ outcome = "lowered" /\ ~errors => LooseEnds(blocks) = {} /\ FirstsDecided(blocks)

\* The frame f has replaced g, with the same blocks to see to.
SameEnds(f, g) ==
  /\ f.kind = g.kind
  /\ g.kind = "loop" => f.header = g.header /\ f.exit = g.exit
  /\ g.kind = "branch" => /\ f.guarded = g.guarded /\ f.arms = g.arms
                          /\ f.next = g.next /\ f.after = g.after

\* A terminator that names a block, or that returns, is one.
LEMMA NotUnreachable ==
  /\ Return # Unreachable
  /\ \A b : Goto(b) # Unreachable
  /\ \A S : Switch(S) # Unreachable
BY DEF Return, Goto, Switch, Unreachable

\* The block under construction is decided when the flow goes on from it.
LEMMA CurrentSettled ==
  ASSUME TypeOK, GraphShape, outcome = "lowering", "unionPropagate" \notin Features,
         NEW t \in Terminator, t # Unreachable,
         NEW bs, bs = IF Live THEN SetTerm(blocks, current_block, t) ELSE blocks
  PROVE  Current \subseteq Decided(bs) /\ Decided(blocks) \subseteq Decided(bs)
<1>1. blocks \in Seq(Block) /\ bs \in Seq(Block) /\ Continues(blocks, bs)
  BY DecideCurrent DEF TypeOK
<1>2. Decided(blocks) \subseteq Decided(bs)
  BY <1>1, DecidedStays
<1>3. CASE Live
  BY <1>3, <1>1, <1>2, Settled DEF GraphShape, Building, Current
<1>4. CASE ~Live
  BY <1>2, <1>4 DEF Current
<1> QED BY <1>3, <1>4

\* What a step may leave open, it hands on.
LEMMA EndsNext ==
  ASSUME EndShape, outcome = "lowering", outcome' = "lowering",
         Decided(blocks) \subseteq Decided(blocks'),
         \A b \in TargetsOf(blocks') :
           b \in TargetsOf(blocks) \cup Decided(blocks') \/ Awaited(b) \/ Awaited(b)',
         \A b : Awaited(b) => b \in Decided(blocks') \/ Awaited(b)',
         \A k \in DOMAIN frames' : Ready(frames'[k], blocks', current_block'),
         FlatArms'
  PROVE  EndShape'
<1>1. ASSUME NEW b \in LooseEnds(blocks') PROVE Awaited(b)'
  BY DEF LooseEnds, EndShape
<1> QED BY <1>1 DEF EndShape

\* A frame that took over is as ready as the one before it.
LEMMA ReadyStill ==
  ASSUME EndShape, outcome = "lowering", NEW k \in DOMAIN frames, NEW f, SameEnds(f, frames[k]),
         Decided(blocks) \subseteq Decided(blocks'), Ids(blocks) \subseteq Ids(blocks'),
         f.kind = "branch" => current_block' \in {NoBlock, current_block}
  PROVE  Ready(f, blocks', current_block') /\ Settles(f) = Settles(frames[k])
<1>1. Ready(frames[k], blocks, current_block)
  BY DEF EndShape
<1>2. Settles(f) = Settles(frames[k])
  BY DEF SameEnds, Settles, ArmBlocks
<1>3. Ready(f, blocks', current_block')
  BY <1>1 DEF SameEnds, Ready
<1> QED BY <1>2, <1>3

\* A step that opens no frame, closes none and moves no branch on.
LEMMA EndsSteady ==
  ASSUME EndShape, outcome = "lowering", outcome' = "lowering",
         DOMAIN frames' = DOMAIN frames,
         \A k \in DOMAIN frames : SameEnds(frames'[k], frames[k]),
         Decided(blocks) \subseteq Decided(blocks'), Ids(blocks) \subseteq Ids(blocks'),
         \A k \in DOMAIN frames :
           frames[k].kind = "branch" => current_block' \in {NoBlock, current_block},
         Current \subseteq Decided(blocks') \cup Current',
         \A b \in TargetsOf(blocks') :
           b \in TargetsOf(blocks) \cup Decided(blocks') \cup Current' \/ Awaited(b)
  PROVE  EndShape'
<1>1. \A k \in DOMAIN frames' : /\ Ready(frames'[k], blocks', current_block')
                                /\ Settles(frames'[k]) = Settles(frames[k])
  <2> TAKE k \in DOMAIN frames'
  <2>1. frames'[k].kind = frames[k].kind
    BY DEF SameEnds
  <2> QED BY <2>1, ReadyStill
<1>2. \A b : Awaited(b) => b \in Decided(blocks') \/ Awaited(b)'
  BY <1>1 DEF Awaited
<1>3. \A b \in Current' : Awaited(b)'
  BY DEF Awaited
<1>4. FlatArms'
  BY DEF EndShape, FlatArms, SameEnds
<1> QED BY <1>1, <1>2, <1>3, <1>4, EndsNext

\* Marking the top frame changes nothing that has an end.
LEMMA EndsMarked ==
  ASSUME TypeOK, StackShape, outcome = "lowering", NEW tail \in BOOLEAN
  PROVE  /\ Marked(tail) \in Seq(Frame) /\ Len(Marked(tail)) = Len(frames)
         /\ DOMAIN Marked(tail) = DOMAIN frames
         /\ \A k \in DOMAIN frames : SameEnds(Marked(tail)[k], frames[k])
<1> DEFINE n == Len(frames)  f == [frames[n] EXCEPT !.tail = tail]
<1>1. frames \in Seq(Frame) /\ frames[n] \in Frame /\ n \in DOMAIN frames
  BY TopType DEF TypeOK
<1>2. SameEnds(f, frames[n])
  <2>1. CASE frames[n].kind = "branch"
    BY <1>1, <2>1, FrameFields DEF BranchFrame, SameEnds
  <2>2. CASE frames[n].kind # "branch"
    BY <1>1, <2>2, FrameTail DEF SameShape, SameEnds
  <2> QED BY <2>1, <2>2
<1> HIDE DEF f
<1>3. \A k \in DOMAIN frames : Marked(tail)[k] = IF k = n THEN f ELSE frames[k]
  BY <1>1 DEF Marked, f
<1>4. \A k \in DOMAIN frames : SameEnds(frames[k], frames[k])
  BY DEF SameEnds
<1>5. DOMAIN Marked(tail) = DOMAIN frames
  BY DEF Marked
<1> QED BY <1>2, <1>3, <1>4, <1>5, MarkedType

\* A step that leaves the graph alone, and the frames but for their positions.
LEMMA EndsCalm ==
  ASSUME TypeOK, StackShape, EndShape, outcome = "lowering", outcome' = "lowering",
         UNCHANGED <<blocks, current_block>>,
         NEW tail \in BOOLEAN, frames' = Marked(tail) \/ frames' = frames
  PROVE  EndShape'
<1>1. /\ DOMAIN frames' = DOMAIN frames
      /\ \A k \in DOMAIN frames : SameEnds(frames'[k], frames[k])
  BY EndsMarked DEF SameEnds
<1>2. Current' = Current
  BY DEF Current, Live
<1> QED BY <1>1, <1>2, EndsSteady

\* A declaration or a defer.
LEMMA EndsScope ==
  ASSUME TypeOK, StackShape, EndShape, outcome = "lowering", outcome' = "lowering",
         UNCHANGED <<blocks, current_block>>, Top.kind \in {"func", "block"},
         NEW f, f.kind = Top.kind, frames' = [frames EXCEPT ![Len(frames)] = f]
  PROVE  EndShape'
<1>1. Len(frames) \in DOMAIN frames /\ Top = frames[Len(frames)]
  BY TopType
<1>2. \A k \in DOMAIN frames : frames'[k] = IF k = Len(frames) THEN f ELSE frames[k]
  BY <1>1
<1>3. SameEnds(f, Top) /\ \A k \in DOMAIN frames : SameEnds(frames[k], frames[k])
  BY DEF SameEnds
<1>4. \A k \in DOMAIN frames : SameEnds(frames'[k], frames[k])
  BY <1>1, <1>2, <1>3
<1>5. DOMAIN frames' = DOMAIN frames /\ Current' = Current
  BY DEF Current, Live
<1> QED BY <1>4, <1>5, EndsSteady

\* A construct that opens a frame.  Only a block may do so inside an arm.
LEMMA EndsPush ==
  ASSUME TypeOK, StackShape, EndShape, outcome = "lowering", outcome' = "lowering",
         NEW tail \in BOOLEAN, NEW f, frames' = Append(Marked(tail), f),
         Ready(f, blocks', current_block'),
         \A k \in DOMAIN frames : frames[k].kind = "branch" =>
           f.kind = "block" /\ current_block' \in {NoBlock, current_block},
         Decided(blocks) \subseteq Decided(blocks'), Ids(blocks) \subseteq Ids(blocks'),
         Current \subseteq Decided(blocks') \cup Current',
         TargetsOf(blocks') \subseteq TargetsOf(blocks) \cup Decided(blocks') \cup Current'
                                                        \cup Settles(f)
  PROVE  EndShape'
<1> DEFINE n == Len(frames)
<1>1. /\ n \in Nat /\ DOMAIN frames = 1 .. n
      /\ Marked(tail) \in Seq(Frame) /\ Len(Marked(tail)) = n
  BY EndsMarked, LenProperties DEF TypeOK
<1>2. /\ DOMAIN frames' = 1 .. n + 1 /\ frames'[n + 1] = f
      /\ \A k \in 1 .. n : frames'[k] = Marked(tail)[k]
  BY <1>1
<1>3. /\ \A k \in DOMAIN frames' : k \in DOMAIN frames \/ k = n + 1
      /\ n + 1 \in DOMAIN frames' /\ \A k \in DOMAIN frames : k \in DOMAIN frames'
  BY <1>1, <1>2
<1>4. \A k \in DOMAIN frames : SameEnds(frames'[k], frames[k])
  BY <1>1, <1>2, EndsMarked
<1>5. \A k \in DOMAIN frames : /\ Ready(frames'[k], blocks', current_block')
                               /\ Settles(frames'[k]) = Settles(frames[k])
  <2> TAKE k \in DOMAIN frames
  <2>1. frames'[k].kind = frames[k].kind
    BY <1>4 DEF SameEnds
  <2> QED BY <1>4, <2>1, ReadyStill
<1>6. \A k \in DOMAIN frames' : Ready(frames'[k], blocks', current_block')
  BY <1>2, <1>3, <1>5
<1>7. /\ \A b : Awaited(b) => b \in Decided(blocks') \/ Awaited(b)'
      /\ \A b \in Current' \cup Settles(f) : Awaited(b)'
  BY <1>2, <1>3, <1>5 DEF Awaited
<1>8. FlatArms'
  <2> SUFFICES ASSUME NEW i \in DOMAIN frames', NEW j \in DOMAIN frames', i < j,
                      frames'[i].kind = "branch"
               PROVE  frames'[j].kind = "block"
    BY DEF FlatArms
  <2>1. i \in DOMAIN frames
    BY <1>1, <1>2
  <2>2. frames[i].kind = "branch"
    BY <1>4, <2>1 DEF SameEnds
  <2>3. CASE j \in DOMAIN frames
    BY <1>4, <2>1, <2>2, <2>3 DEF SameEnds, EndShape, FlatArms
  <2>4. CASE j = n + 1
    BY <1>2, <2>1, <2>2, <2>4
  <2> QED BY <1>3, <2>3, <2>4
<1> QED BY <1>6, <1>7, <1>8, EndsNext

\* A construct that returns has seen to its blocks, or they are under
\* construction now.
LEMMA EndsPop ==
  ASSUME TypeOK, StackShape, GraphShape, EndShape, outcome = "lowering", outcome' = "lowering",
         frames' = Front(frames),
         \A k \in DOMAIN frames : frames[k].kind = "branch" /\ k < Len(frames) =>
           current_block' \in {NoBlock, current_block},
         Decided(blocks) \subseteq Decided(blocks'), Ids(blocks) \subseteq Ids(blocks'),
         Current \cup Settles(Top) \subseteq Decided(blocks') \cup Current',
         TargetsOf(blocks') \subseteq TargetsOf(blocks) \cup Decided(blocks') \cup Current'
  PROVE  EndShape'
<1> DEFINE n == Len(frames)
<1>1. /\ DOMAIN frames' = 1 .. n - 1 /\ n \in Nat /\ DOMAIN frames = 1 .. n
      /\ \A k \in DOMAIN frames' : k \in DOMAIN frames /\ k < n /\ frames'[k] = frames[k]
      /\ Top = frames[n]
  BY InheritsPop, TopType, LenProperties DEF TypeOK
<1>2. \A k \in DOMAIN frames : k \in DOMAIN frames' \/ k = n
  BY <1>1
<1>3. \A k \in DOMAIN frames : SameEnds(frames[k], frames[k])
  BY DEF SameEnds
<1>4. \A k \in DOMAIN frames' : Ready(frames'[k], blocks', current_block')
  <2> TAKE k \in DOMAIN frames'
  <2>1. k \in DOMAIN frames /\ k < n /\ frames'[k] = frames[k]
    BY <1>1
  <2> QED BY <1>3, <2>1, ReadyStill
<1>5. \A b : Awaited(b) => b \in Decided(blocks') \/ Awaited(b)'
  BY <1>1, <1>2 DEF Awaited
<1>6. \A b \in Current' : Awaited(b)'
  BY DEF Awaited
<1>7. FlatArms'
  BY <1>1 DEF EndShape, FlatArms
<1> QED BY <1>4, <1>5, <1>6, <1>7, EndsNext

\* lower_ret, lower_stop, lower_skip, lower_jmp: the current block is decided.
LEMMA EndsFlow ==
  ASSUME TypeOK, "unionPropagate" \notin Features,
         StackShape, GraphShape, EndShape, outcome = "lowering", outcome' = "lowering",
         NEW tail \in BOOLEAN, frames' = Marked(tail), current_block' = NoBlock,
         NEW t \in Terminator, t # Unreachable,
         blocks' = IF Live THEN SetTerm(blocks, current_block, t) ELSE blocks,
         \A b \in t.targets : b \in Decided(blocks) \/ Awaited(b)
  PROVE  EndShape'
<1>1. /\ DOMAIN frames' = DOMAIN frames
      /\ \A k \in DOMAIN frames : SameEnds(frames'[k], frames[k])
  BY EndsMarked
<1>2. Ids(blocks') = Ids(blocks) /\ TargetsOf(blocks') \subseteq TargetsOf(blocks) \cup t.targets
  BY DecideCurrent
<1>3. Current \subseteq Decided(blocks') /\ Decided(blocks) \subseteq Decided(blocks')
  BY CurrentSettled
<1>4. \A b \in TargetsOf(blocks') : b \in TargetsOf(blocks) \cup Decided(blocks') \/ Awaited(b)
  BY <1>2, <1>3
<1> QED BY <1>1, <1>2, <1>3, <1>4, EndsSteady

\* A jump goes to the header of an open loop, which is decided, or to its exit.
LEMMA EndsJump ==
  ASSUME TypeOK, "unionPropagate" \notin Features,
         StackShape, GraphShape, EndShape, NEW tail \in BOOLEAN, NEW skip \in BOOLEAN,
         NEW label \in Labels \cup {NoLabel}, Jump(tail, skip, label)
  PROVE  EndShape'
<1> DEFINE target == TargetOf(label)  b == IF skip THEN target.header ELSE target.exit
<1>1. /\ outcome = "lowering" /\ outcome' = "lowering" /\ frames' = Marked(tail)
      /\ blocks' = IF Live THEN SetTerm(blocks, current_block, Goto(b)) ELSE blocks
      /\ current_block' = NoBlock /\ target # NoTarget
  BY DEF Jump, At, Complete
<1>2. \E i \in DOMAIN frames :
        /\ frames[i].kind = "loop"
        /\ target.header = frames[i].header /\ target.exit = frames[i].exit
  BY <1>1, JumpTarget
<1> HIDE DEF target
<1>3. PICK i \in DOMAIN frames :
        /\ frames[i].kind = "loop"
        /\ target.header = frames[i].header /\ target.exit = frames[i].exit
  BY <1>2
<1>4. frames[i] \in LoopFrame
  BY <1>3, LenProperties, ElementOfSeq, FrameFields DEF TypeOK
<1>5. b \in BlockId
  BY <1>3, <1>4 DEF LoopFrame
<1>6. b \in Decided(blocks) \/ Awaited(b)
  BY <1>1, <1>3 DEF EndShape, Ready, Awaited, Settles
<1> HIDE DEF b
<1>7. Goto(b) \in Terminator /\ Goto(b).targets = {b} /\ Goto(b) # Unreachable
  BY <1>5, TermTypes, NotUnreachable DEF Goto
<1>8. \A c \in Goto(b).targets : c \in Decided(blocks) \/ Awaited(c)
  BY <1>6, <1>7
<1> QED BY <1>1, <1>7, <1>8, EndsFlow

\* Behind a body come new blocks: what they decide is decided.
LEMMA ConcatDecides ==
  ASSUME NEW bs \in Seq(Block), NEW cs \in Seq(Block)
  PROVE  Decided(bs \o cs) = Decided(bs) \cup Decided(cs)
<1>1. ToSet(bs \o cs) = ToSet(bs) \cup ToSet(cs)
  BY ConcatElements
<1>2. \A s : Decided(s) = {b.id : b \in {c \in ToSet(s) : c.term # Unreachable}}
  BY DEF Decided, ToSet
<1> QED BY <1>1, <1>2

\* Outside the arms of a branch no frame is a branch (FlowAllowed).
LEMMA NoArms ==
  ASSUME FlowAllowed, "armFlow" \notin Features
  PROVE  \A k \in DOMAIN frames : frames[k].kind # "branch"
BY DEF FlowAllowed

\* lower_loop: the header is decided, the body is built, the exit is awaited.
LEMMA EndsLoop ==
  ASSUME TypeOK, "unionPropagate" \notin Features,
         StackShape, GraphShape, EndShape, "armFlow" \notin Features,
         NEW tail \in BOOLEAN, NEW label, NEW cond \in BOOLEAN, BeginLoop(tail, label, cond)
  PROVE  EndShape'
<1> DEFINE header == next_block  body == next_block + 1  exit == next_block + 2
           ht == IF cond THEN Switch({body, exit}) ELSE Goto(body)
           h == [id |-> header, term |-> ht]
           bs == SetTerm(blocks, current_block, Goto(header))
           cs == <<h, NewBlock(body)>>
           f == [kind |-> "loop", tail |-> TRUE, must |-> "any", depth |-> Len(scope_stack),
                 loops |-> Len(loop_stack) + 1, header |-> header, exit |-> exit, label |-> label]
<1>1. /\ outcome = "lowering" /\ outcome' = "lowering" /\ Live /\ FlowAllowed
      /\ blocks' = bs \o cs /\ frames' = Append(Marked(tail), f) /\ current_block' = body
  BY DEF BeginLoop, At
<1>2. header \in BlockId /\ body \in BlockId /\ exit \in BlockId /\ body # NoBlock
  BY DEF TypeOK, BlockId, NoBlock
<1>3. Goto(header) \in Terminator /\ ht \in Terminator /\ NewBlock(body) \in Block /\ ht # Unreachable
  BY <1>2, TermTypes, NotUnreachable
<1>4. f.kind = "loop" /\ f.header = header /\ f.exit = exit
  OBVIOUS
<1>5. Settles(f) = {exit}
  BY <1>4 DEF Settles
<1>6. h \in Block /\ h.id = header /\ h.term = ht /\ ht.targets \subseteq {body, exit}
  BY <1>2, <1>3 DEF Block, Switch, Goto
<1> HIDE DEF f, h, ht
<1>7. /\ cs \in Seq(Block) /\ DOMAIN cs = {1, 2} /\ cs[1] = h /\ cs[2] = NewBlock(body)
  BY <1>3, <1>6
<1>8. NewBlock(body).id = body /\ NewBlock(body).term = Unreachable /\ Unreachable.targets = {}
  BY DEF NewBlock, Unreachable
<1> HIDE DEF cs
<1>9. Ids(cs) = {header, body} /\ TargetsOf(cs) \subseteq {body, exit} /\ header \in Decided(cs)
  BY <1>3, <1>6, <1>7, <1>8 DEF Ids, TargetsOf, Decided
<1>10. /\ bs \in Seq(Block) /\ Ids(bs) = Ids(blocks)
       /\ TargetsOf(bs) \subseteq TargetsOf(blocks) \cup {header}
       /\ Current \subseteq Decided(bs) /\ Decided(blocks) \subseteq Decided(bs)
  <2>1. Goto(header).targets = {header} /\ Goto(header) # Unreachable
    BY NotUnreachable DEF Goto
  <2>2. bs = IF Live THEN SetTerm(blocks, current_block, Goto(header)) ELSE blocks
    BY <1>1
  <2> HIDE DEF bs
  <2> QED BY <1>1, <1>3, <2>1, <2>2, DecideCurrent, CurrentSettled
<1> HIDE DEF bs
<1>11. /\ Ids(bs \o cs) = Ids(bs) \cup Ids(cs) /\ TargetsOf(bs \o cs) = TargetsOf(bs) \cup TargetsOf(cs)
       /\ Decided(bs \o cs) = Decided(bs) \cup Decided(cs)
  BY <1>7, <1>10, ConcatBodies, ConcatDecides
<1>12. Ready(f, blocks', current_block')
  BY <1>1, <1>4, <1>9, <1>11 DEF Ready
<1>13. Current' = {body}
  BY <1>1, <1>2 DEF Current, Live
<1>14. \A k \in DOMAIN frames : frames[k].kind # "branch"
  BY <1>1, NoArms
<1> HIDE DEF header, body, exit
<1>15. /\ Decided(blocks) \subseteq Decided(blocks') /\ Ids(blocks) \subseteq Ids(blocks')
       /\ Current \subseteq Decided(blocks') \cup Current'
       /\ TargetsOf(blocks') \subseteq TargetsOf(blocks) \cup Decided(blocks') \cup Current'
                                                         \cup Settles(f)
  BY <1>1, <1>5, <1>9, <1>10, <1>11, <1>13
<1> QED BY <1>1, <1>12, <1>14, <1>15, EndsPush

\* lower_propagate: the two ways are decided, and they do not fork inside an arm.
LEMMA EndsPropagate ==
  ASSUME TypeOK, "unionPropagate" \notin Features,
         StackShape, GraphShape, EndShape, "armFlow" \notin Features,
         NEW tail \in BOOLEAN, Propagate(tail)
  PROVE  EndShape'
<1> DEFINE error == next_block  success == next_block + 1  merge == next_block + 2
           e == [id |-> error, term |-> Return]
           s == [id |-> success, term |-> Goto(merge)]
           cs == <<e, s, NewBlock(merge)>>
           t == Switch({error, success})
           bs == IF Live THEN SetTerm(blocks, current_block, t) ELSE blocks
<1>1. /\ outcome = "lowering" /\ outcome' = "lowering" /\ FlowAllowed
      /\ blocks' = bs \o cs /\ frames' = Marked(tail) /\ current_block' = merge
  BY DEF Propagate, At, Complete
<1>2. error \in BlockId /\ success \in BlockId /\ merge \in BlockId /\ merge # NoBlock
  BY DEF TypeOK, BlockId, NoBlock
<1>3. t \in Terminator /\ Goto(merge) \in Terminator /\ NewBlock(merge) \in Block /\ Return \in Terminator
  BY <1>2, TermTypes
<1>4. /\ e \in Block /\ s \in Block /\ e.id = error /\ s.id = success
      /\ e.term.targets = {} /\ s.term.targets = {merge} /\ t.targets = {error, success}
  BY <1>2, <1>3 DEF Block, Return, Goto, Switch
<1>5. e.term # Unreachable /\ s.term # Unreachable /\ t # Unreachable
  BY NotUnreachable
<1> HIDE DEF e, s
<1>6. /\ cs \in Seq(Block) /\ DOMAIN cs = {1, 2, 3}
      /\ cs[1] = e /\ cs[2] = s /\ cs[3] = NewBlock(merge)
  BY <1>3, <1>4
<1>7. NewBlock(merge).id = merge /\ NewBlock(merge).term.targets = {}
  BY DEF NewBlock, Unreachable
<1> HIDE DEF cs
<1>8. /\ TargetsOf(cs) \subseteq {merge} /\ error \in Decided(cs) /\ success \in Decided(cs)
  BY <1>4, <1>5, <1>6, <1>7 DEF TargetsOf, Decided
<1> HIDE DEF t
<1>9. /\ bs \in Seq(Block) /\ Ids(bs) = Ids(blocks)
      /\ TargetsOf(bs) \subseteq TargetsOf(blocks) \cup {error, success}
      /\ Current \subseteq Decided(bs) /\ Decided(blocks) \subseteq Decided(bs)
  BY <1>1, <1>3, <1>4, <1>5, DecideCurrent, CurrentSettled
<1> HIDE DEF bs
<1>10. /\ Ids(bs \o cs) = Ids(bs) \cup Ids(cs) /\ TargetsOf(bs \o cs) = TargetsOf(bs) \cup TargetsOf(cs)
       /\ Decided(bs \o cs) = Decided(bs) \cup Decided(cs)
  BY <1>6, <1>9, ConcatBodies, ConcatDecides
<1>11. /\ DOMAIN frames' = DOMAIN frames
       /\ \A k \in DOMAIN frames : SameEnds(frames'[k], frames[k])
  BY <1>1, EndsMarked
<1>12. Current' = {merge}
  BY <1>1, <1>2 DEF Current, Live
<1>13. \A k \in DOMAIN frames : frames[k].kind # "branch"
  BY <1>1, NoArms
<1> HIDE DEF error, success, merge
<1>14. /\ Decided(blocks) \subseteq Decided(blocks') /\ Ids(blocks) \subseteq Ids(blocks')
       /\ Current \subseteq Decided(blocks')
       /\ \A b \in TargetsOf(blocks') : b \in TargetsOf(blocks) \cup Decided(blocks') \cup Current'
  BY <1>1, <1>8, <1>9, <1>10, <1>12
<1> QED BY <1>1, <1>11, <1>13, <1>14, EndsSteady

\* lower_loop, at its end: the exit is under construction, and no branch is open
\* around a loop.
LEMMA EndsEndLoop ==
  ASSUME TypeOK, "unionPropagate" \notin Features,
         StackShape, GraphShape, EndShape, EndLoop
  PROVE  EndShape'
<1> DEFINE falls == Live /\ current_block \in Ids(blocks) /\ TermOf(blocks, current_block) = Unreachable
           bs == IF falls THEN SetTerm(blocks, current_block, Goto(Top.header)) ELSE blocks
<1>1. /\ outcome = "lowering" /\ outcome' = "lowering" /\ Top.kind = "loop"
      /\ frames' = Front(frames) /\ blocks' = Append(bs, NewBlock(Top.exit))
      /\ current_block' = Top.exit
  BY DEF EndLoop, ReturnToCaller
<1>2. /\ Top = frames[Len(frames)] /\ Len(frames) \in DOMAIN frames /\ Top \in LoopFrame
  BY <1>1, TopType, FrameFields
<1>3. Top.header \in BlockId /\ Top.exit \in BlockId
  BY <1>2 DEF LoopFrame
<1>4. blocks \in Seq(Block) /\ FirstsDecided(blocks)
  BY <1>1 DEF TypeOK, GraphShape
<1>5. /\ Goto(Top.header) \in Terminator /\ Goto(Top.header).targets = {Top.header}
      /\ Goto(Top.header) # Unreachable
  BY <1>3, TermTypes, NotUnreachable DEF Goto
<1>6. Live <=> falls
  BY <1>1, <1>4, Lookup DEF GraphShape, Building
<1>7. bs = IF Live THEN SetTerm(blocks, current_block, Goto(Top.header)) ELSE blocks
  BY <1>6
<1> HIDE DEF bs, falls
<1>8. /\ bs \in Seq(Block) /\ FirstsDecided(bs) /\ Ids(bs) = Ids(blocks)
      /\ TargetsOf(bs) \subseteq TargetsOf(blocks) \cup {Top.header}
      /\ Current \subseteq Decided(bs) /\ Decided(blocks) \subseteq Decided(bs)
  BY <1>1, <1>5, <1>7, DecideCurrent, CurrentSettled
<1>9. /\ Ids(blocks') = Ids(bs) \cup {Top.exit} /\ TargetsOf(blocks') = TargetsOf(bs)
      /\ Decided(blocks') = Decided(bs)
  BY <1>1, <1>3, <1>8, ExtendOpen
<1>10. Top.header \in Decided(blocks) /\ Settles(Top) = {Top.exit}
  BY <1>1, <1>2 DEF EndShape, Ready, Settles
<1>11. Current' = {Top.exit}
  BY <1>1, <1>3 DEF Current, Live, BlockId, NoBlock
<1>12. \A k \in DOMAIN frames : k < Len(frames) => frames[k].kind # "branch"
  BY <1>1, <1>2 DEF EndShape, FlatArms
<1>13. /\ Decided(blocks) \subseteq Decided(blocks') /\ Ids(blocks) \subseteq Ids(blocks')
       /\ Current \cup Settles(Top) \subseteq Decided(blocks') \cup Current'
       /\ TargetsOf(blocks') \subseteq TargetsOf(blocks) \cup Decided(blocks') \cup Current'
  BY <1>8, <1>9, <1>10, <1>11
<1> QED BY <1>1, <1>12, <1>13, EndsPop

\* A block leaves the graph as it is.
LEMMA EndsBlock ==
  ASSUME TypeOK, StackShape, GraphShape, EndShape, outcome = "lowering", outcome' = "lowering",
         UNCHANGED <<blocks, current_block>>, Top.kind = "block", frames' = Front(frames)
  PROVE  EndShape'
<1>1. Settles(Top) = {} /\ Current' = Current
  BY DEF Settles, Current, Live
<1> QED BY <1>1, EndsPop

\* An arm whose body has returned stays for the end of the branch, unless it is
\* linked already; the flow was in its block or has ended.
LEMMA EndsNextArm ==
  ASSUME TypeOK, StackShape, GraphShape, EndShape, NextArm
  PROVE  EndShape'
<1> DEFINE n == Len(frames)
           v == IF Top.next = 1 THEN result = "value" ELSE Top.valued
           f == [[frames[n] EXCEPT !.next = @ + 1] EXCEPT !.valued = v]
           arm == Top.arms[Top.next + 1].block
<1>1. /\ outcome = "lowering" /\ outcome' = "lowering" /\ Top.kind = "branch"
      /\ Top.next < Len(Top.arms) /\ blocks' = PushIfNew(AfterArm, arm) /\ current_block' = arm
  BY DEF NextArm
<1>2. /\ Top \in BranchFrame /\ Top = frames[n] /\ n \in DOMAIN frames /\ frames \in Seq(Frame)
      /\ Top.arms \in Seq(Arm) /\ Top.next \in 1 .. Len(Top.arms)
      /\ \A i \in 1 .. Len(Top.arms) : Top.arms[i].block \in BlockId
  BY <1>1, TopType, BranchTop DEF TypeOK
<1>3. /\ DOMAIN Top.arms = 1 .. Len(Top.arms) /\ Len(Top.arms) \in Nat
      /\ Top.next \in Nat /\ Top.next + 1 \in DOMAIN Top.arms /\ Top.next \in DOMAIN Top.arms
  BY <1>1, <1>2, LenProperties
<1>4. frames' = [frames EXCEPT ![n] = f]
  <2>1. frames' = [[frames EXCEPT ![n].next = @ + 1] EXCEPT ![n].valued = v]
    BY DEF NextArm, Valued
  <2> HIDE DEF v
  <2> QED BY <1>2, <2>1
<1>5. /\ f.kind = "branch" /\ f.next = Top.next + 1 /\ f.arms = Top.arms
      /\ f.after = Top.after /\ f.guarded = Top.guarded
  <2> HIDE DEF v
  <2> QED BY <1>1, <1>2 DEF BranchFrame
<1> HIDE DEF f, v
<1>6. arm \in BlockId /\ arm = f.arms[f.next].block
  BY <1>2, <1>3, <1>5
<1>7. /\ AfterArm \in Seq(Block) /\ FirstsDecided(AfterArm) /\ Ids(AfterArm) = Ids(blocks)
      /\ TargetsOf(AfterArm) \subseteq TargetsOf(blocks) \cup {Top.after}
      /\ Continues(blocks, AfterArm)
  BY <1>1, AfterArmGraph
<1>8. Decided(blocks) \subseteq Decided(AfterArm)
  BY <1>7, DecidedStays DEF TypeOK
<1> HIDE DEF arm
<1>9. /\ Ids(blocks') = Ids(AfterArm) \cup {arm} /\ TargetsOf(blocks') = TargetsOf(AfterArm)
      /\ Decided(blocks') = Decided(AfterArm)
  BY <1>1, <1>6, <1>7, ExtendOpen
<1>10. /\ DOMAIN frames' = DOMAIN frames
       /\ \A k \in DOMAIN frames : frames'[k] = IF k = n THEN f ELSE frames[k]
  BY <1>2, <1>4
<1>11. Settles(f) = Settles(Top) /\ Settles(Top) = {Top.after} \cup ArmBlocks(Top)
  BY <1>1, <1>5 DEF Settles, ArmBlocks
<1>12. \A k \in DOMAIN frames : Settles(frames'[k]) = Settles(frames[k])
  BY <1>2, <1>10, <1>11
<1>13. Ready(Top, blocks, current_block)
  BY <1>1, <1>2 DEF EndShape
<1>14. Current \subseteq Settles(Top)
  BY <1>1, <1>3, <1>11, <1>13 DEF Ready, Current, Live, ArmBlocks
<1>15. \A b : Awaited(b) => b \in Decided(blocks') \/ Awaited(b)'
  BY <1>2, <1>10, <1>12, <1>14 DEF Awaited
<1>16. Awaited(Top.after)
  BY <1>2, <1>11 DEF Awaited
<1>17. Ready(f, blocks', current_block')
  BY <1>3, <1>5, <1>1, <1>6, <1>7, <1>9, <1>13 DEF Ready
<1>18. ASSUME NEW k \in DOMAIN frames, k # n PROVE Ready(frames'[k], blocks', current_block')
  <2>1. SameEnds(frames[k], frames[k]) /\ frames'[k] = frames[k]
    BY <1>10, <1>18 DEF SameEnds
  <2>2. frames[k].kind # "branch"
    BY <1>2, LenProperties, <1>18, <1>1 DEF EndShape, FlatArms
  <2> QED BY <1>1, <1>7, <1>8, <1>9, <2>1, <2>2, ReadyStill
<1>19. \A k \in DOMAIN frames' : Ready(frames'[k], blocks', current_block')
  BY <1>10, <1>17, <1>18
<1>20. FlatArms'
  BY <1>1, <1>2, <1>5, <1>10 DEF EndShape, FlatArms
<1>21. \A b \in TargetsOf(blocks') : b \in TargetsOf(blocks) \/ Awaited(b)
  BY <1>7, <1>9, <1>16
<1> QED BY <1>1, <1>8, <1>9, <1>15, <1>19, <1>20, <1>21, EndsNext

\* lower_branch, at its end: every arm that is open is linked to the block after
\* the branch, which is under construction now.
LEMMA EndsEndBranch ==
  ASSUME TypeOK, StackShape, GraphShape, EndShape, EndBranch
  PROVE  EndShape'
<1>1. /\ outcome = "lowering" /\ outcome' = "lowering" /\ Top.kind = "branch"
      /\ Top.next = Len(Top.arms) /\ frames' = Front(frames)
  BY DEF EndBranch, ReturnToCaller
<1>2. /\ Top \in BranchFrame /\ Top = frames[Len(frames)] /\ Len(frames) \in DOMAIN frames
      /\ Top.arms \in Seq(Arm) /\ Top.next \in 1 .. Len(Top.arms) /\ Top.after \in BlockId
  BY <1>1, TopType, BranchTop DEF BranchFrame
<1>3. Ready(Top, blocks, current_block)
  BY <1>1, <1>2 DEF EndShape
<1>4. Top.guarded
  BY <1>1, <1>3 DEF Ready
<1>5. PICK bs \in Seq(Block) :
        /\ Ids(bs) = Ids(blocks) /\ Continues(blocks, bs)
        /\ TargetsOf(bs) \subseteq TargetsOf(blocks) \cup {Top.after}
        /\ ArmBlocks(Top) \cap Ids(blocks) \subseteq Decided(bs)
        /\ Decided(blocks') = Decided(bs) /\ TargetsOf(blocks') = TargetsOf(bs)
        /\ Ids(blocks') = Ids(blocks) \cup {Top.after, Top.unreachable}
        /\ current_block' = Top.after
  BY <1>4, EndBranchBlocks
<1>6. Decided(blocks) \subseteq Decided(blocks')
  BY <1>5, DecidedStays DEF TypeOK
<1>7. ArmBlocks(Top) \subseteq Ids(blocks)
  BY <1>1, <1>2, LenProperties, <1>3 DEF Ready, ArmBlocks
<1>8. Current \subseteq ArmBlocks(Top)
  BY <1>2, LenProperties, <1>1, <1>3 DEF Ready, Current, Live, ArmBlocks
<1>9. Current' = {Top.after}
  BY <1>2, <1>5 DEF Current, Live, BlockId, NoBlock
<1>10. \A k \in DOMAIN frames : k < Len(frames) => frames[k].kind # "branch"
  BY <1>1, <1>2 DEF EndShape, FlatArms
<1>11. Settles(Top) = {Top.after} \cup ArmBlocks(Top)
  BY <1>1 DEF Settles
<1>12. /\ Ids(blocks) \subseteq Ids(blocks')
       /\ Current \cup Settles(Top) \subseteq Decided(blocks') \cup Current'
       /\ TargetsOf(blocks') \subseteq TargetsOf(blocks) \cup Decided(blocks') \cup Current'
  BY <1>5, <1>7, <1>8, <1>9, <1>11
<1> QED BY <1>1, <1>6, <1>10, <1>12, EndsPop

\* Every decision block chooses.
LEMMA DecisionChooses ==
  ASSUME NEW n \in Nat, NEW pats \in [1 .. n -> Pattern], NEW arm, NEW first, NEW fallback,
         NEW unreachable
  PROVE  LET bs == Decision(pats, arm, first, fallback, unreachable).blocks
         IN  \A j \in DOMAIN bs : bs[j].term # Unreachable
<1> DEFINE before  == {i \in 1 .. n : \A k \in 1 .. i : pats[k] # "wild"}
           wild    == Cardinality(before) + 1
           guards  == {i \in before : pats[i] = "cond"}
           last    == Max(guards \cup {0})
           lits    == {i \in before : i > last}
           leaf    == IF wild \in 1 .. n THEN arm[wild]
                      ELSE IF last = n THEN fallback ELSE unreachable
           m       == Cardinality(guards)
           count   == m + (IF lits = {} THEN 0 ELSE 1)
           node(j) == IF j <= count THEN first + j - 1 ELSE leaf
           tests(j) == IF j > m THEN lits
                       ELSE {i \in guards : Cardinality({g \in guards : g <= i}) = j}
           goes(j) == {arm[i] : i \in tests(j)} \cup {node(j + 1)}
           bs      == Decision(pats, arm, first, fallback, unreachable).blocks
<1>0. Len(pats) = n
  OBVIOUS
<1>1. bs = [j \in 1 .. count |-> [id |-> node(j), term |-> Switch(goes(j))]]
  BY <1>0 DEF Decision
<1> HIDE DEF bs, goes, node, count
<1>2. \A j \in DOMAIN bs : bs[j].term = Switch(goes(j))
  BY <1>1
<1> QED BY <1>2, NotUnreachable DEF bs

\* Behind the last guard of a branch that has nothing but guards comes the
\* fallback.
LEMMA GuardsFallBack ==
  ASSUME NEW n \in Nat \ {0}, NEW pats \in [1 .. n -> Pattern], \A i \in 1 .. n : pats[i] = "cond",
         NEW arm, NEW first, NEW fallback, NEW unreachable
  PROVE  Decision(pats, arm, first, fallback, unreachable) =
           Decision(pats, arm, first, fallback, fallback)
<1> DEFINE before  == {i \in 1 .. n : \A k \in 1 .. i : pats[k] # "wild"}
           wild    == Cardinality(before) + 1
           guards  == {i \in before : pats[i] = "cond"}
           last    == Max(guards \cup {0})
           leaf(u) == IF wild \in 1 .. n THEN arm[wild]
                      ELSE IF last = n THEN fallback ELSE u
<1>0. Len(pats) = n
  OBVIOUS
<1>1. before = 1 .. n
  OBVIOUS
<1>2. guards = 1 .. n
  BY <1>1
<1>3. last = n
  <2>1. guards \cup {0} = 0 .. n
    BY <1>2
  <2>2. n \in 0 .. n /\ \A x \in 0 .. n : n >= x
    OBVIOUS
  <2>3. \A x \in 0 .. n : (\A y \in 0 .. n : x >= y) => x = n
    BY <2>2
  <2> HIDE DEF guards
  <2>4. Max(0 .. n) = n
    BY <2>2, <2>3 DEF Max
  <2> QED BY <2>1, <2>4
<1> HIDE DEF last
<1>4. leaf(unreachable) = leaf(fallback)
  BY <1>3
<1> HIDE DEF leaf
<1> QED BY <1>0, <1>4 DEF Decision, leaf, last

\* lower_branch, at its start: control goes from decision block to decision
\* block, to an arm, or to the block after the branch.
LEMMA EndsBranch ==
  ASSUME TypeOK, "unionPropagate" \notin Features,
         StackShape, GraphShape, EndShape,
         "match" \notin Features, "armFlow" \notin Features,
         NEW tail \in BOOLEAN, NEW size \in Nat \ {0},
         NEW pats \in [1 .. size -> Pattern], NEW ends \in [1 .. size -> {"yes", "no"}],
         BeginBranch(tail, pats, ends)
  PROVE  EndShape'
<1> DEFINE n        == Len(pats)
           after    == next_block
           arm      == [i \in 1 .. n |-> next_block + i]
           guarded  == \E i \in 1 .. n : pats[i] = "cond"
           reuse    == (\A i \in 1 .. n : ends[i] = "yes") /\ ~guarded
           unreach  == IF reuse THEN arm[n] ELSE next_block + n + 1
           first    == IF reuse THEN next_block + n + 1 ELSE next_block + n + 2
           fallback == IF reuse THEN unreach ELSE after
           decision == Decision(pats, arm, first, fallback, unreach)
           ds       == decision.blocks
           t        == Goto(decision.entry)
           bs       == SetTerm(blocks, current_block, t)
           last     == NewBlock(arm[1])
           f        == [kind |-> "branch", tail |-> TRUE, must |-> "any",
                        depth |-> Len(scope_stack), loops |-> Len(loop_stack),
                        arms |-> [i \in 1 .. n |-> [block |-> arm[i], ends |-> ends[i]]],
                        next |-> 1, after |-> after, unreachable |-> unreach,
                        guarded |-> guarded, valued |-> FALSE]
<1>1. /\ outcome = "lowering" /\ outcome' = "lowering" /\ Live /\ FlowAllowed
      /\ blocks' = bs \o ds \o <<last>> /\ current_block' = arm[1]
      /\ frames' = Append(Marked(tail), f)
      /\ (\E i \in 1 .. n : pats[i] # "cond") => "match" \in Features
  <2>1. outcome = "lowering" /\ outcome' = "lowering" /\ Live /\ FlowAllowed
    BY DEF BeginBranch, At
  <2>2. blocks' = bs \o ds \o <<last>> /\ current_block' = arm[1]
    BY DEF BeginBranch
  <2>3. frames' = Append(Marked(tail), f)
    BY DEF BeginBranch
  <2>4. (\E i \in 1 .. n : pats[i] # "cond") => "match" \in Features
    BY DEF BeginBranch
  <2> QED BY <2>1, <2>2, <2>3, <2>4
<1>2. /\ next_block \in Nat /\ n \in Nat /\ n >= 1 /\ pats \in [1 .. n -> Pattern]
  BY DEF TypeOK
<1>3. 1 \in 1 .. n /\ n \in 1 .. n /\ \A i \in 1 .. n : pats[i] = "cond"
  <2> HIDE DEF n
  <2>1. 1 \in 1 .. n /\ n \in 1 .. n
    BY <1>2
  <2>2. (\E i \in 1 .. n : pats[i] # "cond") => "match" \in Features
    BY <1>1
  <2> QED BY <2>1, <2>2
<1>4. guarded
  BY <1>1, <1>3
<1> HIDE DEF n
<1>5. /\ arm \in [1 .. n -> BlockId] /\ after \in BlockId
  BY <1>2 DEF BlockId
<1>6. fallback = after /\ ~reuse
  BY <1>4
<1>7. unreach \in BlockId /\ first \in BlockId
  <2> HIDE DEF reuse
  <2> QED BY <1>2, <1>6 DEF BlockId
<1>8. f.kind = "branch" /\ f.after = after /\ f.unreachable = unreach /\ f.next = 1
      /\ f.arms = [i \in 1 .. n |-> [block |-> arm[i], ends |-> ends[i]]] /\ f.guarded = guarded
  OBVIOUS
<1> HIDE DEF f, arm, unreach, first, guarded, fallback, after, reuse
<1>9. /\ DOMAIN f.arms = 1 .. n /\ \A i \in 1 .. n : f.arms[i].block = arm[i]
      /\ Settles(f) = {after} \cup {arm[i] : i \in 1 .. n}
  BY <1>8 DEF Settles, ArmBlocks
<1>10. decision.entry \in BlockId /\ ds \in Seq(Block)
  BY <1>2, <1>5, <1>6, <1>7, DecisionType
<1>11. Ids(ds) \subseteq Decided(ds)
  <2>1. \A j \in DOMAIN ds : ds[j].term # Unreachable
    BY <1>2, DecisionChooses
  <2> HIDE DEF ds
  <2> QED BY <2>1 DEF Ids, Decided
<1>12. \A b \in {decision.entry} \cup TargetsOf(ds) :
         b \in Ids(ds) \cup {after} \/ \E i \in 1 .. n : b = arm[i]
  <2>1. /\ n \in Nat /\ n \in Nat \ {0} /\ pats \in [1 .. n -> Pattern] /\ arm \in [1 .. n -> BlockId]
        /\ first \in BlockId /\ fallback \in BlockId /\ unreach \in BlockId
    BY <1>2, <1>5, <1>6, <1>7
  <2> HIDE DEF decision, ds
  <2> DEFINE d == Decision(pats, arm, first, fallback, fallback)
  <2>2. LeadsTo(d, arm, n, {fallback, fallback})
    BY <2>1, DecisionIds
  <2>3. decision = d
    BY <1>3, <2>1, GuardsFallBack DEF decision
  <2> QED BY <1>6, <2>2, <2>3 DEF ds, LeadsTo
<1> HIDE DEF decision, ds
<1>13. /\ last \in Block /\ last.id = arm[1] /\ last.term = Unreachable /\ last.term.targets = {}
       /\ t \in Terminator /\ t.targets = {decision.entry} /\ t # Unreachable
  BY <1>3, <1>5, <1>10, TermTypes, NotUnreachable DEF NewBlock, Unreachable, Goto
<1> HIDE DEF last, t
<1>14. /\ bs \in Seq(Block) /\ Ids(bs) = Ids(blocks)
       /\ TargetsOf(bs) \subseteq TargetsOf(blocks) \cup {decision.entry}
       /\ Current \subseteq Decided(bs) /\ Decided(blocks) \subseteq Decided(bs)
  <2>1. bs = IF Live THEN SetTerm(blocks, current_block, t) ELSE blocks
    BY <1>1
  <2> HIDE DEF bs
  <2> QED BY <1>1, <1>13, <2>1, DecideCurrent, CurrentSettled
<1> HIDE DEF bs
<1>15. /\ bs \o ds \in Seq(Block) /\ Ids(bs \o ds) = Ids(bs) \cup Ids(ds)
       /\ TargetsOf(bs \o ds) = TargetsOf(bs) \cup TargetsOf(ds)
       /\ Decided(bs \o ds) = Decided(bs) \cup Decided(ds)
  BY <1>10, <1>14, ConcatBodies, ConcatElements, ConcatDecides
<1>16. /\ <<last>> \in Seq(Block) /\ Ids(<<last>>) = {arm[1]} /\ TargetsOf(<<last>>) = {}
  <2> DEFINE one == <<last>>
  <2>1. one \in Seq(Block) /\ DOMAIN one = {1} /\ one[1] = last
    BY <1>13
  <2> HIDE DEF one
  <2>2. Ids(one) = {arm[1]} /\ TargetsOf(one) = {}
    BY <1>13, <2>1 DEF Ids, TargetsOf
  <2> QED BY <2>1, <2>2 DEF one
<1>17. /\ Ids(blocks') = Ids(blocks) \cup Ids(ds) \cup {arm[1]}
       /\ TargetsOf(blocks') \subseteq TargetsOf(blocks) \cup {decision.entry} \cup TargetsOf(ds)
       /\ Decided(bs) \cup Decided(ds) \subseteq Decided(blocks')
  <2> DEFINE front == bs \o ds
  <2>1. front \in Seq(Block) /\ blocks' = front \o <<last>>
    BY <1>1, <1>15
  <2>2. /\ Ids(front) = Ids(blocks) \cup Ids(ds) /\ TargetsOf(front) = TargetsOf(bs) \cup TargetsOf(ds)
        /\ Decided(front) = Decided(bs) \cup Decided(ds)
    BY <1>14, <1>15
  <2> HIDE DEF front
  <2>3. /\ Ids(blocks') = Ids(front) \cup Ids(<<last>>)
        /\ TargetsOf(blocks') = TargetsOf(front) \cup TargetsOf(<<last>>)
        /\ Decided(blocks') = Decided(front) \cup Decided(<<last>>)
    BY <1>16, <2>1, ConcatBodies, ConcatDecides
  <2> QED BY <1>14, <1>16, <2>2, <2>3
<1>18. Ready(f, blocks', current_block')
  <2>1. f.kind # "loop" /\ f.guarded
    BY <1>4, <1>8
  <2>2. current_block' = f.arms[f.next].block
    BY <1>1, <1>3, <1>8, <1>9
  <2>3. \A m \in 1 .. f.next : f.arms[m].block \in Ids(blocks')
    BY <1>3, <1>8, <1>9, <1>17
  <2> QED BY <2>1, <2>2, <2>3 DEF Ready
<1>19. \A k \in DOMAIN frames : frames[k].kind # "branch"
  BY <1>1, NoArms
<1>20. /\ Decided(blocks) \subseteq Decided(blocks') /\ Ids(blocks) \subseteq Ids(blocks')
       /\ Current \subseteq Decided(blocks') \cup Current'
       /\ TargetsOf(blocks') \subseteq TargetsOf(blocks) \cup Decided(blocks') \cup Current'
                                                         \cup Settles(f)
  BY <1>9, <1>11, <1>12, <1>14, <1>17
<1> QED BY <1>1, <1>18, <1>19, <1>20, EndsPush

\* lower_func, at its end: every construct has returned, and ensure_termination
\* gives the last block a return, or reports that it cannot.
LEMMA EndsEndFunc ==
  ASSUME TypeOK, "unionPropagate" \notin Features,
         StackShape, GraphShape, EndShape, EndFunc
  PROVE  EndShape'
<1> DEFINE valued == IF result \in {"void", "value"} /\ Live
                     THEN SetTerm(blocks, current_block, Return) ELSE blocks
           open   == Live /\ current_block \in Ids(blocks)
                     /\ TermOf(valued, current_block) = Unreachable
<1>1. /\ outcome = "lowering" /\ outcome' = "lowered" /\ Top.kind = "func"
      /\ blocks' = IF open /\ Top.void THEN SetTerm(valued, current_block, Return) ELSE valued
      /\ errors' = (errors \/ (open /\ ~Top.void))
  BY DEF EndFunc
<1>2. /\ Top = frames[Len(frames)] /\ DOMAIN frames = 1 .. Len(frames)
      /\ Len(frames) \in DOMAIN frames
  BY <1>1, TopType, LenProperties DEF TypeOK
<1>3. Len(frames) = 1
  BY <1>1, <1>2 DEF StackShape, FrameNesting
<1>4. \A k \in DOMAIN frames : Settles(frames[k]) = {}
  BY <1>1, <1>2, <1>3 DEF Settles
<1>5. LooseEnds(blocks) \subseteq Current
  BY <1>1, <1>4 DEF EndShape, Awaited
<1>6. /\ blocks \in Seq(Block) /\ blocks' \in Seq(Block) /\ Continues(blocks, blocks')
      /\ TargetsOf(blocks') \subseteq TargetsOf(blocks)
  <2>1. blocks \in Seq(Block)
    BY DEF TypeOK
  <2>2. blocks' \in Seq(Block)
    <3>1. Return \in Terminator
      BY TermTypes
    <3>2. valued \in Seq(Block)
      BY <2>1, <3>1, SetTermEffect
    <3> HIDE DEF valued, open
    <3> QED BY <1>1, <3>1, <3>2, SetTermEffect
  <2> QED BY <2>1, <2>2, GraphEnd
<1>7. Decided(blocks) \subseteq Decided(blocks')
  BY <1>6, DecidedStays
<1>8. ASSUME ~errors' PROVE Current \subseteq Decided(blocks')
  <2>1. CASE ~Live
    BY <2>1 DEF Current
  <2>2. CASE Live
    <3>1. /\ current_block \in Ids(blocks) /\ FirstsDecided(blocks) /\ Return \in Terminator
          /\ Return # Unreachable
      BY <1>1, <2>2, TermTypes, NotUnreachable DEF GraphShape, Building
    <3>2. valued \in Seq(Block) /\ Ids(valued) = Ids(blocks) /\ FirstsDecided(valued)
      BY <1>6, <3>1, SetTermEffect, Decide
    <3> HIDE DEF valued
    <3>3. CASE open
      BY <1>1, <1>8, <2>2, <3>1, <3>2, <3>3, Settled DEF Current
    <3>4. CASE ~open
      BY <1>1, <2>2, <3>1, <3>4, <3>2, Lookup DEF Current
    <3> QED BY <3>3, <3>4
  <2> QED BY <2>1, <2>2
<1>9. ~errors' => LooseEnds(blocks') = {}
  BY <1>5, <1>6, <1>7, <1>8 DEF LooseEnds
<1>10. FirstsDecided(blocks')
  <2>1. FirstsDecided(blocks) /\ Return \in Terminator
    BY <1>1, TermTypes DEF GraphShape
  <2>2. valued \in Seq(Block) /\ FirstsDecided(valued)
    BY <1>6, <2>1, SetTermEffect, Decide
  <2> HIDE DEF valued, open
  <2>3. FirstsDecided(SetTerm(valued, current_block, Return))
    BY <2>1, <2>2, Decide
  <2> QED BY <1>1, <2>2, <2>3
<1> QED BY <1>1, <1>9, <1>10 DEF EndShape

\* lower_func, at its start: the entry is under construction.
LEMMA EndsBegin ==
  ASSUME NEW params, NEW void, NEW exprBody, BeginFunc(params, void, exprBody)
  PROVE  EndShape'
<1> DEFINE f == [kind |-> "func", tail |-> exprBody, must |-> "any", depth |-> 0,
                 loops |-> Len(loop_stack), owned |-> [i \in 1 .. params |-> i - 1],
                 defers |-> <<>>, late |-> "no", void |-> void]
<1>1. blocks' = <<NewBlock(0)>> /\ frames' = <<f>> /\ outcome' = "lowering" /\ current_block' = 0
  BY DEF BeginFunc
<1>2. f.kind = "func"
  OBVIOUS
<1> HIDE DEF f
<1>3. DOMAIN blocks' = {1} /\ blocks'[1] = NewBlock(0) /\ DOMAIN frames' = {1} /\ frames'[1] = f
  BY <1>1
<1>4. blocks'[1].term.targets = {}
  BY <1>3 DEF NewBlock, Unreachable
<1>5. TargetsOf(blocks') = {} /\ \A k \in DOMAIN frames' : Ready(frames'[k], blocks', current_block')
  BY <1>2, <1>3, <1>4 DEF TargetsOf, Ready
<1>6. Current' = {0}
  BY <1>1 DEF Current, Live, NoBlock
<1>7. \A b \in LooseEnds(blocks') : Awaited(b)'
  BY <1>5, <1>6 DEF LooseEnds, Awaited
<1>8. FlatArms'
  BY <1>2, <1>3 DEF FlatArms
<1> QED BY <1>1, <1>5, <1>7, <1>8 DEF EndShape

\* Every step keeps the ends, in a program whose branches have conditions and
\* no control flow in their arms.
LEMMA EndsStep ==
  ASSUME TypeOK, "unionPropagate" \notin Features,
         StackShape, GraphShape, EndShape,
         "match" \notin Features, "armFlow" \notin Features, [Next]_vars
  PROVE  EndShape'
<1>1. ASSUME NEW params \in 0 .. MaxParams, NEW void \in BOOLEAN, NEW exprBody \in BOOLEAN,
             BeginFunc(params, void, exprBody)
      PROVE  EndShape'
  BY <1>1, EndsBegin
<1>2. ASSUME EndFunc PROVE EndShape'
  BY <1>2, EndsEndFunc
<1>3. ASSUME Defer PROVE EndShape'
  <2> DEFINE f == [Top EXCEPT !.defers = Append(Top.defers, next_defer),
                               !.late = IF Top.owned = <<>> THEN "no" ELSE "yes"]
  <2>1. /\ outcome = "lowering" /\ outcome' = "lowering" /\ UNCHANGED <<blocks, current_block>>
        /\ Top.kind \in {"func", "block"} /\ frames' = [frames EXCEPT ![Len(frames)] = f]
    BY <1>3 DEF Defer, At, cfg
  <2>2. Top \in Frame /\ Top = frames[Len(frames)]
    BY <2>1, TopType
  <2>3. f.kind = Top.kind
    BY <1>3, <2>1, <2>2, DeferType DEF SameShape
  <2> HIDE DEF f
  <2> QED BY <2>1, <2>3, EndsScope
<1>4. ASSUME NEW x \in Nat, Declare(x), outcome = "lowering", outcome' = "lowering",
             UNCHANGED <<blocks, current_block>>, Top.kind \in {"func", "block"}
      PROVE  EndShape'
  <2> DEFINE f == [frames[Len(frames)] EXCEPT !.owned = Append(@, x)]
  <2>1. frames' = [frames EXCEPT ![Len(frames)] = f]
    BY <1>4 DEF Declare
  <2>2. Top \in Frame /\ Top = frames[Len(frames)]
    BY <1>4, TopType
  <2>3. f.kind = Top.kind
    BY <1>4, <2>2, FrameOwns DEF SameShape
  <2> HIDE DEF f
  <2> QED BY <1>4, <2>1, <2>3, EndsScope
<1>5. ASSUME LetOwned PROVE EndShape'
  BY <1>4, <1>5 DEF LetOwned, At, TypeOK
<1>6. ASSUME NEW src \in Holders, LetMoved(src) PROVE EndShape'
  BY <1>4, <1>6 DEF LetMoved, At, TypeOK
<1>7. ASSUME NEW src \in Holders, PassOwned(src) PROVE EndShape'
  BY <1>7, EndsCalm DEF PassOwned, At
<1>8. ASSUME NEW v \in {"void", "value"}, Simple(v) PROVE EndShape'
  BY <1>8, EndsCalm DEF Simple, At, cfg, Complete
<1>9. ASSUME NEW tail \in BOOLEAN,
             \/ RetInDeadCode(tail)
             \/ LoopInDeadCode(tail)
             \/ \E label \in Labels \cup {NoLabel} : JumpNowhere(tail, label)
      PROVE  EndShape'
  BY <1>9, EndsCalm DEF RetInDeadCode, LoopInDeadCode, JumpNowhere, At, cfg, Complete
<1>10. ASSUME LeaveBlock \/ AbandonBlock PROVE EndShape'
  BY <1>10, EndsBlock DEF LeaveBlock, AbandonBlock, cfg, ReturnToCaller
<1>11. ASSUME NEW tail \in BOOLEAN, EnterBlock(tail) PROVE EndShape'
  <2> DEFINE f == [kind |-> "block", tail |-> FALSE, must |-> Expected(tail),
                   depth |-> Len(scope_stack), loops |-> Len(loop_stack),
                   owned |-> <<>>, defers |-> <<>>, late |-> "no"]
  <2>1. /\ outcome = "lowering" /\ outcome' = "lowering" /\ UNCHANGED <<blocks, current_block>>
        /\ frames' = Append(Marked(tail), f)
    BY <1>11 DEF EnterBlock, At, cfg
  <2>2. f.kind = "block"
    OBVIOUS
  <2> HIDE DEF f
  <2>3. Ready(f, blocks', current_block') /\ Current' = Current
    BY <2>1, <2>2 DEF Ready, Current, Live
  <2> QED BY <2>1, <2>2, <2>3, EndsPush
<1>12. ASSUME NEW tail \in BOOLEAN, BranchInDeadCode(tail) PROVE EndShape'
  BY <1>12 DEF BranchInDeadCode, EndShape
<1>13. ASSUME NEW tail \in BOOLEAN, Ret(tail) PROVE EndShape'
  BY <1>13, TermTypes, NotUnreachable, EndsFlow DEF Ret, At, Complete, Return
<1>14. ASSUME NEW tail \in BOOLEAN, NEW size \in 1 .. MaxArms,
              NEW pats \in [1 .. size -> Pattern], NEW ends \in [1 .. size -> {"yes", "no"}],
              BeginBranch(tail, pats, ends)
       PROVE  EndShape'
  BY LoweringAssumption, <1>14, EndsBranch
<1>15. CASE UNCHANGED vars
  BY <1>15 DEF vars, cfg, EndShape, Awaited, Current, Live, FlatArms
<1> QED
  BY <1>1, <1>2, <1>3, <1>5, <1>6, <1>7, <1>8, <1>9, <1>10, <1>11, <1>12, <1>13, <1>14, <1>15,
     EndsLoop, EndsPropagate, EndsJump, EndsEndLoop, EndsNextArm, EndsEndBranch
  DEF Next

-----------------------------------------------------------------------------
(* The end of a function that was lowered.                                 *)

\* The recursion of Reachable has a solution.
LEMMA ReachUnfolds ==
  ASSUME NEW bs \in Seq(Block), NEW entry
  PROVE  \E F : /\ F = [i \in 0 .. Len(bs) |->
                          IF i = 0 THEN {entry}
                          ELSE F[i - 1] \cup UNION {TermOf(bs, b).targets : b \in F[i - 1]}]
                /\ Reachable(bs, entry) = F[Len(bs)]
<1> DEFINE n == Len(bs)
           Step(i, near) ==
             IF i = 0 THEN {entry} ELSE near \cup UNION {TermOf(bs, b).targets : b \in near}
           Upto(k, F) == F = [i \in 0 .. k |-> F[i]] /\ \A i \in 0 .. k : F[i] = Step(i, F[i - 1])
           B == {k \in 0 .. n : \E F : Upto(k, F)}
<1>1. n \in Nat
  OBVIOUS
<1>2. 0 \in B
  <2>1. Upto(0, [i \in 0 .. 0 |-> {entry}])
    OBVIOUS
  <2> HIDE DEF Upto
  <2> QED BY <1>1, <2>1
<1>3. ASSUME NEW k \in 0 .. n - 1, k \in B PROVE k + 1 \in B
  <2>1. PICK F : Upto(k, F)
    BY <1>3
  <2> DEFINE G == [i \in 0 .. k + 1 |-> IF i = k + 1 THEN Step(k + 1, F[k]) ELSE F[i]]
  <2>2. \A i \in 0 .. k + 1 : G[i] = Step(i, G[i - 1])
    <3> TAKE i \in 0 .. k + 1
    <3> HIDE DEF Step
    <3>1. CASE i = k + 1
      BY <3>1, <1>1
    <3>2. CASE i \in 1 .. k
      <4>1. G[i - 1] = F[i - 1] /\ G[i] = F[i]
        BY <3>2, <1>1
      <4>2. i \in 0 .. k
        <5> HIDE DEF Upto, n, G
        <5> QED BY <3>2, <1>1
      <4>3. F[i] = Step(i, F[i - 1])
        <5> HIDE DEF G
        <5> QED BY <2>1, <4>2
      <4> HIDE DEF G
      <4> QED BY <4>1, <4>3
    <3>3. CASE i = 0
      BY <3>3, <1>1, <2>1 DEF Step
    <3> QED BY <3>1, <3>2, <3>3, <1>1
  <2>3. Upto(k + 1, G)
    BY <2>2
  <2> HIDE DEF Upto, G, n
  <2> QED BY <2>3, <1>1
<1> HIDE DEF B
<1>4. B = 0 .. n
  <2>1. B \in SUBSET (0 .. n)
    BY DEF B
  <2> HIDE DEF n
  <2> QED BY <1>1, <1>2, <1>3, <2>1, UpTo
<1>5. PICK F : Upto(n, F)
  <2>1. n \in B
    BY <1>1, <1>4
  <2> QED BY <2>1 DEF B
<1>6. F = [i \in 0 .. n |-> Step(i, F[i - 1])]
  <2> HIDE DEF Step, n
  <2> QED BY <1>5
<1> DEFINE H == CHOOSE H : H = [i \in 0 .. n |-> Step(i, H[i - 1])]
<1>7. H = [i \in 0 .. n |-> Step(i, H[i - 1])]
  BY <1>6
<1>8. Reachable(bs, entry) = H[n]
  BY DEF Reachable
<1> QED BY <1>7, <1>8

\* The terminator that lookup finds is one of the body's.
LEMMA FoundTargets ==
  ASSUME NEW bs \in Seq(Block), NEW b
  PROVE  TermOf(bs, b).targets \subseteq TargetsOf(bs)
<1>1. CASE b \in Ids(bs)
  BY <1>1, FirstExists DEF TermOf, TargetsOf
<1>2. CASE b \notin Ids(bs)
  BY <1>2 DEF TermOf, Unreachable
<1> QED BY <1>1, <1>2

\* What control reaches is the entry or is jumped to.
LEMMA ReachedByJump ==
  ASSUME NEW bs \in Seq(Block), NEW entry
  PROVE  Reachable(bs, entry) \subseteq {entry} \cup TargetsOf(bs)
<1> DEFINE n == Len(bs)  Near == {entry} \cup TargetsOf(bs)
<1>1. n \in Nat
  OBVIOUS
<1>2. PICK F : /\ F = [i \in 0 .. n |->
                         IF i = 0 THEN {entry}
                         ELSE F[i - 1] \cup UNION {TermOf(bs, b).targets : b \in F[i - 1]}]
               /\ Reachable(bs, entry) = F[n]
  BY ReachUnfolds
<1> DEFINE B == {k \in 0 .. n : F[k] \subseteq Near}
<1> HIDE DEF n, Near
<1>3. 0 \in B
  BY <1>1, <1>2 DEF Near
<1>4. ASSUME NEW k \in 0 .. n - 1, k \in B PROVE k + 1 \in B
  <2>1. k + 1 \in 0 .. n /\ k + 1 # 0 /\ (k + 1) - 1 = k
    BY <1>1
  <2>2. F[k + 1] = F[k] \cup UNION {TermOf(bs, b).targets : b \in F[k]}
    BY <1>2, <2>1
  <2>3. \A b : TermOf(bs, b).targets \subseteq Near
    BY FoundTargets DEF Near
  <2>4. F[k] \subseteq Near
    BY <1>4
  <2>5. F[k + 1] \subseteq Near
    BY <2>2, <2>3, <2>4
  <2> QED BY <2>1, <2>5
<1>5. B = 0 .. n
  <2>1. B \in SUBSET (0 .. n)
    OBVIOUS
  <2> HIDE DEF B
  <2> QED BY <1>1, <1>3, <1>4, <2>1, UpTo
<1>6. n \in B
  BY <1>1, <1>5
<1> QED BY <1>2, <1>6 DEF Near

\* A finished function never runs into a block that nobody decided, in programs
\* whose branches are on conditions, whose arms hold no loops, branches, jumps
\* or returns and whose `!` are on error unions: each branch, each loop and each block end rejoins what follows it.
THEOREM NothingEndsDead ==
  ASSUME Features \cap {"match", "armFlow", "unionPropagate"} = {}
  PROVE  Spec => []NoDeadEnd
<1>1. Init => EndShape
  BY DEF Init, EndShape
<1>2. TypeOK /\ StackShape /\ GraphShape /\ EndShape /\ [Next]_vars => EndShape'
  BY EndsStep
<1>3. TypeOK /\ EndShape => NoDeadEnd
  <2> SUFFICES ASSUME TypeOK, EndShape, outcome = "lowered", ~errors,
                      NEW b \in Reachable(blocks, 0)
               PROVE  TermOf(blocks, b) # Unreachable
    BY DEF NoDeadEnd
  <2>1. blocks \in Seq(Block)
    BY DEF TypeOK
  <2>2. LooseEnds(blocks) = {} /\ FirstsDecided(blocks)
    BY DEF EndShape
  <2>3. b \in {0} \cup TargetsOf(blocks)
    BY <2>1, ReachedByJump
  <2>4. b \in Decided(blocks)
    BY <2>2, <2>3 DEF LooseEnds
  <2> QED BY <2>1, <2>2, <2>4, Lookup
<1> QED BY <1>1, <1>2, <1>3, StacksNested, IdsAreReserved, PTL DEF Spec

-----------------------------------------------------------------------------
(* The lexical scopes of a stack of frames.                                *)

IsScope(f) == f.kind \in {"func", "block"}
Own(f) == IF IsScope(f) THEN 1 ELSE 0
Scopes(fs, n) == {i \in 1 .. n : IsScope(fs[i])}

\* How many scopes are open inside the first n frames, and that every frame
\* knows how many are around it.
After(fs, n) == IF n = 0 THEN 0 ELSE fs[n].depth + Own(fs[n])
Nested(fs) == \A j \in 1 .. Len(fs) : fs[j].depth = After(fs, j - 1)

Row(fs, i) ==
  [owned |-> fs[i].owned, defers |-> fs[i].defers, late |-> fs[i].late,
   loop |-> i > 1 /\ fs[i - 1].kind = "loop"]
ScopesIn(fs) ==
  [k \in 1 .. Cardinality(Scopes(fs, Len(fs))) |->
     Row(fs, CHOOSE i \in Scopes(fs, Len(fs)) : Cardinality(Scopes(fs, i)) = k)]

Scope == [owned : Seq(LocalId), defers : Seq(DeferId), late : Late, loop : BOOLEAN]

\* The refinement mapping reads the frames only (OpenScopes).
LEMMA OpenScopesRead ==
  /\ OpenScopes = ScopesIn(frames)
  /\ OpenScopes' = ScopesIn(frames')
  /\ \A n : Cardinality(ScopeFrames(n)) = Cardinality(Scopes(frames, n))
<1>1. \A n : ScopeFrames(n) = Scopes(frames, n)
  BY DEF ScopeFrames, Scopes, IsScope
<1>2. \A n : ScopeFrames(n)' = Scopes(frames', n)
  BY DEF ScopeFrames, Scopes, IsScope
<1>3. OpenScopes = ScopesIn(frames)
  BY <1>1 DEF OpenScopes, ScopesIn, ScopeAt, Row
<1>4. OpenScopes' = ScopesIn(frames')
  BY <1>2 DEF OpenScopes, ScopesIn, ScopeAt, Row
<1> QED BY <1>1, <1>3, <1>4

\* What the depths of nested frames say of the scopes around them.
LEMMA CountScopes ==
  ASSUME NEW fs \in Seq(Frame), Nested(fs), NEW n \in 0 .. Len(fs)
  PROVE  /\ After(fs, n) \in Nat
         /\ Cardinality(Scopes(fs, n)) = After(fs, n)
         /\ \A i \in Scopes(fs, n) : fs[i].depth < After(fs, n)
         /\ \A k \in 0 .. After(fs, n) - 1 : \E i \in Scopes(fs, n) : fs[i].depth = k
<1> DEFINE P(k) == /\ IsFiniteSet(Scopes(fs, k)) /\ After(fs, k) \in Nat
                   /\ Cardinality(Scopes(fs, k)) = After(fs, k)
                   /\ \A i \in Scopes(fs, k) : fs[i].depth < After(fs, k)
                   /\ \A d \in 0 .. After(fs, k) - 1 : \E i \in Scopes(fs, k) : fs[i].depth = d
           B == {k \in 0 .. Len(fs) : P(k)}
<1>1. Len(fs) \in Nat /\ DOMAIN fs = 1 .. Len(fs) /\ \A i \in 1 .. Len(fs) : fs[i] \in Frame
  BY LenProperties, ElementOfSeq
<1>2. P(0)
  <2>1. Scopes(fs, 0) = {}
    BY DEF Scopes
  <2>2. After(fs, 0) = 0
    BY DEF After
  <2>3. IsFiniteSet(Scopes(fs, 0)) /\ Cardinality(Scopes(fs, 0)) = 0
    BY <2>1, FS_EmptySet
  <2>4. \A d \in 0 .. 0 - 1 : FALSE
    OBVIOUS
  <2> QED BY <2>1, <2>2, <2>3, <2>4
<1>3. ASSUME NEW k \in 0 .. Len(fs) - 1, P(k) PROVE P(k + 1)
  <2>1. /\ k + 1 \in 1 .. Len(fs) /\ (k + 1) - 1 = k /\ k \in Nat /\ k + 1 # 0
        /\ k + 1 \notin 1 .. k /\ 1 .. k + 1 = (1 .. k) \cup {k + 1}
    BY <1>1
  <2>2. fs[k + 1].depth = After(fs, k)
    BY <2>1 DEF Nested
  <2>3. After(fs, k + 1) = After(fs, k) + Own(fs[k + 1])
    BY <2>1, <2>2 DEF After
  <2>4. CASE IsScope(fs[k + 1])
    <3>1. Scopes(fs, k + 1) = Scopes(fs, k) \cup {k + 1} /\ k + 1 \notin Scopes(fs, k)
      BY <2>1, <2>4 DEF Scopes
    <3>2. /\ IsFiniteSet(Scopes(fs, k + 1))
          /\ Cardinality(Scopes(fs, k + 1)) = Cardinality(Scopes(fs, k)) + 1
      BY <1>3, <3>1, FS_AddElement
    <3>3. After(fs, k + 1) = After(fs, k) + 1
      BY <2>3, <2>4 DEF Own
    <3>4. \A i \in Scopes(fs, k) : fs[i].depth \in Nat
      BY <1>1, <2>1, FrameFields DEF Scopes
    <3>5. \A i \in Scopes(fs, k + 1) : fs[i].depth < After(fs, k + 1)
      BY <1>3, <2>2, <3>1, <3>3, <3>4
    <3>6. \A d \in 0 .. After(fs, k + 1) - 1 : d \in 0 .. After(fs, k) - 1 \/ d = After(fs, k)
      BY <1>3, <3>3
    <3>7. \A d \in 0 .. After(fs, k + 1) - 1 : \E i \in Scopes(fs, k + 1) : fs[i].depth = d
      BY <1>3, <2>2, <3>1, <3>6
    <3> QED BY <1>3, <3>2, <3>3, <3>5, <3>7
  <2>5. CASE ~IsScope(fs[k + 1])
    <3>1. Scopes(fs, k + 1) = Scopes(fs, k)
      BY <2>1, <2>5 DEF Scopes
    <3>2. After(fs, k + 1) = After(fs, k)
      BY <1>3, <2>3, <2>5 DEF Own
    <3> QED BY <1>3, <3>1, <3>2
  <2> QED BY <2>4, <2>5
<1> HIDE DEF P
<1>4. 0 \in B /\ \A k \in 0 .. Len(fs) - 1 : k \in B => k + 1 \in B
  BY <1>1, <1>2, <1>3
<1>5. B \in SUBSET (0 .. Len(fs))
  OBVIOUS
<1>6. B = 0 .. Len(fs)
  <2> HIDE DEF B
  <2> QED BY <1>1, <1>4, <1>5, UpTo
<1> QED BY <1>6 DEF P

\* The k-th scope of nested frames is the one with k - 1 scopes around it.
LEMMA ScopesAre ==
  ASSUME NEW fs \in Seq(Frame), Nested(fs)
  PROVE  /\ ScopesIn(fs) \in Seq(Scope) /\ Len(ScopesIn(fs)) = After(fs, Len(fs))
         /\ After(fs, Len(fs)) \in Nat /\ DOMAIN ScopesIn(fs) = 1 .. After(fs, Len(fs))
         /\ \A i \in Scopes(fs, Len(fs)) :
              /\ fs[i].depth + 1 \in 1 .. After(fs, Len(fs))
              /\ ScopesIn(fs)[fs[i].depth + 1] = Row(fs, i)
         /\ \A k \in 1 .. After(fs, Len(fs)) :
              \E i \in Scopes(fs, Len(fs)) : fs[i].depth + 1 = k
<1> DEFINE n == Len(fs)  m == After(fs, n)  S == Scopes(fs, n)
           At1(k) == CHOOSE i \in S : Cardinality(Scopes(fs, i)) = k
<1>1. n \in Nat /\ DOMAIN fs = 1 .. n /\ \A i \in 1 .. n : fs[i] \in Frame
  BY LenProperties, ElementOfSeq
<1>2. /\ m \in Nat /\ Cardinality(S) = m /\ \A i \in S : fs[i].depth < m
      /\ \A k \in 0 .. m - 1 : \E i \in S : fs[i].depth = k
  <2>1. n \in 0 .. Len(fs)
    BY <1>1
  <2> HIDE DEF n
  <2> QED BY <2>1, CountScopes
<1>3. \A i \in S : i \in 1 .. n /\ fs[i].depth \in Nat /\ IsScope(fs[i])
  BY <1>1, FrameFields DEF Scopes
<1>4. \A i \in S : Cardinality(Scopes(fs, i)) = fs[i].depth + 1
  <2> TAKE i \in S
  <2>1. i \in 0 .. Len(fs) /\ i # 0
    BY <1>1, <1>3
  <2>2. Cardinality(Scopes(fs, i)) = After(fs, i)
    BY <2>1, CountScopes
  <2> QED BY <1>3, <2>1, <2>2 DEF After, Own
<1>5. \A i, j \in S : fs[i].depth = fs[j].depth => i = j
  <2>1. ASSUME NEW i \in S, NEW j \in S, i < j PROVE fs[i].depth < fs[j].depth
    <3>1. j - 1 \in 0 .. Len(fs) /\ i \in 1 .. j - 1
      BY <1>1, <1>3, <2>1
    <3>2. i \in Scopes(fs, j - 1)
      BY <1>3, <3>1 DEF Scopes
    <3>3. fs[i].depth < After(fs, j - 1)
      BY <3>1, <3>2, CountScopes
    <3>4. fs[j].depth = After(fs, j - 1)
      BY <1>3 DEF Nested
    <3> QED BY <3>3, <3>4
  <2> TAKE i, j \in S
  <2>2. i \in Nat /\ j \in Nat
    BY <1>1, <1>3
  <2>3. i < j \/ j < i \/ i = j
    BY <2>2
  <2> QED BY <1>3, <2>1, <2>3
<1> HIDE DEF n, m, S
<1>6. ScopesIn(fs) = [k \in 1 .. m |-> Row(fs, At1(k))]
  BY <1>2 DEF ScopesIn, n, m, S
<1>7. \A i \in S : fs[i].depth + 1 \in 1 .. m
  BY <1>2, <1>3
<1>8. \A k \in 1 .. m : \E i \in S : fs[i].depth + 1 = k
  <2> TAKE k \in 1 .. m
  <2>1. k - 1 \in 0 .. m - 1 /\ (k - 1) + 1 = k
    BY <1>2
  <2> QED BY <1>2, <2>1
<1>9. \A i \in S : At1(fs[i].depth + 1) = i
  <2> TAKE i \in S
  <2>1. Cardinality(Scopes(fs, i)) = fs[i].depth + 1
    BY <1>4
  <2>2. /\ At1(fs[i].depth + 1) \in S
        /\ Cardinality(Scopes(fs, At1(fs[i].depth + 1))) = fs[i].depth + 1
    BY <2>1
  <2> DEFINE j == At1(fs[i].depth + 1)
  <2>3. fs[j].depth = fs[i].depth
    <3> HIDE DEF j
    <3>1. j \in S /\ Cardinality(Scopes(fs, j)) = fs[i].depth + 1
      BY <2>2 DEF j
    <3>2. fs[j].depth + 1 = fs[i].depth + 1 /\ fs[j].depth \in Nat /\ fs[i].depth \in Nat
      BY <1>3, <1>4, <3>1
    <3> QED BY <3>2
  <2> QED BY <1>5, <2>2, <2>3
<1> HIDE DEF At1
<1>10. \A i \in S : ScopesIn(fs)[fs[i].depth + 1] = Row(fs, i)
  BY <1>6, <1>7, <1>9
<1>11. \A i \in S : Row(fs, i) \in Scope
  <2> TAKE i \in S
  <2>1. fs[i] \in FuncFrame \cup BlockFrame
    BY <1>1, <1>3, FrameFields DEF IsScope
  <2> QED BY <2>1 DEF Row, Scope, FuncFrame, BlockFrame
<1>12. \A k \in 1 .. m : ScopesIn(fs)[k] \in Scope
  BY <1>8, <1>10, <1>11
<1>13. ScopesIn(fs) \in Seq(Scope) /\ Len(ScopesIn(fs)) = m /\ DOMAIN ScopesIn(fs) = 1 .. m
  BY <1>2, <1>6, <1>12
<1> QED BY <1>2, <1>7, <1>8, <1>10, <1>13 DEF n, m, S

\* A frame on top of nested frames opens a scope or none.
LEMMA OneMore ==
  ASSUME NEW fs \in Seq(Frame), NEW f \in Frame, Nested(fs), f.depth = After(fs, Len(fs))
  PROVE  /\ Nested(Append(fs, f))
         /\ After(Append(fs, f), Len(fs) + 1) = After(fs, Len(fs)) + Own(f)
         /\ Scopes(Append(fs, f), Len(fs) + 1) =
              Scopes(fs, Len(fs)) \cup (IF IsScope(f) THEN {Len(fs) + 1} ELSE {})
         /\ IsScope(f) => ScopesIn(Append(fs, f)) =
                            Append(ScopesIn(fs), Row(Append(fs, f), Len(fs) + 1))
         /\ ~IsScope(f) => ScopesIn(Append(fs, f)) = ScopesIn(fs)
<1> DEFINE gs == Append(fs, f)  n == Len(fs)  m == After(fs, n)
<1>1. /\ n \in Nat /\ gs \in Seq(Frame) /\ Len(gs) = n + 1 /\ n + 1 # 0
      /\ \A i \in 1 .. n : gs[i] = fs[i] /\ i \in 1 .. n + 1
      /\ gs[n + 1] = f /\ 1 .. n + 1 = (1 .. n) \cup {n + 1} /\ n + 1 \notin 1 .. n
      /\ \A i \in 1 .. n : i - 1 \in 0 .. n - 1
  BY AppendElements
<1> HIDE DEF gs, n
<1>2. \A j \in 0 .. n : After(gs, j) = After(fs, j)
  <2> TAKE j \in 0 .. n
  <2>1. j = 0 \/ j \in 1 .. n
    BY <1>1
  <2> QED BY <1>1, <2>1 DEF After
<1>3. Nested(gs)
  <2>1. ASSUME NEW j \in 1 .. n PROVE gs[j].depth = After(gs, j - 1)
    BY <1>1, <1>2 DEF Nested, n
  <2>2. gs[n + 1].depth = After(gs, (n + 1) - 1)
    BY <1>1, <1>2 DEF n
  <2> QED BY <1>1, <2>1, <2>2 DEF Nested
<1>4. After(gs, n + 1) = m + Own(f)
  BY <1>1 DEF After, n
<1>5. Scopes(gs, n + 1) = Scopes(fs, n) \cup (IF IsScope(f) THEN {n + 1} ELSE {})
  BY <1>1 DEF Scopes
<1>6. \A i \in Scopes(fs, n) : gs[i].depth = fs[i].depth /\ Row(gs, i) = Row(fs, i)
  <2> TAKE i \in Scopes(fs, n)
  <2>1. i \in 1 .. n /\ gs[i] = fs[i]
    BY <1>1 DEF Scopes
  <2>2. i > 1 => gs[i - 1] = fs[i - 1]
    BY <1>1, <2>1
  <2> QED BY <2>1, <2>2 DEF Row
<1>7. /\ ScopesIn(fs) \in Seq(Scope) /\ Len(ScopesIn(fs)) = m /\ m \in Nat
      /\ DOMAIN ScopesIn(fs) = 1 .. m
      /\ \A i \in Scopes(fs, n) : /\ fs[i].depth + 1 \in 1 .. m
                                  /\ ScopesIn(fs)[fs[i].depth + 1] = Row(fs, i)
      /\ \A k \in 1 .. m : \E i \in Scopes(fs, n) : fs[i].depth + 1 = k
  BY ScopesAre DEF n
<1>8. /\ ScopesIn(gs) \in Seq(Scope) /\ Len(ScopesIn(gs)) = m + Own(f)
      /\ DOMAIN ScopesIn(gs) = 1 .. m + Own(f)
      /\ \A i \in Scopes(gs, n + 1) : ScopesIn(gs)[gs[i].depth + 1] = Row(gs, i)
  BY <1>1, <1>3, ScopesAre, <1>4
<1>9. f.depth = m
  BY DEF n
<1> HIDE DEF m
<1>10. \A k \in 1 .. m : ScopesIn(gs)[k] = ScopesIn(fs)[k]
  <2> TAKE k \in 1 .. m
  <2>1. PICK i \in Scopes(fs, n) : fs[i].depth + 1 = k
    BY <1>7
  <2>2. i \in Scopes(gs, n + 1)
    BY <1>5
  <2>3. gs[i].depth + 1 = k
    BY <1>6, <2>1
  <2>4. ScopesIn(gs)[k] = Row(gs, i) /\ ScopesIn(fs)[k] = Row(fs, i)
    BY <1>7, <1>8, <2>1, <2>2, <2>3
  <2> QED BY <1>6, <2>4
<1>11. CASE IsScope(f)
  <2>1. Own(f) = 1 /\ n + 1 \in Scopes(gs, n + 1)
    BY <1>5, <1>11 DEF Own
  <2>2. ScopesIn(gs)[m + 1] = Row(gs, n + 1)
    BY <1>1, <1>8, <1>9, <2>1
  <2>3. Row(gs, n + 1) \in Scope
    BY <1>7, <1>8, <2>1, <2>2, ElementOfSeq
  <2> DEFINE s == ScopesIn(fs)  t == ScopesIn(gs)  e == Row(gs, n + 1)  u == Append(s, e)
  <2>4. /\ u \in Seq(Scope) /\ DOMAIN u = 1 .. m + 1 /\ Len(u) = m + 1
        /\ \A k \in 1 .. m : u[k] = s[k]
        /\ u[m + 1] = e
    BY <1>7, <2>3, AppendElements
  <2>5. \A k \in 1 .. m + 1 : k \in 1 .. m \/ k = m + 1
    BY <1>7
  <2> HIDE DEF s, e, u
  <2>6. t \in Seq(Scope) /\ Len(t) = m + 1 /\ \A k \in 1 .. m + 1 : t[k] = u[k]
    BY <1>8, <1>10, <2>1, <2>2, <2>4, <2>5 DEF s, e
  <2> HIDE DEF t
  <2>7. t = u
    BY <2>4, <2>6, SeqEqual
  <2> QED BY <1>1, <1>3, <1>4, <1>5, <1>11, <2>7 DEF gs, n, m, s, t, e, u
<1>12. CASE ~IsScope(f)
  BY <1>7, <1>12, <1>8, <1>10, SeqEqual, <1>1, <1>3, <1>4, <1>5 DEF Own, gs, n, m
<1> QED BY <1>11, <1>12

\* The frames without the top one: its scope is gone, if it had one.
LEMMA OneLess ==
  ASSUME NEW fs \in Seq(Frame), fs # <<>>, Nested(fs)
  PROVE  /\ Nested(Front(fs)) /\ Front(fs) \in Seq(Frame)
         /\ IsScope(Last(fs)) => /\ ScopesIn(fs) # <<>> /\ ScopesIn(fs) \in Seq(Scope)
                                 /\ ScopesIn(Front(fs)) = Front(ScopesIn(fs))
         /\ ~IsScope(Last(fs)) => ScopesIn(Front(fs)) = ScopesIn(fs)
<1> DEFINE gs == Front(fs)  f == Last(fs)  n == Len(fs)
<1>1. /\ gs \in Seq(Frame) /\ Len(gs) = n - 1 /\ DOMAIN gs = 1 .. n - 1
      /\ \A i \in 1 .. n - 1 : gs[i] = fs[i]
      /\ n \in 1 .. n /\ f = fs[n] /\ f \in Frame
  BY FrontElements
<1>2. n \in Nat /\ n >= 1
  BY <1>1, LenProperties
<1> HIDE DEF gs, f, n
<1>3. \A j \in 0 .. n - 1 : After(gs, j) = After(fs, j)
  <2> TAKE j \in 0 .. n - 1
  <2>1. j = 0 \/ j \in 1 .. n - 1
    BY <1>2
  <2> QED BY <1>1, <2>1 DEF After
<1>4. Nested(gs)
  <2> SUFFICES ASSUME NEW j \in 1 .. n - 1 PROVE gs[j].depth = After(gs, j - 1)
    BY <1>1 DEF Nested
  <2>1. j - 1 \in 0 .. n - 1 /\ j \in 1 .. n
    BY <1>2
  <2> QED BY <1>1, <1>3, <2>1 DEF Nested, n
<1>5. f.depth = After(gs, Len(gs))
  BY <1>2, <1>1, <1>3 DEF Nested, n
<1>6. fs = Append(gs, f)
  BY Rejoined DEF gs, f
<1>7. /\ IsScope(f) => ScopesIn(fs) = Append(ScopesIn(gs), Row(fs, n))
      /\ ~IsScope(f) => ScopesIn(fs) = ScopesIn(gs)
  BY <1>1, <1>4, <1>5, OneMore, <1>2, <1>6
<1>8. ScopesIn(gs) \in Seq(Scope) /\ ScopesIn(fs) \in Seq(Scope)
  BY <1>1, <1>4, ScopesAre
<1>9. ASSUME IsScope(f) PROVE ScopesIn(fs) # <<>> /\ ScopesIn(gs) = Front(ScopesIn(fs))
  <2> DEFINE s == ScopesIn(gs)  e == Row(fs, n)  t == Append(s, e)
  <2>1. t = ScopesIn(fs) /\ t \in Seq(Scope) /\ s \in Seq(Scope)
    BY <1>7, <1>8, <1>9
  <2>2. t # <<>> /\ Len(t) = Len(s) + 1 /\ \A k \in 1 .. Len(s) : t[k] = s[k]
    BY <2>1
  <2> HIDE DEF s, t
  <2>3. /\ Front(t) \in Seq(Scope) /\ Len(Front(t)) = Len(t) - 1
        /\ \A k \in 1 .. Len(t) - 1 : Front(t)[k] = t[k]
    BY <2>1, <2>2, FrontElements
  <2>4. Len(t) - 1 = Len(s)
    BY <2>1, <2>2, LenProperties
  <2>5. Front(t) = s
    BY <2>1, <2>2, <2>3, <2>4, SeqEqual
  <2> QED BY <2>1, <2>2, <2>5 DEF s
<1> QED BY <1>1, <1>4, <1>7, <1>8, <1>9 DEF gs, f

SameScope(f, g) == f.kind = g.kind /\ f.depth = g.depth
SameContent(f, g) ==
  IsScope(g) => f.owned = g.owned /\ f.defers = g.defers /\ f.late = g.late

\* Frames that keep their kinds and depths: the scopes change where the owned
\* locals or the defers of a frame do.
LEMMA Regrown ==
  ASSUME NEW fs \in Seq(Frame), NEW gs \in Seq(Frame), Len(gs) = Len(fs), Nested(fs),
         \A i \in 1 .. Len(fs) : SameScope(gs[i], fs[i])
  PROVE  /\ Nested(gs)
         /\ \A i \in Scopes(fs, Len(fs)) : i \in Scopes(gs, Len(gs)) /\ gs[i].depth = fs[i].depth
         /\ DOMAIN ScopesIn(gs) = DOMAIN ScopesIn(fs) /\ Len(ScopesIn(gs)) = Len(ScopesIn(fs))
         /\ ScopesIn(gs) \in Seq(Scope) /\ ScopesIn(fs) \in Seq(Scope)
         /\ After(gs, Len(gs)) = After(fs, Len(fs))
         /\ \A i \in Scopes(fs, Len(fs)) :
              SameContent(gs[i], fs[i]) =>
                ScopesIn(gs)[fs[i].depth + 1] = ScopesIn(fs)[fs[i].depth + 1]
<1> DEFINE n == Len(fs)
<1>1. n \in Nat /\ Len(gs) = n
  BY LenProperties
<1> HIDE DEF n
<1>2. \A j \in 0 .. n : After(gs, j) = After(fs, j)
  <2> TAKE j \in 0 .. n
  <2>1. j = 0 \/ j \in 1 .. n
    BY <1>1
  <2>2. CASE j = 0
    BY <2>2 DEF After
  <2>3. CASE j \in 1 .. n
    BY <2>3 DEF After, Own, IsScope, SameScope, n
  <2> QED BY <2>1, <2>2, <2>3
<1>3. Nested(gs)
  <2> SUFFICES ASSUME NEW j \in 1 .. n PROVE gs[j].depth = After(gs, j - 1)
    BY <1>1 DEF Nested
  <2>1. j - 1 \in 0 .. n
    BY <1>1
  <2> QED BY <1>2, <2>1 DEF Nested, SameScope, n
<1>4. \A i \in Scopes(fs, n) : i \in Scopes(gs, n) /\ gs[i].depth = fs[i].depth
  BY DEF Scopes, SameScope, IsScope, n
<1>5. After(gs, n) = After(fs, n)
  BY <1>1, <1>2
<1>6. /\ ScopesIn(fs) \in Seq(Scope) /\ Len(ScopesIn(fs)) = After(fs, n)
      /\ DOMAIN ScopesIn(fs) = 1 .. After(fs, n)
      /\ \A i \in Scopes(fs, n) : ScopesIn(fs)[fs[i].depth + 1] = Row(fs, i)
  BY ScopesAre DEF n
<1>7. /\ ScopesIn(gs) \in Seq(Scope) /\ Len(ScopesIn(gs)) = After(gs, Len(gs))
      /\ DOMAIN ScopesIn(gs) = 1 .. After(gs, Len(gs))
      /\ \A i \in Scopes(gs, Len(gs)) : ScopesIn(gs)[gs[i].depth + 1] = Row(gs, i)
  BY <1>3, ScopesAre
<1>8. ASSUME NEW i \in Scopes(fs, n), SameContent(gs[i], fs[i]) PROVE Row(gs, i) = Row(fs, i)
  BY <1>1, <1>8 DEF Scopes, SameContent, SameScope, n, Row
<1> QED BY <1>1, <1>3, <1>4, <1>5, <1>6, <1>7, <1>8 DEF n

-----------------------------------------------------------------------------
(* The stacks of the code mirror the scopes of the frames.                 *)

\* scope_stack and defer_scopes hold what the scopes of the frames collected.
Mirrors(fs, ss, ds) ==
  /\ Nested(fs) /\ Len(ss) = After(fs, Len(fs)) /\ Len(ds) = After(fs, Len(fs))
  /\ \A i \in Scopes(fs, Len(fs)) : /\ ss[fs[i].depth + 1] = fs[i].owned
                                    /\ ds[fs[i].depth + 1] = fs[i].defers

\* Above a loop is its body, a block (lower_loop).
LoopBodies(fs) == \A i \in 1 .. Len(fs) - 1 : fs[i].kind = "loop" => fs[i + 1].kind = "block"

\* Nothing that the scopes depend on changes.
LEMMA SameScopes ==
  ASSUME NEW fs \in Seq(Frame), NEW gs \in Seq(Frame), NEW ss, NEW ds, Len(gs) = Len(fs),
         \A i \in 1 .. Len(fs) : SameScope(gs[i], fs[i]) /\ SameContent(gs[i], fs[i]),
         Mirrors(fs, ss, ds), LoopBodies(fs)
  PROVE  ScopesIn(gs) = ScopesIn(fs) /\ Mirrors(gs, ss, ds) /\ LoopBodies(gs)
<1> DEFINE n == Len(fs)
<1>1. n \in Nat /\ Len(gs) = n /\ Nested(fs)
  BY LenProperties DEF Mirrors
<1>2. /\ Nested(gs) /\ ScopesIn(gs) \in Seq(Scope) /\ ScopesIn(fs) \in Seq(Scope)
      /\ Len(ScopesIn(gs)) = Len(ScopesIn(fs)) /\ After(gs, n) = After(fs, n)
      /\ \A i \in Scopes(fs, n) :
           SameContent(gs[i], fs[i]) =>
             ScopesIn(gs)[fs[i].depth + 1] = ScopesIn(fs)[fs[i].depth + 1]
  BY <1>1, Regrown
<1>3. /\ Len(ScopesIn(fs)) = After(fs, n)
      /\ \A k \in 1 .. After(fs, n) : \E i \in Scopes(fs, n) : fs[i].depth + 1 = k
  BY <1>1, ScopesAre
<1>4. \A i \in Scopes(fs, n) : i \in 1 .. n /\ IsScope(fs[i])
  BY DEF Scopes
<1>5. Scopes(gs, n) = Scopes(fs, n)
  BY DEF Scopes, SameScope, IsScope
<1>6. ScopesIn(gs) = ScopesIn(fs)
  BY <1>2, <1>3, <1>4, SeqEqual
<1>7. Mirrors(gs, ss, ds)
  BY <1>4, <1>5, <1>1, <1>2 DEF SameScope, SameContent, Mirrors
<1>8. LoopBodies(gs)
  BY <1>1 DEF LoopBodies, SameScope
<1> QED BY <1>6, <1>7, <1>8

\* What a new innermost frame g does to the scopes and to the stacks.
Grown(fs, g, ss, ds) ==
  LET n == Len(fs)  d == Len(ss)  gs == [fs EXCEPT ![n] = g] IN
  /\ d >= 1 /\ d = Len(ds) /\ d = Len(ScopesIn(fs)) /\ d \in DOMAIN ScopesIn(fs)
  /\ ss[d] = Last(fs).owned /\ ds[d] = Last(fs).defers
  /\ ScopesIn(fs)[d] = Row(fs, n)
  /\ ScopesIn(gs) = [ScopesIn(fs) EXCEPT ![d] = Row(gs, n)]
  /\ Row(gs, n) = [owned |-> g.owned, defers |-> g.defers, late |-> g.late,
                 loop |-> Row(fs, n).loop]
  /\ Mirrors(gs, [ss EXCEPT ![d] = g.owned], [ds EXCEPT ![d] = g.defers])
  /\ LoopBodies(gs)

\* No scope is deeper than that of the innermost frame.
Deepest(fs) == \A i \in 1 .. Len(fs) - 1 : IsScope(fs[i]) => fs[i].depth < Last(fs).depth

\* A declaration or a defer: the innermost scope and its entries on the stacks grow.
LEMMA ScopeGrows ==
  ASSUME NEW fs \in Seq(Frame), fs # <<>>, NEW g \in Frame, IsScope(Last(fs)),
         SameScope(g, Last(fs)),
         NEW ss \in Seq(Seq(LocalId)), NEW ds \in Seq(Seq(DeferId)),
         Mirrors(fs, ss, ds), LoopBodies(fs),
         Deepest(fs)
  PROVE  Grown(fs, g, ss, ds)
<1> DEFINE n == Len(fs)  d == Len(ss)  gs == [fs EXCEPT ![n] = g]  f == Last(fs)
<1>1. /\ n \in Nat /\ n \in 1 .. n /\ f = fs[n] /\ f \in Frame
      /\ DOMAIN fs = 1 .. n /\ d \in Nat /\ f.depth \in Nat
      /\ DOMAIN ss = 1 .. d /\ DOMAIN ds = 1 .. Len(ds)
  BY FrontElements, LenProperties, FrameFields
<1>2. gs \in Seq(Frame) /\ Len(gs) = n /\ \A i \in 1 .. n : gs[i] = IF i = n THEN g ELSE fs[i]
  BY <1>1, ExceptType
<1>3. /\ Nested(fs) /\ d = After(fs, n) /\ Len(ds) = d
      /\ \A i \in Scopes(fs, n) : /\ ss[fs[i].depth + 1] = fs[i].owned
                                  /\ ds[fs[i].depth + 1] = fs[i].defers
  BY DEF Mirrors
<1>4. n \in Scopes(fs, n) /\ f.depth + 1 = d /\ d >= 1
  BY <1>1, <1>3 DEF Scopes, After, Own
<1> HIDE DEF n, d, gs, f
<1>5. \A i \in 1 .. n : SameScope(gs[i], fs[i])
  BY <1>1, <1>2 DEF SameScope, f
<1>6. \A i \in 1 .. n : i # n => SameContent(gs[i], fs[i])
  BY <1>2 DEF SameContent
<1>7. \A i \in Scopes(fs, n) : i \in 1 .. n /\ fs[i].depth \in Nat
                               /\ (i # n => fs[i].depth + 1 # d)
  <2> TAKE i \in Scopes(fs, n)
  <2>1. i \in 1 .. n /\ IsScope(fs[i]) /\ fs[i] \in Frame
    BY <1>1, ElementOfSeq DEF Scopes, n
  <2>2. fs[i].depth \in Nat
    BY <2>1, FrameFields
  <2>3. i # n => i \in 1 .. n - 1
    BY <1>1, <2>1
  <2>4. i # n => fs[i].depth < f.depth
    BY <2>1, <2>3 DEF n, f, Deepest
  <2> QED BY <1>1, <1>4, <2>1, <2>2, <2>4
<1>8. /\ ScopesIn(fs) \in Seq(Scope) /\ Len(ScopesIn(fs)) = d /\ DOMAIN ScopesIn(fs) = 1 .. d
      /\ \A i \in Scopes(fs, n) : /\ fs[i].depth + 1 \in 1 .. d
                                  /\ ScopesIn(fs)[fs[i].depth + 1] = Row(fs, i)
      /\ \A k \in 1 .. d : \E i \in Scopes(fs, n) : fs[i].depth + 1 = k
  BY <1>3, ScopesAre DEF n
<1>9. /\ Nested(gs) /\ After(gs, n) = d
      /\ ScopesIn(gs) \in Seq(Scope) /\ Len(ScopesIn(gs)) = d
      /\ \A i \in Scopes(fs, n) :
           SameContent(gs[i], fs[i]) =>
             ScopesIn(gs)[fs[i].depth + 1] = ScopesIn(fs)[fs[i].depth + 1]
  BY <1>2, <1>3, <1>5, <1>8, Regrown DEF n
<1>10. Scopes(gs, n) = Scopes(fs, n)
  BY <1>5 DEF Scopes, SameScope, IsScope
<1>11. ScopesIn(gs)[d] = Row(gs, n)
  <2>1. \A i \in Scopes(gs, n) : ScopesIn(gs)[gs[i].depth + 1] = Row(gs, i)
    BY <1>2, <1>9, ScopesAre
  <2>2. gs[n].depth = f.depth
    BY <1>1, <1>5 DEF SameScope
  <2> QED BY <1>4, <1>10, <2>1, <2>2
<1>12. ScopesIn(gs) = [ScopesIn(fs) EXCEPT ![d] = Row(gs, n)]
  <2> DEFINE s == ScopesIn(fs)  t == ScopesIn(gs)  e == Row(gs, n)  u == [s EXCEPT ![d] = e]
  <2>1. e \in Scope
    BY <1>4, <1>8, <1>9, <1>11, ElementOfSeq
  <2> HIDE DEF e
  <2>2. s \in Seq(Scope) /\ Len(s) = d /\ d \in 1 .. Len(s) /\ DOMAIN s = 1 .. d
    BY <1>4, <1>8
  <2>3. t \in Seq(Scope) /\ Len(t) = d /\ t[d] = e
    BY <1>9, <1>11 DEF e
  <2>4. ASSUME NEW k \in 1 .. d, k # d PROVE t[k] = s[k]
    <3>1. PICK i \in Scopes(fs, n) : fs[i].depth + 1 = k
      BY <1>8
    <3>2. i # n /\ i \in 1 .. n
      BY <1>1, <1>4, <1>7, <2>4, <3>1
    <3>3. SameContent(gs[i], fs[i])
      BY <1>6, <3>2
    <3> QED BY <1>9, <3>1, <3>3
  <2> HIDE DEF s, t
  <2>5. u \in Seq(Scope) /\ Len(u) = d /\ \A k \in 1 .. d : u[k] = IF k = d THEN e ELSE s[k]
    BY <2>1, <2>2, ExceptType
  <2> HIDE DEF u
  <2>6. t = u
    BY <2>3, <2>4, <2>5, SeqEqual
  <2> QED BY <2>6 DEF s, t, e, u
<1>13. Row(gs, n) = [owned |-> g.owned, defers |-> g.defers, late |-> g.late,
                 loop |-> Row(fs, n).loop]
  BY <1>1, <1>2, <1>5 DEF Row, SameScope
<1>14. Mirrors(gs, [ss EXCEPT ![d] = g.owned], [ds EXCEPT ![d] = g.defers])
  <2> DEFINE su == [ss EXCEPT ![d] = g.owned]  du == [ds EXCEPT ![d] = g.defers]
  <2>1. g.owned \in Seq(LocalId) /\ g.defers \in Seq(DeferId)
    BY FrameFields DEF IsScope, SameScope, FuncFrame, BlockFrame
  <2>2. d \in DOMAIN ss /\ d \in DOMAIN ds /\ DOMAIN ds = 1 .. d
    BY <1>1, <1>3, <1>4
  <2>3. Len(su) = d /\ Len(du) = d
    BY <1>3, <2>1, <2>2, ExceptType DEF d
  <2>4. \A k \in 1 .. d : /\ su[k] = IF k = d THEN g.owned ELSE ss[k]
                          /\ du[k] = IF k = d THEN g.defers ELSE ds[k]
    BY <1>1, <2>2
  <2> HIDE DEF su, du
  <2>5. \A i \in Scopes(fs, n) : su[fs[i].depth + 1] = gs[i].owned
                                 /\ du[fs[i].depth + 1] = gs[i].defers
    <3> TAKE i \in Scopes(fs, n)
    <3>1. CASE i = n
      BY <1>1, <1>2, <1>4, <1>8, <2>4, <3>1
    <3>2. CASE i # n
      BY <1>2, <1>3, <1>7, <1>8, <2>4, <3>2
    <3> QED BY <3>1, <3>2
  <2>6. \A i \in Scopes(fs, n) : gs[i].depth = fs[i].depth
    BY <1>5, <1>7 DEF SameScope
  <2>7. /\ Len(su) = After(gs, Len(gs)) /\ Len(du) = After(gs, Len(gs)) /\ Nested(gs)
        /\ \A i \in Scopes(gs, Len(gs)) : /\ su[gs[i].depth + 1] = gs[i].owned
                                           /\ du[gs[i].depth + 1] = gs[i].defers
    <3>1. Scopes(gs, Len(gs)) = Scopes(fs, n)
      BY <1>2, <1>10 DEF n
    <3>2. ASSUME NEW i \in Scopes(fs, n)
          PROVE  su[gs[i].depth + 1] = gs[i].owned /\ du[gs[i].depth + 1] = gs[i].defers
      BY <2>5, <2>6
    <3>3. Len(su) = After(gs, Len(gs)) /\ Len(du) = After(gs, Len(gs)) /\ Nested(gs)
      BY <1>2, <1>9, <1>10, <2>3
    <3> QED BY <3>1, <3>2, <3>3
  <2>8. Mirrors(gs, su, du)
    BY <2>7 DEF Mirrors
  <2> QED BY <2>8 DEF su, du
<1>15. LoopBodies(gs)
  <2>1. \A i \in 1 .. n - 1 : i \in 1 .. n /\ i + 1 \in 1 .. n
    BY <1>1
  <2> QED BY <1>2, <1>5, <2>1 DEF LoopBodies, SameScope, n
<1> QED
  BY <1>1, <1>3, <1>4, <1>8, <1>12, <1>13, <1>14, <1>15 DEF n, d, gs, f, Grown

\* A frame on top: a new, empty scope or none.
LEMMA FramePushed ==
  ASSUME NEW fs \in Seq(Frame), NEW f \in Frame, NEW ss \in Seq(Seq(LocalId)),
         NEW ds \in Seq(Seq(DeferId)), Mirrors(fs, ss, ds), LoopBodies(fs),
         f.depth = Len(ss), fs # <<>> /\ Last(fs).kind = "loop" => f.kind = "block"
  PROVE  LET n == Len(fs)  gs == Append(fs, f) IN
         /\ LoopBodies(gs)
         /\ ~IsScope(f) => ScopesIn(gs) = ScopesIn(fs) /\ Mirrors(gs, ss, ds)
         /\ IsScope(f) /\ f.owned = <<>> /\ f.defers = <<>> /\ f.late = "no" =>
              /\ Mirrors(gs, Append(ss, <<>>), Append(ds, <<>>))
              /\ ScopesIn(gs) = Append(ScopesIn(fs),
                   [owned |-> <<>>, defers |-> <<>>, late |-> "no",
                    loop |-> fs # <<>> /\ Last(fs).kind = "loop"])
<1> DEFINE n == Len(fs)  d == Len(ss)  gs == Append(fs, f)
<1>1. /\ n \in Nat /\ gs \in Seq(Frame) /\ Len(gs) = n + 1
      /\ \A i \in 1 .. n : gs[i] = fs[i]
      /\ gs[n + 1] = f
  BY AppendElements, LenProperties
<1>2. /\ Nested(fs) /\ d = After(fs, n) /\ Len(ds) = d /\ d \in Nat
      /\ DOMAIN ss = 1 .. d /\ DOMAIN ds = 1 .. d
      /\ \A i \in Scopes(fs, n) : /\ ss[fs[i].depth + 1] = fs[i].owned
                                  /\ ds[fs[i].depth + 1] = fs[i].defers
  BY LenProperties DEF Mirrors
<1>3. /\ Nested(gs) /\ After(gs, n + 1) = d + Own(f)
      /\ Scopes(gs, n + 1) = Scopes(fs, n) \cup (IF IsScope(f) THEN {n + 1} ELSE {})
      /\ IsScope(f) => ScopesIn(gs) = Append(ScopesIn(fs), Row(gs, n + 1))
      /\ ~IsScope(f) => ScopesIn(gs) = ScopesIn(fs)
  BY <1>2, OneMore
<1>4. fs # <<>> => n \in 1 .. n /\ Last(fs) = fs[n]
  BY FrontElements
<1>5. fs = <<>> => n = 0
  BY EmptySeq
<1>6. fs # <<>> => n # 0
  BY EmptySeq
<1>7. \A i \in Scopes(fs, n) : i \in 1 .. n /\ fs[i].depth + 1 \in 1 .. d
  BY <1>2, ScopesAre DEF Scopes
<1> HIDE DEF n, d, gs
<1>8. LoopBodies(gs)
  <2> SUFFICES ASSUME NEW i \in 1 .. n, gs[i].kind = "loop" PROVE gs[i + 1].kind = "block"
    BY <1>1 DEF LoopBodies
  <2>1. CASE i = n
    BY <1>1, <1>5, <2>1, <1>4
  <2>2. CASE i # n
    <3>1. i \in 1 .. n - 1 /\ i + 1 \in 1 .. n
      BY <1>1, <2>2
    <3> QED BY <1>1, <3>1 DEF LoopBodies, n
  <2> QED BY <2>1, <2>2
<1>9. ASSUME ~IsScope(f) PROVE ScopesIn(gs) = ScopesIn(fs) /\ Mirrors(gs, ss, ds)
  <2>1. After(gs, n + 1) = d /\ Scopes(gs, n + 1) = Scopes(fs, n)
    <3>1. Own(f) = 0 /\ d + 0 = d
      BY <1>2, <1>9 DEF Own
    <3>2. Scopes(gs, n + 1) = Scopes(fs, n) \cup {}
      BY <1>3, <1>9
    <3> QED BY <1>3, <3>1, <3>2
  <2> QED BY <1>1, <1>2, <1>3, <1>7, <1>9, <2>1 DEF Mirrors, d
<1>10. ASSUME IsScope(f), f.owned = <<>>, f.defers = <<>>, f.late = "no"
       PROVE  /\ Mirrors(gs, Append(ss, <<>>), Append(ds, <<>>))
              /\ ScopesIn(gs) = Append(ScopesIn(fs),
                   [owned |-> <<>>, defers |-> <<>>, late |-> "no",
                    loop |-> fs # <<>> /\ Last(fs).kind = "loop"])
  <2>1. After(gs, n + 1) = d + 1 /\ Scopes(gs, n + 1) = Scopes(fs, n) \cup {n + 1}
    BY <1>3, <1>10 DEF Own
  <2> DEFINE su == Append(ss, <<>>)  du == Append(ds, <<>>)
  <2>2. /\ Len(su) = d + 1 /\ Len(du) = d + 1
        /\ \A k \in 1 .. d : su[k] = ss[k] /\ du[k] = ds[k]
        /\ su[d + 1] = <<>> /\ du[d + 1] = <<>>
    BY <1>2, AppendElements DEF d
  <2> HIDE DEF su, du
  <2>3. ASSUME NEW i \in Scopes(gs, n + 1)
        PROVE  su[gs[i].depth + 1] = gs[i].owned /\ du[gs[i].depth + 1] = gs[i].defers
    <3>1. CASE i = n + 1
      BY <1>1, <1>10, <2>2, <3>1 DEF d
    <3>2. CASE i \in Scopes(fs, n)
      <4>1. i \in 1 .. n /\ fs[i].depth + 1 \in 1 .. d
        BY <1>7, <3>2
      <4>2. gs[i] = fs[i]
        BY <1>1, <4>1
      <4>3. /\ su[fs[i].depth + 1] = ss[fs[i].depth + 1]
            /\ du[fs[i].depth + 1] = ds[fs[i].depth + 1]
        BY <2>2, <4>1
      <4> QED BY <1>2, <3>2, <4>2, <4>3
    <3> QED BY <2>1, <3>1, <3>2
  <2>4. Mirrors(gs, su, du)
    BY <1>1, <1>3, <2>1, <2>2, <2>3 DEF Mirrors
  <2>5. Row(gs, n + 1) = [owned |-> <<>>, defers |-> <<>>, late |-> "no",
                          loop |-> fs # <<>> /\ Last(fs).kind = "loop"]
    BY <1>1, <1>4, <1>5, <1>6, <1>10 DEF Row
  <2> QED BY <1>3, <1>10, <2>4, <2>5 DEF su, du
<1> QED BY <1>8, <1>9, <1>10 DEF gs

\* The top frame goes, with its scope if it had one.
LEMMA FramePopped ==
  ASSUME NEW fs \in Seq(Frame), fs # <<>>, NEW ss \in Seq(Seq(LocalId)),
         NEW ds \in Seq(Seq(DeferId)), Mirrors(fs, ss, ds), LoopBodies(fs),
         Deepest(fs)
  PROVE  /\ LoopBodies(Front(fs))
         /\ ~IsScope(Last(fs)) => /\ ScopesIn(Front(fs)) = ScopesIn(fs)
                                  /\ Mirrors(Front(fs), ss, ds)
         /\ IsScope(Last(fs)) => /\ ScopesIn(fs) # <<>>
                                 /\ ScopesIn(Front(fs)) = Front(ScopesIn(fs))
                                 /\ Mirrors(Front(fs), Popped(ss), Popped(ds))
<1> DEFINE gs == Front(fs)  f == Last(fs)  n == Len(fs)  d == Len(ss)
<1>1. /\ gs \in Seq(Frame) /\ Len(gs) = n - 1 /\ \A i \in 1 .. n - 1 : gs[i] = fs[i]
      /\ n \in 1 .. n /\ f = fs[n] /\ f \in Frame
  BY FrontElements
<1>2. n \in Nat /\ n >= 1 /\ f.depth \in Nat
  BY <1>1, LenProperties, FrameFields
<1>3. /\ Nested(fs) /\ d = After(fs, n) /\ Len(ds) = d /\ d \in Nat
      /\ \A i \in Scopes(fs, n) : /\ ss[fs[i].depth + 1] = fs[i].owned
                                  /\ ds[fs[i].depth + 1] = fs[i].defers
  BY LenProperties DEF Mirrors
<1>4. /\ Nested(gs)
      /\ IsScope(f) => ScopesIn(fs) # <<>> /\ ScopesIn(gs) = Front(ScopesIn(fs))
      /\ ~IsScope(f) => ScopesIn(gs) = ScopesIn(fs)
  BY <1>3, OneLess
<1>5. d = f.depth + Own(f)
  BY <1>1, <1>2, <1>3 DEF After
<1>6. After(gs, n - 1) = f.depth
  <2>1. f.depth = After(fs, n - 1)
    BY <1>1, <1>3 DEF Nested
  <2>2. n - 1 # 0 => n - 1 \in 1 .. n - 1
    <3> HIDE DEF n
    <3> QED BY <1>2
  <2> QED BY <1>1, <2>1, <2>2 DEF After
<1> HIDE DEF gs, f, n, d
<1>7. /\ Scopes(gs, n - 1) \subseteq Scopes(fs, n)
      /\ \A i \in Scopes(gs, n - 1) : /\ i \in 1 .. n - 1 /\ gs[i] = fs[i] /\ IsScope(fs[i])
                                      /\ fs[i].depth < f.depth /\ fs[i].depth \in Nat
  <2>1. \A i \in 1 .. n - 1 : i \in 1 .. n
    BY <1>2
  <2>2. \A i \in 1 .. n : fs[i] \in Frame
    BY LenProperties, ElementOfSeq DEF n
  <2> QED BY <1>1, <2>1, <2>2, FrameFields DEF Scopes, f, n, Deepest
<1>8. LoopBodies(gs)
  <2>1. \A i \in 1 .. (n - 1) - 1 : i \in 1 .. n - 1 /\ i + 1 \in 1 .. n - 1
    BY <1>2
  <2> QED BY <1>1, <2>1 DEF LoopBodies, n
<1>9. ASSUME ~IsScope(f) PROVE Mirrors(gs, ss, ds)
  <2>1. d = f.depth
    BY <1>2, <1>5, <1>9 DEF Own
  <2> QED BY <1>1, <1>3, <1>4, <1>6, <1>7, <2>1 DEF Mirrors, d
<1>10. ASSUME IsScope(f) PROVE Mirrors(gs, Popped(ss), Popped(ds))
  <2>1. d = f.depth + 1
    BY <1>2, <1>5, <1>10 DEF Own
  <2>2. ss # <<>> /\ ds # <<>>
    BY <1>2, <1>3, <2>1, EmptySeq DEF d
  <2> DEFINE su == Popped(ss)  du == Popped(ds)
  <2>3. /\ Len(su) = d - 1 /\ Len(du) = d - 1
        /\ \A k \in 1 .. d - 1 : su[k] = ss[k] /\ du[k] = ds[k]
    BY <1>3, <2>2, FrontElements DEF Popped, d
  <2> HIDE DEF su, du
  <2>4. d - 1 = f.depth
    BY <1>2, <2>1
  <2>5. \A i \in Scopes(gs, n - 1) : fs[i].depth + 1 \in 1 .. d - 1
    BY <1>2, <1>7, <2>4
  <2>6. \A i \in Scopes(gs, n - 1) : su[gs[i].depth + 1] = gs[i].owned
                                     /\ du[gs[i].depth + 1] = gs[i].defers
    BY <1>3, <1>7, <2>3, <2>5, ZenonT(40)
  <2> QED BY <1>1, <1>4, <1>6, <2>3, <2>4, <2>6 DEF Mirrors, su, du
<1> QED BY <1>4, <1>8, <1>9, <1>10 DEF gs, f

-----------------------------------------------------------------------------
(* The inductive invariant.                                                *)

\* The programs in which a return is in the function's own scope, a jump leaves
\* the body of its loop alone, no owned value changes hands, every block that
\* ends in an expression has a value, a scope's defers come before its owned locals,
\* and no error is propagated.
OneScopeAtATime ==
  Features \cap {"move", "pass", "deepRet", "deepJump", "bareTail", "lateDefer", "propagate"} = {}

\* The stacks of the code are the scopes the program opened; locals and defers
\* are numbered within what a function of MaxStmts statements can declare.
ScopeShape ==
  /\ moved_locals = {} /\ taken = {}
  /\ outcome \in {"idle", "lowered"} => frames = <<>>
  /\ outcome = "lowering" =>
       /\ Mirrors(frames, scope_stack, defer_scopes) /\ LoopBodies(frames)
       /\ next_local + 2 * fuel <= MaxParams + 2 * MaxStmts
       /\ next_defer + fuel <= MaxStmts

\* The scopes are empty before the first function.
LEMMA ScopesAtFirst ==
  ASSUME Init
  PROVE  ScopeShape /\ Promise!Init
<1>1. frames = <<>> /\ outcome = "idle" /\ moved_locals = {} /\ taken = {}
  BY DEF Init
<1>2. ScopeShape
  BY <1>1 DEF ScopeShape
<1>3. OpenScopes = <<>>
  <2>1. frames \in Seq(Frame) /\ Nested(frames) /\ After(frames, Len(frames)) = 0
    BY <1>1, EmptySeq DEF Nested, After
  <2>2. ScopesIn(frames) \in Seq(Scope) /\ Len(ScopesIn(frames)) = 0
    BY <2>1, ScopesAre
  <2> QED BY <2>2, OpenScopesRead, EmptySeq
<1>4. Promise!Init
  BY <1>1, <1>3 DEF Init, Promise!Init
<1> QED BY <1>2, <1>4

\* What the invariant says while a function is lowered.
LEMMA Lowered ==
  ASSUME TypeOK, StackShape, ScopeShape, outcome = "lowering"
  PROVE  /\ frames \in Seq(Frame) /\ frames # <<>> /\ Top = Last(frames) /\ Top \in Frame
         /\ scope_stack \in Seq(Seq(LocalId)) /\ defer_scopes \in Seq(Seq(DeferId))
         /\ Mirrors(frames, scope_stack, defer_scopes) /\ LoopBodies(frames)
         /\ Deepest(frames)
         /\ Len(scope_stack) \in Nat /\ Len(scope_stack) >= 1
         /\ OpenScopes = ScopesIn(frames) /\ OpenScopes \in Seq(Scope)
         /\ Len(OpenScopes) = Len(scope_stack) /\ OpenScopes # <<>>
         /\ moved_locals = {} /\ taken = {}
<1>1. /\ frames \in Seq(Frame) /\ frames # <<>> /\ Top = Last(frames) /\ Top \in Frame
      /\ scope_stack \in Seq(Seq(LocalId)) /\ defer_scopes \in Seq(Seq(DeferId))
  BY TopType DEF TypeOK, Top
<1>2. /\ Mirrors(frames, scope_stack, defer_scopes) /\ LoopBodies(frames)
      /\ moved_locals = {} /\ taken = {}
  BY DEF ScopeShape
<1>3. Deepest(frames)
  BY Nesting DEF Top, FrameNesting, IsScope, Deepest
<1>4. Len(scope_stack) \in Nat /\ Len(scope_stack) >= 1
  BY Nesting
<1>5. /\ OpenScopes = ScopesIn(frames) /\ ScopesIn(frames) \in Seq(Scope)
      /\ Len(ScopesIn(frames)) = Len(scope_stack)
  BY <1>1, <1>2, ScopesAre, OpenScopesRead DEF Mirrors
<1>6. OpenScopes # <<>>
  BY <1>4, <1>5, EmptySeq
<1> QED BY <1>1, <1>2, <1>3, <1>4, <1>5, <1>6

\* Marking the top frame leaves the scopes as they are.
LEMMA MarkedScopes ==
  ASSUME TypeOK, StackShape, ScopeShape, outcome = "lowering", NEW tail \in BOOLEAN
  PROVE  /\ Marked(tail) \in Seq(Frame) /\ Marked(tail) # <<>>
         /\ Len(Marked(tail)) = Len(frames) /\ Last(Marked(tail)).kind = Top.kind
         /\ ScopesIn(Marked(tail)) = OpenScopes
         /\ Mirrors(Marked(tail), scope_stack, defer_scopes) /\ LoopBodies(Marked(tail))
<1> DEFINE n == Len(frames)  f == [frames[n] EXCEPT !.tail = tail]  gs == Marked(tail)
<1>1. /\ frames \in Seq(Frame) /\ n \in DOMAIN frames /\ frames[n] \in Frame /\ Top = frames[n]
      /\ DOMAIN frames = 1 .. n
  BY TopType, LenProperties DEF TypeOK
<1>2. gs \in Seq(Frame) /\ Len(gs) = n /\ \A i \in DOMAIN frames : SameShape(gs[i], frames[i])
  BY MarkedType
<1>3. gs = [frames EXCEPT ![n] = f]
  BY DEF Marked
<1>4. SameContent(f, frames[n])
  <2>1. ASSUME IsScope(frames[n]) PROVE  /\ f.owned = frames[n].owned /\ f.defers = frames[n].defers
               /\ f.late = frames[n].late
    BY <1>1, <2>1, FrameFields DEF IsScope, FuncFrame, BlockFrame
  <2> QED BY <2>1 DEF SameContent
<1> HIDE DEF f
<1>5. \A i \in 1 .. n : SameContent(gs[i], frames[i])
  BY <1>1, <1>3, <1>4 DEF SameContent
<1>6. \A i \in 1 .. n : SameScope(gs[i], frames[i])
  BY <1>1, <1>2 DEF SameScope, SameShape
<1> HIDE DEF gs
<1>7. /\ ScopesIn(gs) = ScopesIn(frames)
      /\ Mirrors(gs, scope_stack, defer_scopes) /\ LoopBodies(gs)
  BY <1>1, <1>2, <1>5, <1>6, Lowered, SameScopes DEF n
<1>8. gs # <<>> /\ Last(gs).kind = Top.kind
  BY <1>1, <1>2, EmptySeq, <1>6 DEF Last, SameScope
<1> QED BY <1>2, <1>7, <1>8, Lowered DEF gs

\* The invariant after a step within a function.
LEMMA ScopeShapeAfter ==
  ASSUME outcome' = "lowering", moved_locals' = {}, taken' = {},
         Mirrors(frames', scope_stack', defer_scopes'), LoopBodies(frames'),
         next_local' + 2 * fuel' <= MaxParams + 2 * MaxStmts,
         next_defer' + fuel' <= MaxStmts
  PROVE  ScopeShape'
BY DEF ScopeShape, Mirrors, LoopBodies, Nested, After, Own, IsScope, Scopes

\* What spends statements and declares nothing keeps the numbers in bounds.
LEMMA WithinBounds ==
  ASSUME TypeOK, ScopeShape, outcome = "lowering", UNCHANGED <<next_local, next_defer>>,
         (\E tail \in BOOLEAN : Leaf(tail)) \/ UNCHANGED fuel
  PROVE  /\ next_local' + 2 * fuel' <= MaxParams + 2 * MaxStmts
         /\ next_defer' + fuel' <= MaxStmts
<1>1. /\ next_local + 2 * fuel <= MaxParams + 2 * MaxStmts /\ next_defer + fuel <= MaxStmts
      /\ fuel \in Nat /\ next_local \in Nat /\ next_defer \in Nat
      /\ MaxParams \in Nat /\ MaxStmts \in Nat
  BY LoweringAssumption DEF ScopeShape, TypeOK
<1>2. fuel' = fuel \/ fuel' = fuel - 1
  BY DEF Leaf, Statement
<1>3. next_local' = next_local /\ next_defer' = next_defer
  OBVIOUS
<1> QED BY <1>1, <1>2, <1>3

-----------------------------------------------------------------------------
(* What is emitted is what is promised.                                    *)

\* One scope's clean-up in the code and in the promise.
LEMMA SameCleanup ==
  ASSUME moved_locals = taken, NEW s, s.late = "no"
  PROVE  CleanupItems(s.owned, s.defers) = Promise!ScopeCleanup(s)
<1>1. \A owned, gone : Drops(owned, gone) = Promise!Drops(owned, gone)
  BY DEF Drops, Promise!Drops
<1> QED BY <1>1 DEF CleanupItems, Promise!ScopeCleanup, Reverse, Promise!Reverse

\* The clean-up that is due on the way out of the innermost scope alone.
LEMMA InnermostCleanup ==
  ASSUME TypeOK, StackShape, ScopeShape, OneScopeAtATime, outcome = "lowering"
  PROVE  LET d == Len(scope_stack) IN
         /\ Promise!CleanupFrom(d) = CleanupItems(scope_stack[d], defer_scopes[d])
         /\ LastScope(scope_stack) = scope_stack[d]
         /\ LastScope(defer_scopes) = defer_scopes[d]
<1> DEFINE d == Len(scope_stack)  s == OpenScopes[d]
<1>1. /\ d \in Nat /\ d >= 1 /\ Len(OpenScopes) = d /\ moved_locals = taken
      /\ Len(defer_scopes) = d /\ OpenScopes = ScopesIn(frames)
      /\ frames \in Seq(Frame) /\ Mirrors(frames, scope_stack, defer_scopes)
  BY Lowered DEF Mirrors
<1> HIDE DEF d
<1>2. s.owned = scope_stack[d] /\ s.defers = defer_scopes[d] /\ s.late = "no"
  <2>1. /\ d \in 1 .. After(frames, Len(frames))
        /\ \A i \in Scopes(frames, Len(frames)) :
             /\ scope_stack[frames[i].depth + 1] = frames[i].owned
             /\ defer_scopes[frames[i].depth + 1] = frames[i].defers
    BY <1>1 DEF Mirrors, d
  <2>2. PICK i \in Scopes(frames, Len(frames)) : frames[i].depth + 1 = d
    BY <1>1, <2>1, ScopesAre DEF Mirrors
  <2>3. ScopesIn(frames)[d] = Row(frames, i)
    BY <1>1, <2>2, ScopesAre DEF Mirrors
  <2>4. s \in Scope
    BY <1>1, Lowered, ElementOfSeq, LenProperties
  <2>5. s.late = "no"
    BY <2>4 DEF Scope, Late, OneScopeAtATime
  <2> QED BY <1>1, <2>1, <2>2, <2>3, <2>5 DEF Row
<1> HIDE DEF s
<1>3. Promise!CleanupFrom(d) = FlattenSeq([i \in 1 .. 1 |-> Promise!ScopeCleanup(s)])
  <2> DEFINE c == Promise!ScopeCleanup(s)  k == Len(OpenScopes)
             g == [i \in 1 .. (k - d + 1) |-> Promise!ScopeCleanup(OpenScopes[k - i + 1])]
  <2>1. Promise!CleanupFrom(d) = Promise!FlattenSeq(g)
    BY DEF Promise!CleanupFrom
  <2>2. k - d + 1 = 1 /\ \A i \in 1 .. 1 : k - i + 1 = d
    BY <1>1
  <2>3. g = [i \in 1 .. 1 |-> c]
    BY <2>2 DEF s
  <2> HIDE DEF g, c
  <2>4. Promise!FlattenSeq(g) = FlattenSeq(g)
    BY DEF FlattenSeq, Promise!FlattenSeq
  <2> QED BY <2>1, <2>3, <2>4 DEF c
<1>4. Promise!CleanupFrom(d) = CleanupItems(scope_stack[d], defer_scopes[d])
  BY <1>1, <1>2, <1>3, FlattenOne, SameCleanup
<1>5. LastScope(scope_stack) = scope_stack[d] /\ LastScope(defer_scopes) = defer_scopes[d]
  BY <1>1, EmptySeq DEF d, LastScope, Last
<1> QED BY <1>4, <1>5 DEF d

-----------------------------------------------------------------------------
(* One step of the lowering is one step of the promise, or none.           *)

KeepsPromise == ScopeShape' /\ [Promise!Next]_(Promise!vars)

\* A step that neither opens nor closes a scope and leaves none.
LEMMA Quiet ==
  ASSUME TypeOK, StackShape, ScopeShape, outcome = "lowering", outcome' = "lowering",
         UNCHANGED <<scope_stack, defer_scopes, moved_locals, taken, event>>,
         ScopesIn(frames') = OpenScopes,
         Mirrors(frames', scope_stack, defer_scopes), LoopBodies(frames'),
         next_local' + 2 * fuel' <= MaxParams + 2 * MaxStmts,
         next_defer' + fuel' <= MaxStmts
  PROVE  KeepsPromise
<1>1. moved_locals' = {} /\ taken' = {}
  BY DEF ScopeShape
<1>2. ScopeShape'
  BY <1>1, ScopeShapeAfter
<1>3. OpenScopes' = OpenScopes
  BY OpenScopesRead
<1> QED BY <1>2, <1>3 DEF KeepsPromise, Promise!vars

\* A leaf of the descent that emits no clean-up.
LEMMA QuietLeaf ==
  ASSUME TypeOK, StackShape, ScopeShape, outcome = "lowering", outcome' = "lowering",
         NEW tail \in BOOLEAN, frames' = Marked(tail),
         UNCHANGED <<scope_stack, defer_scopes, moved_locals, taken, event>>,
         UNCHANGED <<next_local, next_defer>>, Leaf(tail) \/ Statement \/ UNCHANGED fuel
  PROVE  KeepsPromise
<1>1. (\E t \in BOOLEAN : Leaf(t)) \/ UNCHANGED fuel
  BY DEF Leaf
<1>2. /\ next_local' + 2 * fuel' <= MaxParams + 2 * MaxStmts
      /\ next_defer' + fuel' <= MaxStmts
  BY <1>1, WithinBounds
<1>3. /\ ScopesIn(frames') = OpenScopes
      /\ Mirrors(frames', scope_stack, defer_scopes) /\ LoopBodies(frames')
  BY MarkedScopes
<1> QED BY <1>2, <1>3, Quiet

\* A loop or a branch begins: a frame, but no scope.
LEMMA QuietPush ==
  ASSUME TypeOK, StackShape, ScopeShape, outcome = "lowering", outcome' = "lowering",
         NEW tail \in BOOLEAN, NEW f \in Frame, frames' = Append(Marked(tail), f),
         f.kind \in {"loop", "branch"}, f.depth = Len(scope_stack), Top.kind # "loop", Statement,
         UNCHANGED <<scope_stack, defer_scopes, moved_locals, taken, event>>,
         UNCHANGED <<next_local, next_defer>>
  PROVE  KeepsPromise
<1>1. Leaf(FALSE)
  BY DEF Leaf
<1>2. /\ next_local' + 2 * fuel' <= MaxParams + 2 * MaxStmts
      /\ next_defer' + fuel' <= MaxStmts
  BY <1>1, WithinBounds
<1> DEFINE gs == Marked(tail)
<1>3. /\ gs \in Seq(Frame) /\ gs # <<>> /\ Last(gs).kind # "loop" /\ ScopesIn(gs) = OpenScopes
      /\ Mirrors(gs, scope_stack, defer_scopes) /\ LoopBodies(gs)
      /\ scope_stack \in Seq(Seq(LocalId)) /\ defer_scopes \in Seq(Seq(DeferId))
  BY MarkedScopes, Lowered
<1> HIDE DEF gs
<1>4. ~IsScope(f)
  BY DEF IsScope
<1>5. /\ ScopesIn(Append(gs, f)) = ScopesIn(gs) /\ LoopBodies(Append(gs, f))
      /\ Mirrors(Append(gs, f), scope_stack, defer_scopes)
  BY <1>3, <1>4, FramePushed
<1>6. frames' = Append(gs, f)
  BY DEF gs
<1> QED BY <1>2, <1>3, <1>5, <1>6, Quiet

\* A loop or a branch ends: its frame held no scope.
LEMMA QuietPop ==
  ASSUME TypeOK, StackShape, ScopeShape, outcome = "lowering", outcome' = "lowering",
         frames' = Front(frames), Top.kind \in {"loop", "branch"},
         UNCHANGED <<scope_stack, defer_scopes, moved_locals, taken, event>>,
         UNCHANGED <<next_local, next_defer, fuel>>
  PROVE  KeepsPromise
<1>1. /\ next_local' + 2 * fuel' <= MaxParams + 2 * MaxStmts
      /\ next_defer' + fuel' <= MaxStmts
  BY WithinBounds
<1>2. ~IsScope(Last(frames))
  BY Lowered DEF IsScope
<1>3. /\ ScopesIn(Front(frames)) = ScopesIn(frames) /\ LoopBodies(Front(frames))
      /\ Mirrors(Front(frames), scope_stack, defer_scopes)
  BY <1>2, Lowered, FramePopped
<1> QED BY <1>1, <1>3, Lowered, Quiet

\* The end of a block (exit_scope): the promise's Leave.
LEMMA BlockLeaves ==
  ASSUME TypeOK, StackShape, ScopeShape, OneScopeAtATime, LeaveBlock
  PROVE  KeepsPromise
<1> DEFINE d == Len(scope_stack)
           items == CleanupItems(LastScope(scope_stack), LastScope(defer_scopes))
<1>1. /\ outcome = "lowering" /\ outcome' = "lowering" /\ Top.kind = "block"
      /\ frames' = Front(frames)
      /\ scope_stack' = Popped(scope_stack) /\ defer_scopes' = Popped(defer_scopes)
      /\ UNCHANGED <<moved_locals, taken, next_local, next_defer, fuel>>
      /\ Record("end", items, Len(frames))
  BY DEF LeaveBlock, ReturnToCaller, owners, source
<1>2. IsScope(Last(frames))
  BY <1>1, Lowered DEF IsScope
<1>3. /\ ScopesIn(frames') = Front(OpenScopes) /\ LoopBodies(frames')
      /\ Mirrors(frames', scope_stack', defer_scopes')
  BY <1>1, <1>2, Lowered, FramePopped
<1>4. /\ next_local' + 2 * fuel' <= MaxParams + 2 * MaxStmts
      /\ next_defer' + fuel' <= MaxStmts
  BY <1>1, WithinBounds
<1>5. ScopeShape'
  BY <1>1, <1>3, <1>4, Lowered, ScopeShapeAfter
<1>6. OpenScopes' = Front(OpenScopes) /\ taken' = taken /\ OpenScopes # <<>>
  BY <1>1, <1>3, OpenScopesRead, Lowered
<1>7. Promise!CleanupFrom(d) = items /\ Len(OpenScopes) = d
  BY <1>1, InnermostCleanup, Lowered
<1>8. Cardinality(ScopeFrames(Len(frames))) = d
  BY <1>1, Nesting, Lowered, CountScopes, OpenScopesRead DEF Mirrors
<1> HIDE DEF d, items
<1>9. CASE Live
  BY <1>1, <1>8, <1>9, <1>6, <1>7, <1>5 DEF Record, Promise!Leave, Promise!Exit, Front, Promise!Front,
     KeepsPromise, Promise!Next
<1>10. CASE ~Live
  BY <1>1, <1>10, <1>6, <1>5 DEF Record, Promise!LeaveUnreached, Front, Promise!Front, KeepsPromise,
     Promise!Next
<1> QED BY <1>9, <1>10

\* The end of a function: its scope is the last one.
LEMMA FunctionLeaves ==
  ASSUME TypeOK, StackShape, ScopeShape, OneScopeAtATime, EndFunc
  PROVE  KeepsPromise
<1> DEFINE d == Len(scope_stack)
           items == CleanupItems(LastScope(scope_stack), LastScope(defer_scopes))
<1>1. /\ outcome = "lowering" /\ outcome' = "lowered" /\ Top.kind = "func"
      /\ frames' = <<>> /\ UNCHANGED <<moved_locals, taken>>
      /\ Record("end", items, 1)
  BY DEF EndFunc, owners
<1>2. ScopeShape'
  BY <1>1, Lowered DEF ScopeShape
<1>3. Len(frames) = 1
  BY <1>1, Nesting DEF FrameNesting
<1>4. Front(frames) = <<>>
  BY <1>1, <1>3, Lowered, FrontElements, EmptySeq
<1>5. IsScope(Last(frames))
  BY <1>1, Lowered DEF IsScope
<1>6. ScopesIn(frames') = Front(OpenScopes)
  BY <1>1, <1>4, <1>5, Lowered, FramePopped
<1>7. OpenScopes' = Front(OpenScopes) /\ taken' = taken /\ OpenScopes # <<>>
  BY <1>1, <1>6, OpenScopesRead, Lowered
<1>8. Promise!CleanupFrom(d) = items /\ Len(OpenScopes) = d
  BY <1>1, InnermostCleanup, Lowered
<1>9. Cardinality(ScopeFrames(1)) = d
  <2>1. 1 \in 0 .. Len(frames)
    BY <1>3
  <2>2. frames \in Seq(Frame) /\ Nested(frames) /\ d = After(frames, Len(frames))
    BY <1>1, Lowered DEF Mirrors
  <2>3. Cardinality(Scopes(frames, 1)) = After(frames, 1)
    BY <2>1, <2>2, CountScopes
  <2>4. Cardinality(ScopeFrames(1)) = Cardinality(Scopes(frames, 1))
    BY OpenScopesRead
  <2> QED BY <1>3, <2>2, <2>3, <2>4
<1> HIDE DEF d, items
<1>10. CASE Live
  BY <1>1, <1>9, <1>10, <1>7, <1>8, <1>2 DEF Record, Promise!Leave, Promise!Exit, Front, Promise!Front,
     KeepsPromise, Promise!Next
<1>11. CASE ~Live
  BY <1>1, <1>11, <1>7, <1>2 DEF Record, Promise!LeaveUnreached, Front, Promise!Front, KeepsPromise,
     Promise!Next
<1> QED BY <1>10, <1>11

\* A function opens its scope, with its owned parameters in it (lower_func).
LEMMA FunctionEnters ==
  ASSUME TypeOK, TypeOK', StackShape, ScopeShape,
         NEW params \in 0 .. MaxParams, NEW void \in BOOLEAN, NEW exprBody \in BOOLEAN,
         BeginFunc(params, void, exprBody)
  PROVE  KeepsPromise
<1> DEFINE owned == [i \in 1 .. params |-> i - 1]
           f == [kind |-> "func", tail |-> exprBody, must |-> "any", depth |-> 0,
                 loops |-> Len(loop_stack), owned |-> owned, defers |-> <<>>,
                 late |-> "no", void |-> void]
           none == <<>>
<1>1. /\ outcome \in {"idle", "lowered"} /\ outcome' = "lowering" /\ frames' = <<f>>
      /\ scope_stack' = <<owned>> /\ defer_scopes' = <<none>>
      /\ moved_locals' = {} /\ taken' = {} /\ event' = event
      /\ next_local' = params /\ fuel' = MaxStmts /\ next_defer' = 0
  BY DEF BeginFunc
<1>2. /\ f.kind = "func" /\ f.depth = 0 /\ f.owned = owned /\ f.defers = none /\ f.late = "no"
      /\ params \in Nat /\ params <= MaxParams /\ MaxStmts \in Nat /\ MaxParams \in Nat
  BY LoweringAssumption
<1>3. f \in Frame
  <2>1. Len(loop_stack) \in Nat
    BY LenProperties DEF TypeOK
  <2>2. owned \in Seq(LocalId) /\ none \in Seq(DeferId)
    BY <1>2 DEF LocalId
  <2> HIDE DEF owned, none
  <2> QED BY <2>1, <2>2 DEF Frame, FuncFrame, Static, none, Late
<1> HIDE DEF f, owned, none
<1>4. ScopesIn(<<>>) = <<>> /\ Nested(<<>>) /\ After(<<>>, 0) = 0 /\ Len(<<>>) = 0
      /\ Scopes(<<>>, 0) = {}
  <2>1. <<>> \in Seq(Frame) /\ Len(<<>>) = 0
    BY EmptySeq
  <2>2. Nested(<<>>) /\ After(<<>>, 0) = 0 /\ Scopes(<<>>, 0) = {}
    BY <2>1 DEF Nested, After, Scopes
  <2>3. ScopesIn(<<>>) \in Seq(Scope) /\ Len(ScopesIn(<<>>)) = 0
    BY <2>1, <2>2, ScopesAre
  <2> QED BY <2>1, <2>2, <2>3, EmptySeq
<1>5. frames = <<>> /\ OpenScopes = <<>>
  BY <1>1, <1>4, OpenScopesRead DEF ScopeShape
<1>6. IsScope(f) /\ Own(f) = 1
  BY <1>2 DEF IsScope, Own
<1>7. /\ Nested(<<f>>) /\ After(<<f>>, 1) = 1 /\ Scopes(<<f>>, 1) = {1}
      /\ ScopesIn(<<f>>) = <<Row(<<f>>, 1)>>
  <2>1. <<f>> = Append(<<>>, f) /\ <<Row(<<f>>, 1)>> = Append(<<>>, Row(<<f>>, 1))
        /\ 0 + 1 = 1 /\ {} \cup {1} = {1} /\ <<>> \in Seq(Frame)
    BY EmptySeq
  <2>2. /\ Nested(Append(<<>>, f)) /\ After(Append(<<>>, f), Len(<<>>) + 1) = 0 + Own(f)
        /\ Scopes(Append(<<>>, f), Len(<<>>) + 1) = {} \cup {Len(<<>>) + 1}
        /\ ScopesIn(Append(<<>>, f)) = Append(<<>>, Row(Append(<<>>, f), Len(<<>>) + 1))
    BY <1>2, <1>4, <1>3, <1>6, <2>1, OneMore
  <2> QED BY <1>4, <1>6, <2>1, <2>2
<1>8. Row(<<f>>, 1) = [owned |-> owned, defers |-> none, late |-> "no", loop |-> FALSE]
  <2>1. (1 > 1 /\ <<f>>[1 - 1].kind = "loop") = FALSE /\ <<f>>[1] = f
    OBVIOUS
  <2> QED BY <1>2, <2>1 DEF Row
<1>9. Mirrors(frames', scope_stack', defer_scopes')
  <2>1. Mirrors(<<f>>, <<owned>>, <<none>>)
    <3>1. Len(<<f>>) = 1 /\ Len(<<owned>>) = 1 /\ Len(<<none>>) = 1 /\ 0 + 1 = 1
          /\ <<f>>[1] = f /\ <<owned>>[1] = owned /\ <<none>>[1] = none
      OBVIOUS
    <3>2. \A i \in {1} : /\ <<owned>>[<<f>>[i].depth + 1] = <<f>>[i].owned
                         /\ <<none>>[<<f>>[i].depth + 1] = <<f>>[i].defers
      BY <1>2, <3>1
    <3> QED BY <1>7, <3>1, <3>2 DEF Mirrors
  <2> QED BY <1>1, <2>1
<1>10. LoopBodies(frames')
  BY <1>1 DEF LoopBodies
<1>11. next_local' + 2 * fuel' <= MaxParams + 2 * MaxStmts /\ next_defer' + fuel' <= MaxStmts
  BY <1>1, <1>2
<1>12. ScopeShape'
  BY <1>1, <1>9, <1>10, <1>11, ScopeShapeAfter
<1>13. OpenScopes' = <<[owned |-> owned, defers |-> none, late |-> "no", loop |-> FALSE]>>
  BY <1>1, <1>7, <1>8, OpenScopesRead
<1>14. Promise!EnterFunction(params)
  BY <1>1, <1>5, <1>13 DEF Promise!EnterFunction, owned, none
<1> QED BY <1>12, <1>14 DEF KeepsPromise, Promise!Next

\* A block opens a scope, the body of a loop one that a jump can leave.
LEMMA BlockEnters ==
  ASSUME TypeOK, StackShape, ScopeShape, NEW tail \in BOOLEAN, EnterBlock(tail)
  PROVE  KeepsPromise
<1> DEFINE f == [kind |-> "block", tail |-> FALSE, must |-> Expected(tail),
                 depth |-> Len(scope_stack), loops |-> Len(loop_stack),
                 owned |-> <<>>, defers |-> <<>>, late |-> "no"]
           gs == Marked(tail)
           loop == Top.kind = "loop"
           row == [owned |-> <<>>, defers |-> <<>>, late |-> "no", loop |-> loop]
<1>1. /\ outcome = "lowering" /\ outcome' = "lowering" /\ frames' = Append(gs, f)
      /\ scope_stack' = Append(scope_stack, <<>>) /\ defer_scopes' = Append(defer_scopes, <<>>)
      /\ UNCHANGED <<moved_locals, taken, next_local, next_defer, event>>
      /\ Statement \/ UNCHANGED fuel
  BY DEF EnterBlock, At, owners
<1>2. /\ gs \in Seq(Frame) /\ gs # <<>> /\ Last(gs).kind = Top.kind /\ ScopesIn(gs) = OpenScopes
      /\ Mirrors(gs, scope_stack, defer_scopes) /\ LoopBodies(gs)
      /\ scope_stack \in Seq(Seq(LocalId)) /\ defer_scopes \in Seq(Seq(DeferId))
  BY <1>1, MarkedScopes, Lowered
<1>3. f \in Frame
  BY <1>1, ExpectedType, Nesting DEF Frame, BlockFrame, Late
<1>4. f.kind = "block" /\ f.depth = Len(scope_stack) /\ f.owned = <<>> /\ f.defers = <<>>
      /\ f.late = "no"
  OBVIOUS
<1> HIDE DEF f, gs
<1>5. /\ Mirrors(Append(gs, f), Append(scope_stack, <<>>), Append(defer_scopes, <<>>))
      /\ LoopBodies(Append(gs, f))
      /\ ScopesIn(Append(gs, f)) = Append(ScopesIn(gs), row)
  BY <1>4, <1>2, <1>3, FramePushed DEF IsScope
<1>6. /\ next_local' + 2 * fuel' <= MaxParams + 2 * MaxStmts
      /\ next_defer' + fuel' <= MaxStmts
  BY <1>1, WithinBounds DEF Leaf
<1>7. Mirrors(frames', scope_stack', defer_scopes') /\ LoopBodies(frames')
  BY <1>1, <1>5
<1>8. ScopeShape'
  BY <1>1, <1>6, <1>7, Lowered, ScopeShapeAfter
<1>9. OpenScopes' = Append(OpenScopes, row) /\ OpenScopes # <<>>
  BY <1>1, <1>2, <1>5, OpenScopesRead, Lowered
<1>10. Promise!EnterScope(loop)
  BY <1>1, <1>9 DEF Promise!EnterScope
<1>11. loop \in BOOLEAN
  OBVIOUS
<1> HIDE DEF loop
<1> QED BY <1>8, <1>10, <1>11 DEF KeepsPromise, Promise!Next

\* The owned locals of a scope change.
LEMMA OwnedGrow ==
  ASSUME NEW s \in Scope, NEW v
  PROVE  [s EXCEPT !.owned = v]
           = [owned |-> v, defers |-> s.defers, late |-> s.late, loop |-> s.loop]
BY DEF Scope

\* Its defers change.
LEMMA LateGrow ==
  ASSUME NEW s \in Scope, NEW v, NEW w
  PROVE  [s EXCEPT !.defers = v, !.late = w]
           = [owned |-> s.owned, defers |-> v, late |-> w, loop |-> s.loop]
<1> DEFINE t == [s EXCEPT !.defers = v]
           o == s.owned  d == s.defers  a == s.late  l == s.loop
<1>1. s = [owned |-> o, defers |-> d, late |-> a, loop |-> l]
  BY DEF Scope
<1> HIDE DEF o, d, a, l
<1>2. t = [owned |-> o, defers |-> v, late |-> a, loop |-> l]
  BY <1>1
<1> HIDE DEF t
<1>3. [t EXCEPT !.late = w] = [owned |-> o, defers |-> v, late |-> w, loop |-> l]
  BY <1>2
<1> QED BY <1>3 DEF o, d, a, l, t

\* The top frame, being a scope's, may become g: the stacks and the open scopes follow.
Collected(g) ==
  LET n == Len(frames)  d == Len(scope_stack)  gs == [frames EXCEPT ![n] = g] IN
  /\ Mirrors(gs, [scope_stack EXCEPT ![d] = g.owned], [defer_scopes EXCEPT ![d] = g.defers])
  /\ LoopBodies(gs)
  /\ Top = frames[n] /\ n \in DOMAIN frames
  /\ scope_stack[d] = Top.owned /\ defer_scopes[d] = Top.defers
  /\ Len(defer_scopes) = d /\ Len(OpenScopes) = d /\ d \in DOMAIN OpenScopes
  /\ d \in DOMAIN scope_stack /\ d \in DOMAIN defer_scopes
  /\ scope_stack # <<>> /\ defer_scopes # <<>> /\ OpenScopes # <<>>
  /\ OpenScopes[d].owned = Top.owned /\ OpenScopes[d].defers = Top.defers
  /\ OpenScopes[d].late = Top.late /\ OpenScopes[d] \in Scope
  /\ ScopesIn(gs) = [OpenScopes EXCEPT ![d] =
       [owned |-> g.owned, defers |-> g.defers, late |-> g.late,
        loop |-> OpenScopes[d].loop]]

\* It becomes so when it collects x.
LEMMA Collects ==
  ASSUME TypeOK, StackShape, ScopeShape, outcome = "lowering", Top.kind \in {"func", "block"},
         NEW x \in Nat, NEW late \in Late,
         NEW g, g = [Top EXCEPT !.owned = Append(@, x)]
                \/ g = [Top EXCEPT !.defers = Append(@, x), !.late = late]
  PROVE  Collected(g)
<1> DEFINE n == Len(frames)  d == Len(scope_stack)  gs == [frames EXCEPT ![n] = g]
<1>1. /\ frames \in Seq(Frame) /\ frames # <<>> /\ Top = Last(frames) /\ Top \in Frame
      /\ scope_stack \in Seq(Seq(LocalId)) /\ defer_scopes \in Seq(Seq(DeferId))
      /\ Mirrors(frames, scope_stack, defer_scopes) /\ LoopBodies(frames)
      /\ Deepest(frames)
      /\ OpenScopes = ScopesIn(frames) /\ OpenScopes \in Seq(Scope) /\ OpenScopes # <<>>
      /\ Top = frames[n] /\ n \in DOMAIN frames
  BY Lowered, TopType
<1>2. g \in Frame /\ SameScope(g, Top)
  <2>1. /\ [Top EXCEPT !.owned = Append(@, x)] \in Frame
        /\ SameShape([Top EXCEPT !.owned = Append(@, x)], Top)
        /\ [Top EXCEPT !.defers = Append(@, x), !.late = late] \in Frame
        /\ SameShape([Top EXCEPT !.defers = Append(@, x), !.late = late], Top)
    BY <1>1, FrameOwns, FrameDefers
  <2>2. g \in Frame /\ SameShape(g, Top)
    BY <2>1
  <2> QED BY <2>2 DEF SameScope, SameShape
<1>3. IsScope(Top)
  BY DEF IsScope
<1> HIDE DEF n, d, gs
<1>4. /\ d >= 1 /\ d = Len(defer_scopes) /\ d = Len(OpenScopes) /\ d \in DOMAIN OpenScopes
      /\ scope_stack[d] = Top.owned /\ defer_scopes[d] = Top.defers
      /\ OpenScopes[d] = Row(frames, n)
      /\ ScopesIn(gs) = [OpenScopes EXCEPT ![d] = Row(gs, n)]
      /\ Row(gs, n) = [owned |-> g.owned, defers |-> g.defers, late |-> g.late,
                       loop |-> Row(frames, n).loop]
      /\ Mirrors(gs, [scope_stack EXCEPT ![d] = g.owned], [defer_scopes EXCEPT ![d] = g.defers])
      /\ LoopBodies(gs)
  <2>1. IsScope(Last(frames)) /\ SameScope(g, Last(frames))
    BY <1>1, <1>2, <1>3
  <2>2. Grown(frames, g, scope_stack, defer_scopes)
    BY <1>1, <1>2, <2>1, ScopeGrows
  <2> QED BY <1>1, <2>2 DEF n, d, gs, Grown
<1>5. OpenScopes[d].owned = Top.owned /\ OpenScopes[d].defers = Top.defers
      /\ OpenScopes[d].late = Top.late
  BY <1>1, <1>4 DEF Row
<1>6. d \in 1 .. d /\ DOMAIN scope_stack = 1 .. d /\ DOMAIN defer_scopes = 1 .. d
  <2>1. d \in Nat /\ DOMAIN scope_stack = 1 .. d
    BY <1>1, LenProperties DEF d
  <2>2. DOMAIN defer_scopes = 1 .. Len(defer_scopes)
    BY <1>1, LenProperties
  <2> QED BY <1>4, <2>1, <2>2
<1>7. scope_stack # <<>> /\ defer_scopes # <<>>
  BY <1>4, <1>6, EmptySeq DEF d
<1>8. OpenScopes[d] \in Scope
  BY <1>1, <1>4, ElementOfSeq, LenProperties
<1> QED BY <1>1, <1>4, <1>5, <1>6, <1>7, <1>8 DEF n, d, gs, Collected

\* x := <owned pointer>: the innermost scope owns one local more.
LEMMA LocalDeclared ==
  ASSUME TypeOK, StackShape, ScopeShape, LetOwned
  PROVE  KeepsPromise
<1> DEFINE n == Len(frames)  d == Len(scope_stack)  x == next_local
           g == [Top EXCEPT !.owned = Append(@, x)]
           gs == [frames EXCEPT ![n] = g]
<1>1. /\ outcome = "lowering" /\ outcome' = "lowering" /\ Top.kind \in {"func", "block"}
      /\ scope_stack' = PushLast(scope_stack, x)
      /\ frames' = [frames EXCEPT ![n].owned = Append(@, x)]
      /\ next_local' = x + 1 /\ fuel' = fuel - 1 /\ fuel > 0
      /\ UNCHANGED <<defer_scopes, moved_locals, taken, next_defer, event>>
  BY DEF LetOwned, At, Declare, Statement
<1>2. /\ x \in Nat /\ fuel \in Nat /\ next_defer \in Nat /\ MaxParams \in Nat /\ MaxStmts \in Nat
      /\ next_local + 2 * fuel <= MaxParams + 2 * MaxStmts
      /\ next_defer + fuel <= MaxStmts
  BY <1>1, LoweringAssumption DEF TypeOK, ScopeShape
<1>3. /\ next_local' + 2 * fuel' <= MaxParams + 2 * MaxStmts
      /\ next_defer' + fuel' <= MaxStmts /\ x \in 0 .. (MaxParams + 2 * MaxStmts)
  BY <1>1, <1>2, SMTT(20)
<1>4. /\ Top \in Frame /\ moved_locals = {} /\ taken = {}
      /\ scope_stack \in Seq(Seq(LocalId)) /\ defer_scopes \in Seq(Seq(DeferId))
      /\ OpenScopes \in Seq(Scope)
  BY <1>1, Lowered
<1>5. g.owned = Append(Top.owned, x) /\ g.defers = Top.defers /\ g.late = Top.late
  BY <1>1, <1>4, FrameFields DEF FuncFrame, BlockFrame
<1>6. g = [Top EXCEPT !.owned = Append(@, x)]
  OBVIOUS
<1> HIDE DEF g, n, d, x
<1>7. /\ Mirrors(gs, [scope_stack EXCEPT ![d] = g.owned], [defer_scopes EXCEPT ![d] = g.defers])
      /\ LoopBodies(gs)
      /\ Top = frames[n] /\ n \in DOMAIN frames
      /\ scope_stack[d] = Top.owned /\ defer_scopes[d] = Top.defers
      /\ Len(OpenScopes) = d /\ d \in DOMAIN OpenScopes
      /\ d \in DOMAIN scope_stack /\ d \in DOMAIN defer_scopes
      /\ scope_stack # <<>> /\ OpenScopes # <<>>
      /\ OpenScopes[d].owned = Top.owned /\ OpenScopes[d].defers = Top.defers
      /\ OpenScopes[d].late = Top.late /\ OpenScopes[d] \in Scope
      /\ ScopesIn(gs) = [OpenScopes EXCEPT ![d] =
           [owned |-> g.owned, defers |-> g.defers, late |-> g.late, loop |-> OpenScopes[d].loop]]
  BY <1>1, <1>2, <1>4, <1>6, Collects DEF Collected, n, d, Late
<1>8. frames' = gs
  BY <1>1, <1>6, <1>7
<1>9. scope_stack' = [scope_stack EXCEPT ![d] = g.owned]
  BY <1>1, <1>5, <1>7 DEF PushLast, d
<1>10. defer_scopes' = [defer_scopes EXCEPT ![d] = g.defers]
  BY <1>1, <1>4, <1>5, <1>7
<1> HIDE DEF gs
<1>11. ScopeShape'
  BY <1>7, <1>8, <1>9, <1>10, <1>1, <1>3, <1>4, ScopeShapeAfter
<1>12. [owned |-> g.owned, defers |-> g.defers, late |-> g.late, loop |-> OpenScopes[d].loop]
       = [OpenScopes[d] EXCEPT !.owned = Append(@, x)]
  <2> DEFINE s == OpenScopes[d]  v == Append(s.owned, x)
  <2>1. s \in Scope /\ s.owned = Top.owned /\ s.defers = Top.defers /\ s.late = Top.late
        /\ v = g.owned
    BY <1>5, <1>7
  <2> HIDE DEF s, v
  <2>2. [s EXCEPT !.owned = v]
         = [owned |-> v, defers |-> s.defers, late |-> s.late, loop |-> s.loop]
    BY <2>1, OwnedGrow
  <2>3. [owned |-> g.owned, defers |-> g.defers, late |-> g.late, loop |-> s.loop]
         = [owned |-> v, defers |-> s.defers, late |-> s.late, loop |-> s.loop]
    BY <1>5, <2>1
  <2> QED BY <2>2, <2>3 DEF s, v
<1>13. OpenScopes' = [OpenScopes EXCEPT ![Len(OpenScopes)].owned = Append(@, x)]
  BY <1>7, <1>8, <1>12, OpenScopesRead
<1>14. Promise!Declare(x)
  BY <1>1, <1>7, <1>13 DEF Promise!Declare
<1> QED BY <1>3, <1>11, <1>14 DEF KeepsPromise, Promise!Next

\* `defer`: the innermost scope runs one expression more.
LEMMA ExpressionDeferred ==
  ASSUME TypeOK, StackShape, ScopeShape, Defer
  PROVE  KeepsPromise
<1> DEFINE n == Len(frames)  d == Len(scope_stack)  x == next_defer
           late == IF Top.owned = <<>> THEN "no" ELSE "yes"
           g == [Top EXCEPT !.defers = Append(Top.defers, x), !.late = late]
           gs == [frames EXCEPT ![n] = g]
<1>1. /\ outcome = "lowering" /\ outcome' = "lowering" /\ Top.kind \in {"func", "block"}
      /\ defer_scopes' = PushLast(defer_scopes, x)
      /\ frames' = [frames EXCEPT ![n] = g]
      /\ late \in Late
      /\ next_defer' = x + 1 /\ fuel' = fuel - 1 /\ fuel > 0
      /\ UNCHANGED <<scope_stack, moved_locals, taken, next_local, event>>
  BY DEF Defer, At, Statement, owners, Late
<1>2. /\ x \in Nat /\ fuel \in Nat /\ next_local \in Nat /\ MaxParams \in Nat /\ MaxStmts \in Nat
      /\ next_local + 2 * fuel <= MaxParams + 2 * MaxStmts
      /\ next_defer + fuel <= MaxStmts
  BY <1>1, LoweringAssumption DEF TypeOK, ScopeShape
<1>3. /\ next_local' + 2 * fuel' <= MaxParams + 2 * MaxStmts
      /\ next_defer' + fuel' <= MaxStmts /\ x \in 0 .. (MaxParams + 2 * MaxStmts)
  BY <1>1, <1>2, SMTT(20)
<1>4. /\ Top \in Frame /\ moved_locals = {} /\ taken = {}
      /\ scope_stack \in Seq(Seq(LocalId)) /\ defer_scopes \in Seq(Seq(DeferId))
      /\ OpenScopes \in Seq(Scope)
  BY <1>1, Lowered
<1>5. g.defers = Append(Top.defers, x) /\ g.owned = Top.owned /\ g.late = late
  BY <1>1, <1>4, FrameFields DEF FuncFrame, BlockFrame
<1>6. g = [Top EXCEPT !.defers = Append(Top.defers, x), !.late = late]
  OBVIOUS
<1> HIDE DEF g, n, d, x, late
<1>7. /\ Mirrors(gs, [scope_stack EXCEPT ![d] = g.owned], [defer_scopes EXCEPT ![d] = g.defers])
      /\ LoopBodies(gs)
      /\ Top = frames[n] /\ n \in DOMAIN frames
      /\ scope_stack[d] = Top.owned /\ defer_scopes[d] = Top.defers
      /\ Len(defer_scopes) = d /\ Len(OpenScopes) = d /\ d \in DOMAIN OpenScopes
      /\ d \in DOMAIN scope_stack /\ d \in DOMAIN defer_scopes
      /\ defer_scopes # <<>> /\ OpenScopes # <<>>
      /\ OpenScopes[d].owned = Top.owned /\ OpenScopes[d].defers = Top.defers
      /\ OpenScopes[d].late = Top.late /\ OpenScopes[d] \in Scope
      /\ ScopesIn(gs) = [OpenScopes EXCEPT ![d] =
           [owned |-> g.owned, defers |-> g.defers, late |-> g.late, loop |-> OpenScopes[d].loop]]
  <2>1. Collected(g)
    BY <1>1, <1>2, <1>6, Collects
  <2> QED BY <2>1 DEF Collected, n, d
<1>8. frames' = gs
  BY <1>1, <1>6, <1>7
<1>9. defer_scopes' = [defer_scopes EXCEPT ![d] = g.defers]
  BY <1>1, <1>5, <1>7 DEF PushLast, d
<1>10. scope_stack' = [scope_stack EXCEPT ![d] = g.owned]
  BY <1>1, <1>4, <1>5, <1>7
<1> HIDE DEF gs
<1>11. ScopeShape'
  BY <1>7, <1>8, <1>9, <1>10, <1>1, <1>3, <1>4, ScopeShapeAfter
<1>12. [owned |-> g.owned, defers |-> g.defers, late |-> g.late, loop |-> OpenScopes[d].loop]
       = [OpenScopes[d] EXCEPT !.defers = Append(OpenScopes[d].defers, x), !.late = late]
  <2> DEFINE s == OpenScopes[d]  v == Append(s.defers, x)
  <2>1. s \in Scope /\ s.owned = Top.owned /\ s.defers = Top.defers /\ v = g.defers
    BY <1>5, <1>7
  <2> HIDE DEF s, v
  <2>2. [s EXCEPT !.defers = v, !.late = late]
         = [owned |-> s.owned, defers |-> v, late |-> late, loop |-> s.loop]
    BY <2>1, LateGrow, ZenonT(20)
  <2>3. [owned |-> g.owned, defers |-> g.defers, late |-> g.late, loop |-> s.loop]
         = [owned |-> s.owned, defers |-> v, late |-> late, loop |-> s.loop]
    BY <1>5, <2>1
  <2> QED BY <2>2, <2>3 DEF s, v
<1>13. OpenScopes' = [OpenScopes EXCEPT ![Len(OpenScopes)] =
                        [OpenScopes[d] EXCEPT !.defers = Append(OpenScopes[d].defers, x),
                                              !.late = late]]
  BY <1>7, <1>8, <1>12, OpenScopesRead
<1>14. Promise!Defer(x)
  BY <1>1, <1>7, <1>13 DEF Promise!Defer, late
<1> QED BY <1>3, <1>11, <1>14 DEF KeepsPromise, Promise!Next

\* A return in the function's own scope: that scope is cleaned up and stays open.
LEMMA ReturnCleans ==
  ASSUME TypeOK, StackShape, ScopeShape, OneScopeAtATime, NEW tail \in BOOLEAN, Ret(tail)
  PROVE  KeepsPromise
<1> DEFINE d == Len(scope_stack)
           items == CleanupItems(LastScope(scope_stack), LastScope(defer_scopes))
<1>1. /\ outcome = "lowering" /\ outcome' = "lowering" /\ Live
      /\ frames' = Marked(tail) /\ Leaf(tail) /\ ~(d > 1)
      /\ scope_stack' = Append(Popped(scope_stack), LastScope(scope_stack))
      /\ defer_scopes' = Append(Popped(defer_scopes), LastScope(defer_scopes))
      /\ UNCHANGED <<moved_locals, taken, next_local, next_defer>>
      /\ event' = [kind |-> "ret", items |-> items, from |-> Cardinality(ScopeFrames(1))]
  BY DEF Ret, At, Complete, owners, Record, OneScopeAtATime
<1>2. /\ d \in Nat /\ d >= 1 /\ Len(OpenScopes) = d /\ OpenScopes # <<>>
      /\ Len(defer_scopes) = d /\ taken = {} /\ moved_locals = {}
      /\ scope_stack \in Seq(Seq(LocalId)) /\ defer_scopes \in Seq(Seq(DeferId))
      /\ frames \in Seq(Frame) /\ Nested(frames)
  BY <1>1, Lowered DEF Mirrors
<1>3. d = 1
  BY <1>1, <1>2
<1>4. scope_stack # <<>> /\ defer_scopes # <<>>
  BY <1>2, <1>3, EmptySeq
<1>5. scope_stack' = scope_stack /\ defer_scopes' = defer_scopes
  BY <1>1, <1>2, <1>4, Rejoined DEF Popped, LastScope
<1>6. Promise!CleanupFrom(1) = items
  BY <1>1, <1>3, InnermostCleanup
<1>7. Cardinality(ScopeFrames(1)) = 1
  <2>1. /\ Len(frames) \in Nat /\ Len(frames) >= 1 /\ FrameNesting
    BY <1>1, Nesting
  <2>2. 1 \in 0 .. Len(frames) /\ 1 \in 1 .. Len(frames) /\ 1 - 1 = 0 /\ 0 + 1 = 1
    BY <2>1
  <2>3. frames[1].kind = "func" /\ frames[1].depth = 0
    BY <1>2, <2>1, <2>2 DEF FrameNesting, Nested, After
  <2>4. After(frames, 1) = 1
    BY <2>2, <2>3 DEF After, Own, IsScope
  <2> QED BY <1>2, <2>2, <2>4, CountScopes, OpenScopesRead
<1>8. /\ ScopesIn(frames') = OpenScopes
      /\ Mirrors(frames', scope_stack', defer_scopes') /\ LoopBodies(frames')
  BY <1>1, <1>5, MarkedScopes
<1>9. /\ next_local' + 2 * fuel' <= MaxParams + 2 * MaxStmts
      /\ next_defer' + fuel' <= MaxStmts
  BY <1>1, WithinBounds
<1>10. ScopeShape'
  BY <1>1, <1>2, <1>8, <1>9, ScopeShapeAfter
<1> HIDE DEF items
<1>11. OpenScopes' = OpenScopes
  BY <1>8, OpenScopesRead
<1>12. Promise!Return
  BY <1>1, <1>2, <1>6, <1>7, <1>11 DEF Promise!Return, Promise!Stay, Promise!Exit
<1> QED BY <1>10, <1>12 DEF KeepsPromise, Promise!Next

\* A jump leaves the body of a loop: the scope above the innermost loop frame
\* that its label can mean.
LEMMA JumpLeaves ==
  ASSUME TypeOK, StackShape, ScopeShape, OneScopeAtATime, outcome = "lowering",
         NEW label \in Labels \cup {NoLabel}, TargetOf(label) # NoTarget,
         Top.kind # "loop", ~(Len(scope_stack) > TargetOf(label).depth + 1)
  PROVE  /\ Len(scope_stack) - TargetOf(label).depth = 1
         /\ TargetOf(label).depth \in Nat
         /\ Cardinality(ScopeFrames(EnclosingLoop(label) + 1)) = Len(scope_stack)
         /\ OpenScopes[Len(scope_stack)].loop
<1> DEFINE n == Len(frames)  d == Len(scope_stack)  t == TargetOf(label)
           S == {i \in DOMAIN frames : frames[i].kind = "loop"
                                       /\ (label = NoLabel \/ frames[i].label = label)}
           m == Max(S)
<1>1. /\ FrameNesting /\ LoopNesting /\ LabelNesting /\ n \in Nat /\ n >= 1
      /\ DOMAIN frames = 1 .. n /\ d \in Nat /\ Top = frames[n]
      /\ \A i \in 1 .. n : frames[i].depth \in Nat
  BY Nesting
<1>2. /\ Mirrors(frames, scope_stack, defer_scopes) /\ LoopBodies(frames) /\ frames \in Seq(Frame)
      /\ OpenScopes = ScopesIn(frames)
  BY Lowered
<1>3. PICK i \in S : frames[i].depth = t.depth
  <2>1. \A u, f : IsTarget(u, f) => u.depth = f.depth
    BY DEF IsTarget
  <2>2. CASE label # NoLabel
    <3>1. t = label_map[label] /\ label \in Labels
      BY <2>2 DEF TargetOf
    <3>2. PICK j \in LoopFrames : frames[j].label = label /\ IsTarget(label_map[label], frames[j])
      BY <1>1, <3>1 DEF LabelNesting
    <3> QED BY <1>1, <2>1, <3>1, <3>2 DEF LoopFrames
  <2>3. CASE label = NoLabel
    <3>1. t = Last(loop_stack) /\ loop_stack # <<>>
      BY <2>3 DEF TargetOf
    <3>2. /\ Len(loop_stack) \in 1 .. Len(loop_stack) /\ t = loop_stack[Len(loop_stack)]
      BY <3>1, FrontElements DEF TypeOK
    <3>3. PICK j \in LoopFrames : frames[j].loops = Len(loop_stack)
      BY <1>1, <3>2 DEF LoopNesting
    <3>4. IsTarget(loop_stack[Len(loop_stack)], frames[j])
      BY <1>1, <3>3 DEF LoopNesting
    <3> QED BY <1>1, <2>1, <2>3, <3>2, <3>3, <3>4 DEF LoopFrames
  <2> QED BY <2>2, <2>3
<1>4. EnclosingLoop(label) = m
  BY DEF EnclosingLoop
<1>5. m \in S /\ i <= m
  <2>1. S \in SUBSET (1 .. n) /\ S # {} /\ i \in S
    BY <1>1, <1>3
  <2> HIDE DEF S
  <2> QED BY <1>1, <2>1, LargestOf
<1> HIDE DEF m, n, d, t
<1>6. m \in 1 .. n - 1 /\ m + 1 \in 1 .. n /\ m \in 1 .. n /\ i \in 1 .. n
  <2>1. frames[m].kind = "loop" /\ m \in 1 .. n /\ i \in 1 .. n
    BY <1>1, <1>3, <1>5
  <2>2. m # n
    BY <1>1, <2>1
  <2> HIDE DEF S
  <2> QED BY <1>1, <2>1, <2>2
<1>7. frames[m].kind = "loop" /\ frames[m + 1].kind = "block"
  BY <1>2, <1>5, <1>6 DEF LoopBodies, n
<1>8. frames[m + 1].depth = frames[m].depth
  <2>1. frames[m + 1].depth = After(frames, (m + 1) - 1) /\ (m + 1) - 1 = m
    BY <1>2, <1>6 DEF Mirrors, Nested, n
  <2>2. After(frames, m) = frames[m].depth + 0
    BY <1>6, <1>7 DEF After, Own, IsScope
  <2> QED BY <1>1, <1>6, <2>1, <2>2
<1>9. frames[m + 1].depth < d /\ (i = m \/ frames[i].depth <= frames[m].depth)
  BY <1>5, <1>6, <1>1, <1>7 DEF FrameNesting, n, d
<1>10. t.depth \in Nat /\ t.depth <= frames[m].depth /\ frames[m].depth < d /\ ~(d > t.depth + 1)
       /\ frames[m].depth \in Nat
  BY <1>1, <1>3, <1>6, <1>8, <1>9 DEF d, t
<1>11. t.depth = frames[m].depth /\ d = frames[m].depth + 1 /\ d - t.depth = 1
  BY <1>1, <1>10
<1>12. After(frames, m + 1) = d
  BY <1>6, <1>7, <1>8, <1>11 DEF Own, IsScope, After
<1>13. Cardinality(ScopeFrames(m + 1)) = d
  BY <1>6, <1>2, <1>12, CountScopes, OpenScopesRead DEF Mirrors, n
<1>14. OpenScopes[d].loop
  <2>1. m + 1 \in Scopes(frames, n)
    BY <1>6, <1>7 DEF Scopes, IsScope
  <2>2. ScopesIn(frames)[frames[m + 1].depth + 1] = Row(frames, m + 1)
    BY <1>2, <2>1, ScopesAre DEF Mirrors, n
  <2>3. m + 1 > 1 /\ (m + 1) - 1 = m
    BY <1>6
  <2>4. Row(frames, m + 1).loop = (m + 1 > 1 /\ frames[(m + 1) - 1].kind = "loop")
    BY DEF Row
  <2>5. Row(frames, m + 1).loop
    BY <1>7, <2>3, <2>4
  <2> QED BY <1>2, <1>8, <1>11, <2>2, <2>5
<1> QED BY <1>4, <1>10, <1>11, <1>13, <1>14 DEF d, t

\* A jump emits the clean-up of the body it leaves, which stays open.
LEMMA JumpCleans ==
  ASSUME TypeOK, StackShape, ScopeShape, OneScopeAtATime, NEW tail \in BOOLEAN,
         NEW skip \in BOOLEAN, NEW label \in Labels \cup {NoLabel}, Jump(tail, skip, label)
  PROVE  KeepsPromise
<1> DEFINE d == Len(scope_stack)  t == TargetOf(label)  items == UnwindItems(t.depth)
<1>1. /\ outcome = "lowering" /\ outcome' = "lowering" /\ Top.kind # "loop"
      /\ frames' = Marked(tail) /\ Leaf(tail) /\ ~(d > t.depth + 1) /\ t # NoTarget
      /\ UNCHANGED <<scope_stack, defer_scopes, moved_locals, taken, next_local, next_defer>>
      /\ Record("jump", items, EnclosingLoop(label) + 1)
  BY DEF Jump, At, Complete, owners, scopes, OneScopeAtATime
<1>2. CASE ~Live
  BY <1>1, <1>2, QuietLeaf DEF Record
<1>3. CASE Live
  <2>1. event' = [kind |-> "jump", items |-> items,
                  from |-> Cardinality(ScopeFrames(EnclosingLoop(label) + 1))]
    BY <1>1, <1>3 DEF Record
  <2>2. /\ d - t.depth = 1 /\ t.depth \in Nat /\ OpenScopes[d].loop
        /\ Cardinality(ScopeFrames(EnclosingLoop(label) + 1)) = d
    BY <1>1, JumpLeaves
  <2>3. /\ d \in Nat /\ d >= 1 /\ Len(OpenScopes) = d /\ taken = {} /\ moved_locals = {}
        /\ OpenScopes \in Seq(Scope)
    BY <1>1, Lowered
  <2> HIDE DEF d, t
  <2>4. items = FlattenSeq([i \in 1 .. 1 |-> CleanupItems(scope_stack[d], defer_scopes[d])])
    BY <2>2, <2>3 DEF UnwindItems, d
  <2>5. Promise!CleanupFrom(d) = items
    BY <1>1, <2>4, FlattenOne, InnermostCleanup DEF d
  <2>6. /\ ScopesIn(frames') = OpenScopes
        /\ Mirrors(frames', scope_stack', defer_scopes') /\ LoopBodies(frames')
    BY <1>1, MarkedScopes
  <2>7. /\ next_local' + 2 * fuel' <= MaxParams + 2 * MaxStmts
        /\ next_defer' + fuel' <= MaxStmts
    BY <1>1, WithinBounds
  <2>8. ScopeShape'
    BY <1>1, <2>3, <2>6, <2>7, ScopeShapeAfter
  <2>9. OpenScopes' = OpenScopes /\ d \in DOMAIN OpenScopes
    BY <2>3, <2>6, OpenScopesRead, LenProperties
  <2> HIDE DEF items
  <2>10. Promise!Jump(d)
    BY <1>1, <2>1, <2>2, <2>5, <2>9 DEF Promise!Jump, Promise!Stay, Promise!Exit
  <2> QED BY <2>8, <2>9, <2>10 DEF KeepsPromise, Promise!Next
<1> QED BY <1>2, <1>3

\* Every action of the lowering keeps the promise.
LEMMA PromiseStep ==
  ASSUME TypeOK, TypeOK', StackShape, ScopeShape, OneScopeAtATime, [Next]_vars
  PROVE  KeepsPromise
<1> USE DEF cfg, scopes, owners, source
<1>1. ASSUME NEW params \in 0 .. MaxParams, NEW void \in BOOLEAN, NEW exprBody \in BOOLEAN,
             BeginFunc(params, void, exprBody)
      PROVE  KeepsPromise
  BY <1>1, FunctionEnters
<1>2. ASSUME EndFunc PROVE KeepsPromise
  BY <1>2, FunctionLeaves
<1>3. ASSUME Defer PROVE KeepsPromise
  BY <1>3, ExpressionDeferred
<1>4. ASSUME LetOwned PROVE KeepsPromise
  BY <1>4, LocalDeclared
<1>5. ASSUME NEW src \in Holders, LetMoved(src) \/ PassOwned(src) PROVE KeepsPromise
  BY <1>5 DEF LetMoved, PassOwned, OneScopeAtATime
<1>7. ASSUME NEW v \in {"void", "value"}, Simple(v) PROVE KeepsPromise
  BY <1>7, QuietLeaf DEF Simple, At, Complete
<1>8. ASSUME LeaveBlock PROVE KeepsPromise
  BY <1>8, BlockLeaves
<1>9. ASSUME AbandonBlock PROVE KeepsPromise
  BY <1>9 DEF AbandonBlock, OneScopeAtATime
<1>10. ASSUME EndLoop PROVE KeepsPromise
  BY <1>10, QuietPop DEF EndLoop, ReturnToCaller
<1>11. ASSUME NextArm PROVE KeepsPromise
  <2> DEFINE n == Len(frames)
             v == IF Top.next = 1 THEN result = "value" ELSE Top.valued
             f == [[frames[n] EXCEPT !.next = @ + 1] EXCEPT !.valued = v]
  <2>1. /\ outcome = "lowering" /\ outcome' = "lowering" /\ Top.kind = "branch"
        /\ UNCHANGED <<scope_stack, defer_scopes, moved_locals, taken, event>>
        /\ UNCHANGED <<next_local, next_defer, fuel>>
    BY <1>11 DEF NextArm
  <2>2. Top \in BranchFrame /\ Top = frames[n] /\ n \in DOMAIN frames
        /\ frames \in Seq(Frame) /\ frames[n] \in Frame
    BY <2>1, TopType, BranchTop DEF TypeOK
  <2>3. frames' = [[frames EXCEPT ![n].next = @ + 1] EXCEPT ![n].valued = v]
    BY <1>11 DEF NextArm, Valued
  <2> HIDE DEF v
  <2>4. frames' = [frames EXCEPT ![n] = f]
    BY <2>2, <2>3
  <2>5. SameScope(f, frames[n]) /\ SameContent(f, frames[n])
    BY <2>1, <2>2 DEF SameScope, SameContent, IsScope, BranchFrame
  <2> HIDE DEF f
  <2>6. \A i \in DOMAIN frames : SameScope(frames'[i], frames[i]) /\ SameContent(frames'[i], frames[i])
    BY <2>2, <2>4, <2>5 DEF SameScope, SameContent
  <2>7. frames' \in Seq(Frame) /\ Len(frames') = Len(frames) /\ DOMAIN frames = 1 .. Len(frames)
    BY <2>2, <2>4, LenProperties DEF TypeOK
  <2>8. /\ ScopesIn(frames') = OpenScopes
        /\ Mirrors(frames', scope_stack, defer_scopes) /\ LoopBodies(frames')
    BY <2>1, <2>6, <2>7, Lowered, SameScopes
  <2>9. /\ next_local' + 2 * fuel' <= MaxParams + 2 * MaxStmts
        /\ next_defer' + fuel' <= MaxStmts
    BY <2>1, WithinBounds
  <2> QED BY <2>1, <2>8, <2>9, Quiet
<1>12. ASSUME EndBranch PROVE KeepsPromise
  BY <1>12, QuietPop DEF EndBranch, ReturnToCaller
<1>13. ASSUME NEW tail \in BOOLEAN, EnterBlock(tail) PROVE KeepsPromise
  BY <1>13, BlockEnters
<1>14. ASSUME NEW tail \in BOOLEAN, NEW label \in Labels \cup {NoLabel}, NEW cond \in BOOLEAN,
              BeginLoop(tail, label, cond)
       PROVE  KeepsPromise
  <2> DEFINE f == [kind |-> "loop", tail |-> TRUE, must |-> "any", depth |-> Len(scope_stack),
                   loops |-> Len(loop_stack) + 1, header |-> next_block, exit |-> next_block + 2,
                   label |-> label]
  <2>1. /\ outcome = "lowering" /\ outcome' = "lowering" /\ Top.kind # "loop" /\ Statement
        /\ frames' = Append(Marked(tail), f)
        /\ UNCHANGED <<scope_stack, defer_scopes, moved_locals, taken, event>>
        /\ UNCHANGED <<next_local, next_defer>>
    BY <1>14 DEF BeginLoop, At
  <2>2. f \in Frame
    BY <2>1, Nesting DEF TypeOK, Frame, LoopFrame, Static, BlockId
  <2>3. f.kind = "loop" /\ f.depth = Len(scope_stack)
    OBVIOUS
  <2> HIDE DEF f
  <2> QED BY <2>1, <2>2, <2>3, QuietPush
<1>15. ASSUME NEW tail \in BOOLEAN, LoopInDeadCode(tail) PROVE KeepsPromise
  BY <1>15, QuietLeaf DEF LoopInDeadCode, At, Complete
<1>16. ASSUME NEW tail \in BOOLEAN, NEW size \in 1 .. MaxArms,
              NEW pats \in [1 .. size -> Pattern], NEW ends \in [1 .. size -> {"yes", "no"}],
              BeginBranch(tail, pats, ends)
       PROVE  KeepsPromise
  <2> DEFINE n       == Len(pats)
             allEnd  == \A i \in 1 .. n : ends[i] = "yes"
             guarded == \E i \in 1 .. n : pats[i] = "cond"
             arm     == [i \in 1 .. n |-> next_block + i]
             unreach == IF allEnd /\ ~guarded THEN arm[n] ELSE next_block + n + 1
             f       == [kind |-> "branch", tail |-> TRUE, must |-> "any",
                         depth |-> Len(scope_stack), loops |-> Len(loop_stack),
                         arms |-> [i \in 1 .. n |-> [block |-> arm[i], ends |-> ends[i]]],
                         next |-> 1, after |-> next_block, unreachable |-> unreach,
                         guarded |-> guarded, valued |-> FALSE]
  <2>1. /\ outcome = "lowering" /\ outcome' = "lowering" /\ Top.kind # "loop" /\ Statement
        /\ UNCHANGED <<scope_stack, defer_scopes, moved_locals, taken, event>>
        /\ UNCHANGED <<next_local, next_defer>>
    BY <1>16 DEF BeginBranch, At
  <2>2. frames' = Append(Marked(tail), f)
    BY <1>16 DEF BeginBranch
  <2>3. f.kind = "branch" /\ f.depth = Len(scope_stack)
    OBVIOUS
  <2> HIDE DEF f
  <2>4. Len(frames') = Len(frames) + 1 /\ frames'[Len(frames) + 1] = f /\ frames' \in Seq(Frame)
    BY <2>1, <2>2, MarkedScopes DEF TypeOK
  <2>5. f \in Frame
    BY <2>1, <2>4, Nesting, ElementOfSeq
  <2> QED BY <2>1, <2>2, <2>3, <2>5, QuietPush
<1>17. ASSUME NEW tail \in BOOLEAN, BranchInDeadCode(tail) PROVE KeepsPromise
  BY <1>17, OpenScopesRead DEF BranchInDeadCode, At, ScopeShape, KeepsPromise, Promise!vars
<1>18. ASSUME NEW tail \in BOOLEAN, Ret(tail) PROVE KeepsPromise
  BY <1>18, ReturnCleans
<1>19. ASSUME NEW tail \in BOOLEAN, RetInDeadCode(tail) PROVE KeepsPromise
  BY <1>19, QuietLeaf DEF RetInDeadCode, At, Complete
<1>20. ASSUME NEW tail \in BOOLEAN, NEW skip \in BOOLEAN, NEW label \in Labels \cup {NoLabel},
              Jump(tail, skip, label)
       PROVE  KeepsPromise
  BY <1>20, JumpCleans
<1>21. ASSUME NEW tail \in BOOLEAN, NEW label \in Labels \cup {NoLabel}, JumpNowhere(tail, label)
       PROVE  KeepsPromise
  BY <1>21, QuietLeaf DEF JumpNowhere, At, Complete
<1>22. ASSUME NEW tail \in BOOLEAN, Propagate(tail) PROVE KeepsPromise
  BY <1>22 DEF Propagate, OneScopeAtATime
<1>23. ASSUME UNCHANGED vars PROVE KeepsPromise
  BY <1>23, OpenScopesRead DEF vars, ScopeShape, Mirrors, LoopBodies, Nested, After, Own, IsScope, Scopes,
     KeepsPromise, Promise!vars
<1> QED
  BY <1>1, <1>2, <1>3, <1>4, <1>5, <1>7, <1>8, <1>9, <1>10, <1>11, <1>12, <1>13, <1>14,
     <1>15, <1>16, <1>17, <1>18, <1>19, <1>20, <1>21, <1>22, <1>23 DEF Next

-----------------------------------------------------------------------------
(* The theorem.                                                            *)

\* In a program that leaves one scope at a time and whose defers stand above the
\* owned locals of their scope, every end of a scope, return and jump of the lowering runs exactly the clean-up the language promises of it
\* (exit_scope, lower_ret, lower_stop, lower_skip, lower_jmp, unwind_scopes_to_depth).
THEOREM CleanupRefinesPromise ==
  ASSUME OneScopeAtATime
  PROVE  Spec => CleanupAsPromised
<1>1. Init => ScopeShape /\ Promise!Init
  BY ScopesAtFirst
<1>2. TypeOK /\ StackShape /\ ScopeShape /\ (TypeOK /\ StackShape)' /\ [Next]_vars
      => ScopeShape' /\ [Promise!Next]_(Promise!vars)
  BY PromiseStep DEF KeepsPromise
<1>3. Spec => [](TypeOK /\ StackShape)
  BY StacksNested
<1> QED BY <1>1, <1>2, <1>3, PTL DEF Spec, CleanupAsPromised, Promise!Spec

-----------------------------------------------------------------------------
(* The entries of a clean-up.                                              *)

Entry(op, x) == [op |-> op, id |-> x]

\* Entries are told apart by what they do and to what.
LEMMA EntriesApart ==
  \A op1, op2, x, y : Entry(op1, x) = Entry(op2, y) => op1 = op2 /\ x = y
<1>1. \A op, x : Entry(op, x).op = op /\ Entry(op, x).id = x
  BY DEF Entry
<1> QED BY <1>1

\* What Drops computes: one drop for each local that is not gone.
LEMMA DropsOnce ==
  ASSUME NEW owned \in Seq(Nat), NEW gone
  PROVE  /\ Drops(owned, gone) \in Seq(Item)
         /\ \A e \in ToSet(Drops(owned, gone)) : \E x \in ToSet(owned) : e = Entry("drop", x)
         /\ \A x : OnceIn(owned, x) /\ x \notin gone =>
                     OnceIn(Drops(owned, gone), Entry("drop", x))
<1> DEFINE n == Len(owned)
           Next1(i, before) ==
             IF owned[i] \in gone THEN before
             ELSE <<[op |-> "drop", id |-> owned[i]]>> \o before
           step == [i \in 1 .. n |-> [before \in Seq(Item) |-> Next1(i, before)]]
<1>1. n \in Nat /\ DOMAIN owned = 1 .. n /\ \A i \in 1 .. n : owned[i] \in Nat
  OBVIOUS
<1>2. \A i \in 1 .. n : [op |-> "drop", id |-> owned[i]] \in Item
  BY <1>1 DEF Item
<1>3. ASSUME NEW i \in 1 .. n, NEW before \in Seq(Item) PROVE Next1(i, before) \in Seq(Item)
  <2> DEFINE e == [op |-> "drop", id |-> owned[i]]
  <2>1. e \in Item
    BY <1>2
  <2> HIDE DEF e
  <2>2. <<e>> \o before \in Seq(Item)
    BY <2>1
  <2> QED BY <1>3, <2>2 DEF e
<1> HIDE DEF n
<1>4. step \in [1 .. n -> [Seq(Item) -> Seq(Item)]] /\ <<>> \in Seq(Item)
  <2>1. ASSUME NEW i \in 1 .. n
        PROVE  [before \in Seq(Item) |-> Next1(i, before)] \in [Seq(Item) -> Seq(Item)]
    <3>1. \A before \in Seq(Item) : Next1(i, before) \in Seq(Item)
      BY <1>3
    <3> HIDE DEF Next1
    <3> QED BY <3>1
  <2>2. <<>> \in Seq(Item)
    OBVIOUS
  <2> DEFINE row == [i \in 1 .. n |-> [before \in Seq(Item) |-> Next1(i, before)]]
  <2>3. step = row
    OBVIOUS
  <2> HIDE DEF Next1, step
  <2>4. row \in [1 .. n -> [Seq(Item) -> Seq(Item)]]
    BY <2>1
  <2> QED BY <2>2, <2>3, <2>4
<1>5. PICK F \in [0 .. n -> Seq(Item)] : F[0] = <<>> /\ \A i \in 1 .. n : F[i] = step[i][F[i - 1]]
  <2> DEFINE V == Seq(Item)  v == <<>>
  <2>1. v \in V
    BY <1>4
  <2>3. step \in [1 .. n -> [V -> V]]
    <3> HIDE DEF step
    <3> QED BY <1>4
  <2> HIDE DEF step, V, v
  <2>2. \E F : Recurses(F, n, V, v, step)
    BY <1>1, <2>1, <2>3, Recursion
  <2> QED BY <2>2 DEF V, v, Recurses
<1>6. \A i \in 1 .. n : i - 1 \in 0 .. n /\ F[i - 1] \in Seq(Item) /\ F[i] = Next1(i, F[i - 1])
  <2> HIDE DEF Next1
  <2>1. \A i \in 1 .. n : i - 1 \in 0 .. n
    BY <1>1
  <2> QED BY <1>5, <2>1
<1>7. F = [i \in 0 .. n |-> IF i = 0 THEN <<>> ELSE Next1(i, F[i - 1])]
  <2> HIDE DEF Next1
  <2>1. \A i \in 0 .. n : i = 0 \/ i \in 1 .. n
    BY <1>1
  <2>2. \A i \in 0 .. n : F[i] = IF i = 0 THEN <<>> ELSE Next1(i, F[i - 1])
    BY <1>1, <1>5, <1>6, <2>1
  <2> QED BY <1>5, <2>2
<1> DEFINE H == CHOOSE H : H = [i \in 0 .. n |->
                IF i = 0 THEN <<>>
                ELSE IF owned[i] \in gone THEN H[i - 1]
                ELSE <<[op |-> "drop", id |-> owned[i]]>> \o H[i - 1]]
<1>8. H = [i \in 0 .. n |->
                IF i = 0 THEN <<>>
                ELSE IF owned[i] \in gone THEN H[i - 1]
                ELSE <<[op |-> "drop", id |-> owned[i]]>> \o H[i - 1]]
  BY <1>7
<1>9. Drops(owned, gone) = H[n]
  BY DEF Drops, n
<1> HIDE DEF H
<1> DEFINE Sound(k) == \A e \in ToSet(H[k]) : \E i \in 1 .. k : e = Entry("drop", owned[i])
           Single(i, k, x) == i \in 1 .. k /\ owned[i] = x /\ \A j \in 1 .. k : owned[j] = x => j = i
           Complete1(k) == \A x : x \notin gone =>
                             \A i : Single(i, k, x) => OnceIn(H[k], Entry("drop", x))
           Good(k) == H[k] \in Seq(Item) /\ Sound(k) /\ Complete1(k)
           B == {k \in 0 .. n : Good(k)}
<1>10. Good(0)
  <2>1. H[0] = <<>>
    BY <1>1, <1>8
  <2>2. ToSet(H[0]) = {}
    BY <2>1 DEF ToSet
  <2>3. \A i, x : ~Single(i, 0, x)
    OBVIOUS
  <2>4. Sound(0)
    BY <2>2
  <2>5. Complete1(0)
    <3> HIDE DEF Single
    <3> QED BY <2>3
  <2>6. H[0] \in Seq(Item)
    BY <2>1
  <2> HIDE DEF Sound, Complete1, H
  <2> QED BY <2>4, <2>5, <2>6 DEF Good
<1>11. ASSUME NEW k \in 0 .. n - 1, Good(k) PROVE Good(k + 1)
  <2>1. /\ k + 1 \in 0 .. n /\ k + 1 # 0 /\ (k + 1) - 1 = k /\ k + 1 \in 1 .. n /\ k \in Nat
        /\ k + 1 \notin 1 .. k /\ 1 .. k + 1 = (1 .. k) \cup {k + 1}
    <3>1. k \in Nat /\ k + 1 \in 0 .. n /\ k + 1 \in 1 .. n
      BY <1>1
    <3> QED BY <3>1
  <2> DEFINE e == [op |-> "drop", id |-> owned[k + 1]]
  <2>2. H[k + 1] = IF owned[k + 1] \in gone THEN H[k] ELSE <<e>> \o H[k]
    BY <1>8, <2>1
  <2>3. e \in Item /\ e = Entry("drop", owned[k + 1])
    BY <1>2, <2>1 DEF Entry
  <2> HIDE DEF e
  <2>4. H[k] \in Seq(Item) /\ Sound(k) /\ Complete1(k)
    BY <1>11
  <2>5. ASSUME NEW i, NEW x, Single(i, k + 1, x), i # k + 1 PROVE Single(i, k, x) /\ x # owned[k + 1]
    BY <2>1, <2>5
  <2>6. ASSUME NEW x, Single(k + 1, k + 1, x)
        PROVE  x = owned[k + 1] /\ \A i \in 1 .. k : owned[i] # x
    BY <2>1, <2>6
  <2>7. CASE owned[k + 1] \in gone
    <3>1. H[k + 1] = H[k]
      BY <2>2, <2>7
    <3>2. Sound(k + 1)
      BY <2>1, <2>4, <3>1
    <3>3. Complete1(k + 1)
      <4> SUFFICES ASSUME NEW x, x \notin gone, NEW i, Single(i, k + 1, x)
                   PROVE  OnceIn(H[k + 1], Entry("drop", x))
        OBVIOUS
      <4>1. owned[i] = x
        OBVIOUS
      <4>2. i # k + 1
        BY <2>7, <4>1
      <4> HIDE DEF Single
      <4> QED BY <2>4, <2>5, <3>1, <4>2
    <3> HIDE DEF Sound, Complete1
    <3> QED BY <2>4, <3>1, <3>2, <3>3
  <2>8. CASE owned[k + 1] \notin gone
    <3> DEFINE one == <<e>>
    <3>1. H[k + 1] = one \o H[k] /\ one \in Seq(Item)
      BY <2>2, <2>3, <2>8
    <3>5. ToSet(one) = {e} /\ OnceIn(one, e)
      BY OnceSingle
    <3> HIDE DEF one
    <3>2. H[k + 1] \in Seq(Item) /\ ToSet(H[k + 1]) = {e} \cup ToSet(H[k])
      BY <2>4, <3>1, <3>5, ConcatElements
    <3>3. Sound(k + 1)
      BY <2>1, <2>3, <2>4, <3>2
    <3>4. Complete1(k + 1)
      <4> SUFFICES ASSUME NEW x, x \notin gone, NEW i, Single(i, k + 1, x)
                   PROVE  OnceIn(H[k + 1], Entry("drop", x))
        OBVIOUS
      <4>1. CASE i = k + 1
        <5>1. x = owned[k + 1] /\ \A j \in 1 .. k : owned[j] # x
          <6> HIDE DEF Single
          <6> QED BY <2>6, <4>1
        <5>2. OnceIn(one, Entry("drop", x))
          BY <2>3, <3>5, <5>1
        <5>3. Entry("drop", x) \notin ToSet(H[k])
          BY <2>4, <5>1, EntriesApart
        <5> QED BY <2>4, <3>1, <5>2, <5>3, OnceConcat
      <4>2. CASE i # k + 1
        <5>1. Single(i, k, x) /\ x # owned[k + 1]
          <6> HIDE DEF Single
          <6> QED BY <2>5, <4>2
        <5>2. OnceIn(H[k], Entry("drop", x))
          <6> HIDE DEF Single
          <6> QED BY <2>4, <5>1
        <5>3. Entry("drop", x) \notin ToSet(one)
          BY <2>3, <3>5, <5>1, EntriesApart
        <5> QED BY <2>4, <3>1, <5>2, <5>3, OnceConcat
      <4> QED BY <4>1, <4>2
    <3> HIDE DEF Sound, Complete1
    <3> QED BY <3>2, <3>3, <3>4
  <2> QED BY <2>7, <2>8
<1> HIDE DEF Good
<1>12. 0 \in B /\ \A k \in 0 .. n - 1 : k \in B => k + 1 \in B
  BY <1>1, <1>10, <1>11
<1>13. Good(n)
  <2>1. B \in SUBSET (0 .. n)
    OBVIOUS
  <2>2. n \in 0 .. n
    BY <1>1
  <2>3. n \in B
    <3> HIDE DEF B
    <3>1. B = 0 .. n
      BY <1>1, <1>12, <2>1, UpTo
    <3> QED BY <2>2, <3>1
  <2> QED BY <2>3
<1>14. H[n] \in Seq(Item) /\ Sound(n) /\ Complete1(n)
  BY <1>13 DEF Good
<1>15. \A e \in ToSet(H[n]) : \E x \in ToSet(owned) : e = Entry("drop", x)
  BY <1>1, <1>14 DEF ToSet
<1>16. ASSUME NEW x, OnceIn(owned, x), x \notin gone PROVE OnceIn(H[n], Entry("drop", x))
  <2>1. PICK i \in 1 .. n : owned[i] = x /\ \A j \in 1 .. n : owned[j] = x => j = i
    BY <1>1, <1>16 DEF OnceIn
  <2>2. Single(i, n, x)
    BY <2>1
  <2> HIDE DEF Single
  <2> QED BY <1>14, <1>16, <2>2
<1> QED BY <1>9, <1>14, <1>15, <1>16

\* What the clean-up of a scope holds: one drop for each local, if none was marked,
\* and each deferred expression once.
LEMMA CleanedOnce ==
  ASSUME NEW owned \in Seq(Nat), NEW defers \in Seq(Nat)
  PROVE  LET items == CleanupItems(owned, defers) IN
         /\ items \in Seq(Item)
         /\ \A x : Entry("init", x) \notin ToSet(items)
         /\ \A x : x \notin ToSet(owned) => Entry("drop", x) \notin ToSet(items)
         /\ \A x : x \notin ToSet(defers) => Entry("run", x) \notin ToSet(items)
         /\ \A x : OnceIn(owned, x) /\ x \notin moved_locals => OnceIn(items, Entry("drop", x))
         /\ \A x : OnceIn(defers, x) => OnceIn(items, Entry("run", x))
<1> DEFINE drops == Drops(owned, moved_locals)
           runs  == [i \in DOMAIN defers |-> [op |-> "run", id |-> defers[i]]]
           items == CleanupItems(owned, defers)
<1>1. items = drops \o Reverse(runs)
  BY DEF CleanupItems
<1>2. runs \in Seq(Item) /\ DOMAIN runs = DOMAIN defers
      /\ \A i \in DOMAIN defers : runs[i] = Entry("run", defers[i])
  <2>1. \A i \in DOMAIN defers : [op |-> "run", id |-> defers[i]] \in Item
    BY DEF Item
  <2> QED BY <2>1 DEF Entry
<1>3. /\ drops \in Seq(Item)
      /\ \A e \in ToSet(drops) : \E x \in ToSet(owned) : e = Entry("drop", x)
      /\ \A x : OnceIn(owned, x) /\ x \notin moved_locals => OnceIn(drops, Entry("drop", x))
  BY DropsOnce
<1> HIDE DEF runs, drops, items
<1>4. /\ Reverse(runs) \in Seq(Item) /\ ToSet(Reverse(runs)) = ToSet(runs)
      /\ \A e : OnceIn(runs, e) => OnceIn(Reverse(runs), e)
  BY <1>2, OnceReversed
<1>5. ToSet(runs) = {Entry("run", x) : x \in ToSet(defers)}
  BY <1>2 DEF ToSet
<1>6. ASSUME NEW x, OnceIn(defers, x) PROVE OnceIn(runs, Entry("run", x))
  <2>1. PICK i \in DOMAIN defers : defers[i] = x /\ \A j \in DOMAIN defers : defers[j] = x => j = i
    BY <1>6 DEF OnceIn
  <2>2. \A j \in DOMAIN defers : runs[j] = Entry("run", x) => defers[j] = x
    BY <1>2 DEF Entry
  <2> QED BY <1>2, <2>1, <2>2 DEF OnceIn
<1>7. items \in Seq(Item) /\ ToSet(items) = ToSet(drops) \cup ToSet(runs)
  BY <1>1, <1>3, <1>4, ConcatElements
<1>8. \A x, y : /\ Entry("run", x) # Entry("drop", y) /\ Entry("init", x) # Entry("drop", y)
                /\ Entry("init", x) # Entry("run", y)
                /\ (Entry("drop", x) = Entry("drop", y) => x = y)
                /\ (Entry("run", x) = Entry("run", y) => x = y)
  <2> TAKE x, y
  <2>1. Entry("run", x) # Entry("drop", y)
    BY EntriesApart
  <2>2. Entry("init", x) # Entry("drop", y)
    BY EntriesApart
  <2>3. Entry("init", x) # Entry("run", y)
    BY EntriesApart
  <2>4. Entry("drop", x) = Entry("drop", y) => x = y
    BY EntriesApart
  <2>5. Entry("run", x) = Entry("run", y) => x = y
    BY EntriesApart
  <2> QED BY <2>1, <2>2, <2>3, <2>4, <2>5
<1>9. ASSUME NEW x PROVE Entry("init", x) \notin ToSet(items)
  <2>1. Entry("init", x) \notin ToSet(drops)
    BY <1>3, <1>8
  <2>2. Entry("init", x) \notin ToSet(runs)
    BY <1>5, <1>8
  <2> QED BY <1>7, <2>1, <2>2
<1>10. ASSUME NEW x PROVE /\ Entry("drop", x) \notin ToSet(runs)
                          /\ Entry("run", x) \notin ToSet(drops)
                          /\ x \notin ToSet(owned) => Entry("drop", x) \notin ToSet(drops)
                          /\ x \notin ToSet(defers) => Entry("run", x) \notin ToSet(runs)
  BY <1>3, <1>5, <1>8
<1>11. ASSUME NEW x, OnceIn(owned, x), x \notin moved_locals PROVE OnceIn(items, Entry("drop", x))
  BY <1>1, <1>3, <1>4, <1>10, <1>11, OnceConcat
<1>12. ASSUME NEW x, OnceIn(defers, x) PROVE OnceIn(items, Entry("run", x))
  BY <1>1, <1>3, <1>4, <1>6, <1>10, <1>12, OnceConcat
<1> QED BY <1>7, <1>9, <1>10, <1>11, <1>12 DEF items

\* Vec::push into the innermost scope.
LEMMA ScopeFilled ==
  ASSUME NEW ss \in Seq(Seq(Nat)), ss # <<>>, NEW y \in Nat, NEW x
  PROVE  /\ x # y /\ Absent(ss, x) => Absent(PushLast(ss, y), x)
         /\ x # y /\ OneIn(ss, x) => OneIn(PushLast(ss, y), x)
         /\ Absent(ss, y) => OneIn(PushLast(ss, y), y)
<1> DEFINE n == Len(ss)  t == PushLast(ss, y)  s == ss[n]  u == Append(s, y)
<1>1. n \in Nat /\ n \in 1 .. n /\ DOMAIN ss = 1 .. n /\ \A i \in 1 .. n : ss[i] \in Seq(Nat)
  BY EmptySeq
<1>2. t = [ss EXCEPT ![n] = u]
  BY DEF PushLast
<1>3. s \in Seq(Nat)
  BY <1>1
<1> HIDE DEF n, t, s
<1> DEFINE one == <<y>>
<1>4. ToSet(one) = {y} /\ OnceIn(one, y)
  BY OnceSingle
<1>5. u = s \o one /\ one \in Seq(Nat) /\ ToSet(u) = ToSet(s) \cup {y}
  <2>1. u = s \o one /\ one \in Seq(Nat)
    BY <1>3, AppendIsConcat
  <2> HIDE DEF one, u
  <2>2. ToSet(u) = ToSet(s) \cup {y}
    BY <1>3, <1>4, <2>1, ConcatElements
  <2> QED BY <2>1, <2>2
<1>6. /\ OnceIn(s, x) /\ x # y => OnceIn(u, x)
      /\ y \notin ToSet(s) => OnceIn(u, y)
  <2> HIDE DEF one, u
  <2> QED BY <1>3, <1>4, <1>5, OnceConcat
<1> HIDE DEF u, one
<1>7. DOMAIN t = 1 .. n /\ t[n] = u /\ \A i \in 1 .. n : i # n => t[i] = ss[i]
  BY <1>1, <1>2
<1>8. ss[n] = s
  BY DEF s
<1>9. x # y /\ Absent(ss, x) => Absent(t, x)
  BY <1>1, <1>5, <1>7, <1>8 DEF Absent
<1>10. ASSUME x # y, OneIn(ss, x) PROVE OneIn(t, x)
  <2>1. PICK k \in 1 .. n : OnceIn(ss[k], x) /\ \A j \in 1 .. n : j # k => x \notin ToSet(ss[j])
    BY <1>1, <1>10 DEF OneIn
  <2>2. \A j \in 1 .. n : j # k => x \notin ToSet(t[j])
    BY <1>1, <1>5, <1>7, <1>8, <1>10, <2>1
  <2>3. OnceIn(t[k], x)
    BY <1>6, <1>7, <1>8, <1>10, <2>1
  <2> QED BY <1>7, <2>2, <2>3 DEF OneIn
<1>11. ASSUME Absent(ss, y) PROVE OneIn(t, y)
  BY <1>1, <1>11, <1>6, <1>7, <1>8 DEF Absent, OneIn
<1> QED BY <1>9, <1>10, <1>11 DEF t

\* Vec::pop of the innermost scope.
LEMMA ScopeClosed ==
  ASSUME NEW ss \in Seq(Seq(Nat)), ss # <<>>, NEW x
  PROVE  /\ LastScope(ss) \in Seq(Nat) /\ Popped(ss) \in Seq(Seq(Nat))
         /\ Absent(ss, x) => x \notin ToSet(LastScope(ss)) /\ Absent(Popped(ss), x)
         /\ OneIn(ss, x) =>
              \/ OnceIn(LastScope(ss), x) /\ Absent(Popped(ss), x)
              \/ x \notin ToSet(LastScope(ss)) /\ OneIn(Popped(ss), x)
<1> DEFINE n == Len(ss)  t == Popped(ss)
<1>1. LastScope(ss) = Last(ss) /\ t = Front(ss)
  BY DEF LastScope, Popped
<1>2. /\ t \in Seq(Seq(Nat)) /\ DOMAIN t = 1 .. n - 1 /\ \A i \in 1 .. n - 1 : t[i] = ss[i]
      /\ n \in 1 .. n /\ Last(ss) = ss[n] /\ Last(ss) \in Seq(Nat)
  BY <1>1, FrontElements
<1>3. /\ n \in Nat /\ DOMAIN ss = 1 .. n
      /\ \A i \in 1 .. n : i # n => i \in 1 .. n - 1
      /\ \A i \in 1 .. n - 1 : i \in 1 .. n /\ i # n
  BY <1>2
<1> HIDE DEF n, t
<1>4. Absent(ss, x) => x \notin ToSet(Last(ss)) /\ Absent(t, x)
  BY <1>2, <1>3 DEF Absent
<1>5. ASSUME OneIn(ss, x)
      PROVE  \/ OnceIn(Last(ss), x) /\ Absent(t, x)
             \/ x \notin ToSet(Last(ss)) /\ OneIn(t, x)
  <2>1. PICK k \in 1 .. n : OnceIn(ss[k], x) /\ \A j \in 1 .. n : j # k => x \notin ToSet(ss[j])
    BY <1>3, <1>5 DEF OneIn
  <2>2. CASE k = n
    BY <1>2, <1>3, <2>1, <2>2 DEF Absent
  <2>3. CASE k # n
    BY <1>2, <1>3, <2>1, <2>3 DEF OneIn
  <2> QED BY <2>2, <2>3
<1> QED BY <1>1, <1>2, <1>4, <1>5 DEF t

-----------------------------------------------------------------------------
(* The account of what has to be cleaned up.                               *)

\* Done once or still in one scope; neither done nor in a scope.
Tally(c, e, x, ss) ==
  \/ OnceIn(c, e) /\ Absent(ss, x)
  \/ e \notin ToSet(c) /\ OneIn(ss, x)
Untold(c, e, x, ss) == e \notin ToSet(c) /\ Absent(ss, x)

DefersKept(c, ds, nd) ==
  \A d \in Nat : IF d < nd THEN Tally(c, Entry("run", d), d, ds)
                           ELSE Untold(c, Entry("run", d), d, ds)

\* What is marked as moved is a temporary, never a variable.
LocalsKept(c, ss, nl, moved) ==
  /\ moved \subseteq 0 .. nl - 1
  /\ \A x \in Nat :
       IF Entry("init", x) \in ToSet(c)
       THEN Tally(c, Entry("drop", x), x, ss) /\ x < nl /\ x \notin moved
       ELSE Untold(c, Entry("drop", x), x, ss)

\* An entry more, of another thing.
LEMMA TallyEmit ==
  ASSUME NEW c \in Seq(Item), NEW its \in Seq(Item), NEW e, e \notin ToSet(its), NEW x, NEW ss
  PROVE  /\ Tally(c, e, x, ss) => Tally(c \o its, e, x, ss)
         /\ Untold(c, e, x, ss) => Untold(c \o its, e, x, ss)
<1>1. c \o its \in Seq(Item) /\ ToSet(c \o its) = ToSet(c) \cup ToSet(its)
  BY ConcatElements
<1>2. OnceIn(c, e) => OnceIn(c \o its, e)
  BY OnceConcat
<1> QED BY <1>1, <1>2 DEF Tally, Untold

\* A scope is left and cleaned up.
LEMMA TallyClosed ==
  ASSUME NEW c \in Seq(Item), NEW its \in Seq(Item), NEW e, NEW x,
         NEW ss \in Seq(Seq(Nat)), ss # <<>>,
         x \notin ToSet(LastScope(ss)) => e \notin ToSet(its)
  PROVE  /\ Untold(c, e, x, ss) => Untold(c \o its, e, x, Popped(ss))
         /\ Tally(c, e, x, ss) /\ (OnceIn(LastScope(ss), x) => OnceIn(its, e)) =>
              Tally(c \o its, e, x, Popped(ss))
<1>1. c \o its \in Seq(Item) /\ ToSet(c \o its) = ToSet(c) \cup ToSet(its)
  BY ConcatElements
<1>2. Untold(c, e, x, ss) => Untold(c \o its, e, x, Popped(ss))
  BY <1>1, ScopeClosed DEF Untold
<1>3. ASSUME Tally(c, e, x, ss), OnceIn(LastScope(ss), x) => OnceIn(its, e)
      PROVE  Tally(c \o its, e, x, Popped(ss))
  <2>1. CASE OnceIn(c, e) /\ Absent(ss, x)
    BY <2>1, ScopeClosed, OnceConcat DEF Tally
  <2>2. CASE e \notin ToSet(c) /\ OneIn(ss, x)
    <3>1. CASE OnceIn(LastScope(ss), x) /\ Absent(Popped(ss), x)
      BY <1>3, <2>2, <3>1, OnceConcat DEF Tally
    <3>2. CASE x \notin ToSet(LastScope(ss)) /\ OneIn(Popped(ss), x)
      BY <1>1, <2>2, <3>2 DEF Tally
    <3> QED BY <2>2, <3>1, <3>2, ScopeClosed
  <2> QED BY <1>3, <2>1, <2>2 DEF Tally
<1> QED BY <1>2, <1>3

\* A deferred expression joins the innermost scope.
LEMMA DefersGrow ==
  ASSUME NEW c \in Seq(Item), NEW ds \in Seq(Seq(Nat)), ds # <<>>, NEW nd \in Nat,
         DefersKept(c, ds, nd)
  PROVE  DefersKept(c, PushLast(ds, nd), nd + 1)
<1> DEFINE t == PushLast(ds, nd)
<1>1. ASSUME NEW d \in Nat
      PROVE  IF d < nd + 1 THEN Tally(c, Entry("run", d), d, t) ELSE Untold(c, Entry("run", d), d, t)
  <2> DEFINE e == Entry("run", d)
  <2>1. IF d < nd THEN Tally(c, e, d, ds) ELSE Untold(c, e, d, ds)
    BY DEF DefersKept
  <2> HIDE DEF e, t
  <2>2. CASE d = nd
    BY <2>1, <2>2, ScopeFilled DEF Untold, t, Tally, e
  <2>3. CASE d # nd
    BY <2>3, ScopeFilled, <2>1 DEF t, Tally, Untold, e
  <2> QED BY <2>2, <2>3
<1> QED BY <1>1 DEF DefersKept

\* Entries of other things change no account of defers.
LEMMA DefersStay ==
  ASSUME NEW c \in Seq(Item), NEW its \in Seq(Item), NEW ds, NEW nd,
         \A x : Entry("run", x) \notin ToSet(its), DefersKept(c, ds, nd)
  PROVE  DefersKept(c \o its, ds, nd)
<1>1. ASSUME NEW d \in Nat
      PROVE  IF d < nd THEN Tally(c \o its, Entry("run", d), d, ds)
                       ELSE Untold(c \o its, Entry("run", d), d, ds)
  <2> DEFINE e == Entry("run", d)
  <2>1. IF d < nd THEN Tally(c, e, d, ds) ELSE Untold(c, e, d, ds)
    BY DEF DefersKept
  <2>2. e \notin ToSet(its)
    OBVIOUS
  <2> HIDE DEF e
  <2>3. IF d < nd THEN Tally(c \o its, e, d, ds) ELSE Untold(c \o its, e, d, ds)
    BY <2>1, <2>2, TallyEmit
  <2> QED BY <2>3 DEF e
<1> QED BY <1>1 DEF DefersKept

\* Values are taken, and no variable is declared.
LEMMA LocalsStay ==
  ASSUME NEW c \in Seq(Item), NEW its \in Seq(Item), NEW ss,
         NEW nl \in Nat, NEW next \in Nat, nl <= next, NEW moved,
         \A x : Entry("init", x) \notin ToSet(its) /\ Entry("drop", x) \notin ToSet(its),
         LocalsKept(c, ss, nl, moved)
  PROVE  LocalsKept(c \o its, ss, next, moved)
<1>1. ToSet(c \o its) = ToSet(c) \cup ToSet(its)
  BY ConcatElements
<1>2. ASSUME NEW x \in Nat
      PROVE  IF Entry("init", x) \in ToSet(c \o its)
             THEN Tally(c \o its, Entry("drop", x), x, ss) /\ x < next /\ x \notin moved
             ELSE Untold(c \o its, Entry("drop", x), x, ss)
  <2> DEFINE e == Entry("drop", x)
  <2>1. IF Entry("init", x) \in ToSet(c)
        THEN Tally(c, e, x, ss) /\ x < nl /\ x \notin moved ELSE Untold(c, e, x, ss)
    BY DEF LocalsKept
  <2>2. e \notin ToSet(its) /\ (Entry("init", x) \in ToSet(c \o its) <=> Entry("init", x) \in ToSet(c))
    BY <1>1
  <2> HIDE DEF e
  <2>3. x < nl => x < next
    OBVIOUS
  <2>4. /\ Tally(c, e, x, ss) => Tally(c \o its, e, x, ss)
        /\ Untold(c, e, x, ss) => Untold(c \o its, e, x, ss)
    BY <2>2, TallyEmit
  <2> QED BY <2>1, <2>2, <2>3, <2>4 DEF e
<1>3. moved \subseteq 0 .. next - 1
  BY DEF LocalsKept
<1> QED BY <1>2, <1>3 DEF LocalsKept

\* A variable y that owns a value is declared in the innermost scope.
LEMMA LocalsGrow ==
  ASSUME NEW c \in Seq(Item), NEW its \in Seq(Item), NEW ss \in Seq(Seq(Nat)), ss # <<>>,
         NEW y \in Nat, NEW next \in Nat, y < next, NEW moved, NEW marked,
         marked \subseteq moved \cup (y + 1 .. next - 1),
         \A x : Entry("init", x) \in ToSet(its) <=> x = y,
         \A x : Entry("drop", x) \notin ToSet(its),
         LocalsKept(c, ss, y, moved)
  PROVE  LocalsKept(c \o its, PushLast(ss, y), next, marked)
<1> DEFINE t == PushLast(ss, y)
<1>1. ToSet(c \o its) = ToSet(c) \cup ToSet(its)
  BY ConcatElements
<1>2. moved \subseteq 0 .. y - 1
  BY DEF LocalsKept
<1>3. marked \subseteq 0 .. next - 1 /\ y \notin marked
  BY <1>2
<1>4. ASSUME NEW x \in Nat
      PROVE  IF Entry("init", x) \in ToSet(c \o its)
             THEN Tally(c \o its, Entry("drop", x), x, t) /\ x < next /\ x \notin marked
             ELSE Untold(c \o its, Entry("drop", x), x, t)
  <2> DEFINE e == Entry("drop", x)
  <2>1. IF Entry("init", x) \in ToSet(c)
        THEN Tally(c, e, x, ss) /\ x < y /\ x \notin moved ELSE Untold(c, e, x, ss)
    BY DEF LocalsKept
  <2>2. e \notin ToSet(its)
    OBVIOUS
  <2>3. Entry("init", x) \in ToSet(c \o its) <=> Entry("init", x) \in ToSet(c) \/ x = y
    BY <1>1
  <2> HIDE DEF e, t
  <2>4. /\ Tally(c, e, x, ss) => Tally(c \o its, e, x, ss)
        /\ Untold(c, e, x, ss) => Untold(c \o its, e, x, ss)
    BY <2>2, TallyEmit
  <2>5. CASE x = y
    BY <2>1, <2>4, <2>5, ScopeFilled, <1>3, <2>3 DEF Untold, t, Tally, e
  <2>6. CASE x # y
    BY <2>6, ScopeFilled, <2>1, <2>3, <2>4 DEF t, Tally, Untold, e
  <2> QED BY <2>5, <2>6
<1> HIDE DEF t
<1> QED BY <1>3, <1>4 DEF LocalsKept, t

\* A scope is opened.
LEMMA KeptOpened ==
  ASSUME NEW c, NEW ds \in Seq(Seq(Nat)), NEW nd, NEW ss \in Seq(Seq(Nat)), NEW nl, NEW moved,
         DefersKept(c, ds, nd), LocalsKept(c, ss, nl, moved)
  PROVE  DefersKept(c, Append(ds, <<>>), nd) /\ LocalsKept(c, Append(ss, <<>>), nl, moved)
<1>1. \A e, x : /\ Tally(c, e, x, ds) => Tally(c, e, x, Append(ds, <<>>))
                /\ Untold(c, e, x, ds) => Untold(c, e, x, Append(ds, <<>>))
                /\ Tally(c, e, x, ss) => Tally(c, e, x, Append(ss, <<>>))
                /\ Untold(c, e, x, ss) => Untold(c, e, x, Append(ss, <<>>))
  BY ScopeOpened DEF Tally, Untold
<1>2. DefersKept(c, Append(ds, <<>>), nd)
  BY <1>1 DEF DefersKept
<1>3. LocalsKept(c, Append(ss, <<>>), nl, moved)
  BY <1>1 DEF LocalsKept
<1> QED BY <1>2, <1>3

\* A scope is left: what it held is cleaned up, once each.
LEMMA KeptClosed ==
  ASSUME NEW c \in Seq(Item), NEW ds \in Seq(Seq(Nat)), ds # <<>>, NEW nd,
         NEW ss \in Seq(Seq(Nat)), ss # <<>>, NEW nl,
         DefersKept(c, ds, nd), LocalsKept(c, ss, nl, moved_locals)
  PROVE  LET its == CleanupItems(LastScope(ss), LastScope(ds)) IN
         /\ DefersKept(c \o its, Popped(ds), nd)
         /\ LocalsKept(c \o its, Popped(ss), nl, moved_locals)
<1> DEFINE its == CleanupItems(LastScope(ss), LastScope(ds))
<1>1. LastScope(ss) \in Seq(Nat) /\ LastScope(ds) \in Seq(Nat)
  BY ScopeClosed
<1>2. /\ its \in Seq(Item)
      /\ \A x : Entry("init", x) \notin ToSet(its)
      /\ \A x : x \notin ToSet(LastScope(ss)) => Entry("drop", x) \notin ToSet(its)
      /\ \A x : x \notin ToSet(LastScope(ds)) => Entry("run", x) \notin ToSet(its)
      /\ \A x : OnceIn(LastScope(ss), x) /\ x \notin moved_locals => OnceIn(its, Entry("drop", x))
      /\ \A x : OnceIn(LastScope(ds), x) => OnceIn(its, Entry("run", x))
  BY <1>1, CleanedOnce
<1> HIDE DEF its
<1>3. ToSet(c \o its) = ToSet(c) \cup ToSet(its)
  BY <1>2, ConcatElements
<1>4. ASSUME NEW d \in Nat
      PROVE  IF d < nd THEN Tally(c \o its, Entry("run", d), d, Popped(ds))
                       ELSE Untold(c \o its, Entry("run", d), d, Popped(ds))
  <2> DEFINE e == Entry("run", d)
  <2>1. IF d < nd THEN Tally(c, e, d, ds) ELSE Untold(c, e, d, ds)
    BY DEF DefersKept
  <2>2. /\ d \notin ToSet(LastScope(ds)) => e \notin ToSet(its)
        /\ OnceIn(LastScope(ds), d) => OnceIn(its, e)
    BY <1>2
  <2> HIDE DEF e
  <2>3. /\ Untold(c, e, d, ds) => Untold(c \o its, e, d, Popped(ds))
        /\ Tally(c, e, d, ds) => Tally(c \o its, e, d, Popped(ds))
    BY <1>2, <2>2, TallyClosed
  <2> QED BY <2>1, <2>3 DEF e
<1>5. ASSUME NEW x \in Nat
      PROVE  IF Entry("init", x) \in ToSet(c \o its)
             THEN Tally(c \o its, Entry("drop", x), x, Popped(ss)) /\ x < nl /\ x \notin moved_locals
             ELSE Untold(c \o its, Entry("drop", x), x, Popped(ss))
  <2> DEFINE e == Entry("drop", x)
  <2>1. IF Entry("init", x) \in ToSet(c)
        THEN Tally(c, e, x, ss) /\ x < nl /\ x \notin moved_locals ELSE Untold(c, e, x, ss)
    BY DEF LocalsKept
  <2>2. /\ x \notin ToSet(LastScope(ss)) => e \notin ToSet(its)
        /\ x \notin moved_locals => (OnceIn(LastScope(ss), x) => OnceIn(its, e))
        /\ Entry("init", x) \in ToSet(c \o its) <=> Entry("init", x) \in ToSet(c)
    BY <1>2, <1>3
  <2> HIDE DEF e
  <2>3. /\ Untold(c, e, x, ss) => Untold(c \o its, e, x, Popped(ss))
        /\ Tally(c, e, x, ss) /\ x \notin moved_locals => Tally(c \o its, e, x, Popped(ss))
    BY <1>2, <2>2, TallyClosed
  <2> QED BY <2>1, <2>2, <2>3 DEF e
<1>6. DefersKept(c \o its, Popped(ds), nd)
  BY <1>4 DEF DefersKept
<1>7. LocalsKept(c \o its, Popped(ss), nl, moved_locals)
  BY <1>5 DEF LocalsKept
<1> QED BY <1>6, <1>7 DEF its

\* A function without branches and loops, whose end is reached so far.
Straight == next_block = 1 /\ Live /\ ~errors
AllScopes(fs) == \A i \in DOMAIN fs : IsScope(fs[i])

Account ==
  /\ 0 \in DOMAIN code /\ code[0] \in Seq(Item)
  /\ DefersKept(code[0], defer_scopes, next_defer)
  /\ LocalsKept(code[0], scope_stack, next_local, moved_locals)

LeakShape ==
  /\ outcome = "lowering" => /\ next_block \in Nat /\ next_block >= 1
                             /\ next_block = 1 => AllScopes(frames)
  /\ outcome = "lowering" /\ Straight =>
       /\ blocks = <<NewBlock(0)>> /\ current_block = 0 /\ result # "none"
       /\ Len(scope_stack) = Len(frames) /\ Account
  /\ outcome = "lowered" /\ Straight => scope_stack = <<>> /\ defer_scopes = <<>> /\ Account

\* What the straight-line part of a function rests on.
LEMMA StraightAhead ==
  ASSUME TypeOK, StackShape, LeakShape, outcome = "lowering", Straight
  PROVE  /\ blocks = <<NewBlock(0)>> /\ current_block = 0 /\ result # "none"
         /\ Len(scope_stack) = Len(frames) /\ Account /\ AllScopes(frames)
         /\ scope_stack \in Seq(Seq(Nat)) /\ scope_stack # <<>>
         /\ defer_scopes \in Seq(Seq(Nat)) /\ defer_scopes # <<>>
         /\ Len(defer_scopes) = Len(scope_stack)
<1>1. /\ blocks = <<NewBlock(0)>> /\ current_block = 0 /\ result # "none"
      /\ Len(scope_stack) = Len(frames) /\ Account /\ AllScopes(frames)
  BY DEF LeakShape, Straight
<1>2. scope_stack \in Seq(Seq(Nat)) /\ defer_scopes \in Seq(Seq(Nat)) /\ frames \in Seq(Frame)
  BY DEF TypeOK, LocalId, DeferId
<1>3. frames # <<>> /\ Len(defer_scopes) = Len(scope_stack)
  BY DEF StackShape, FrameNesting
<1>4. Len(scope_stack) # 0 /\ Len(defer_scopes) # 0
  BY <1>1, <1>2, <1>3, EmptySeq
<1> QED BY <1>1, <1>2, <1>3, <1>4, EmptySeq

\* current_block_mut: what a straight-line step emits goes into the entry.
LEMMA EntryEmits ==
  ASSUME blocks = <<NewBlock(0)>>, current_block = 0, 0 \in DOMAIN code, code[0] \in Seq(Item),
         NEW its \in Seq(Item), Emit(its)
  PROVE  0 \in DOMAIN code' /\ code'[0] = code[0] \o its /\ code'[0] \in Seq(Item)
<1>1. current_block \in Ids(blocks)
  BY DEF Ids, NewBlock
<1>2. CASE its = <<>>
  BY <1>2 DEF Emit
<1>3. CASE its # <<>>
  BY <1>1, <1>3 DEF Emit
<1> QED BY <1>2, <1>3

\* Steps that only mark frames, push a scope or pop one keep a stack of scopes one.
LEMMA ScopesOnly ==
  ASSUME TypeOK, StackShape, outcome = "lowering", AllScopes(frames)
  PROVE  /\ \A tail \in BOOLEAN : AllScopes(Marked(tail)) /\ Len(Marked(tail)) = Len(frames)
         /\ \A tail \in BOOLEAN : \A f : IsScope(f) => AllScopes(Append(Marked(tail), f))
                                               /\ Len(Append(Marked(tail), f)) = Len(frames) + 1
         /\ AllScopes(Front(frames)) /\ Len(Front(frames)) = Len(frames) - 1
         /\ \A f : f.kind = Top.kind =>
              /\ AllScopes([frames EXCEPT ![Len(frames)] = f])
              /\ Len([frames EXCEPT ![Len(frames)] = f]) = Len(frames)
<1>1. /\ frames \in Seq(Frame) /\ frames # <<>> /\ Len(frames) \in DOMAIN frames
      /\ DOMAIN frames = 1 .. Len(frames) /\ Len(frames) \in Nat /\ Top = frames[Len(frames)]
  BY TopType, LenProperties DEF TypeOK
<1>2. ASSUME NEW tail \in BOOLEAN
      PROVE  /\ AllScopes(Marked(tail)) /\ Len(Marked(tail)) = Len(frames)
             /\ Marked(tail) \in Seq(Frame)
  BY MarkedType, <1>1, LenProperties DEF SameShape, AllScopes, IsScope
<1>3. ASSUME NEW tail \in BOOLEAN, NEW f, IsScope(f)
      PROVE  /\ AllScopes(Append(Marked(tail), f))
             /\ Len(Append(Marked(tail), f)) = Len(frames) + 1
  <2> DEFINE m == Marked(tail)  t == Append(m, f)
  <2>1. m \in Seq(Frame \cup {f}) /\ Len(m) = Len(frames) /\ AllScopes(m) /\ DOMAIN m = 1 .. Len(frames)
    BY <1>1, <1>2, LenProperties
  <2> HIDE DEF m
  <2>2. /\ Len(t) = Len(frames) + 1 /\ DOMAIN t = 1 .. Len(frames) + 1
        /\ \A i \in 1 .. Len(frames) : t[i] = m[i]
        /\ t[Len(frames) + 1] = f
    BY <1>1, <2>1, AppendElements
  <2>3. \A i \in 1 .. Len(frames) + 1 : i \in 1 .. Len(frames) \/ i = Len(frames) + 1
    BY <1>1
  <2> HIDE DEF t
  <2>4. AllScopes(t)
    BY <1>3, <2>1, <2>2, <2>3 DEF AllScopes
  <2> QED BY <2>2, <2>4 DEF t, m
<1>4. AllScopes(Front(frames)) /\ Len(Front(frames)) = Len(frames) - 1
  <2>1. /\ Len(Front(frames)) = Len(frames) - 1 /\ DOMAIN Front(frames) = 1 .. Len(frames) - 1
        /\ \A i \in 1 .. Len(frames) - 1 : Front(frames)[i] = frames[i]
    BY <1>1, FrontElements
  <2>2. \A i \in 1 .. Len(frames) - 1 : i \in 1 .. Len(frames)
    BY <1>1
  <2> QED BY <1>1, <2>1, <2>2 DEF AllScopes
<1>5. ASSUME NEW f, f.kind = Top.kind
      PROVE  /\ AllScopes([frames EXCEPT ![Len(frames)] = f])
             /\ Len([frames EXCEPT ![Len(frames)] = f]) = Len(frames)
  <2> DEFINE n == Len(frames)  t == [frames EXCEPT ![n] = f]
  <2>1. /\ DOMAIN t = DOMAIN frames /\ t[n] = f
        /\ \A i \in DOMAIN frames : i # n => t[i] = frames[i]
    BY <1>1
  <2>2. Len(t) = Len(frames)
    BY <1>1
  <2>3. IsScope(f)
    BY <1>1, <1>5 DEF AllScopes, IsScope
  <2> HIDE DEF t
  <2>4. AllScopes(t)
    BY <2>1, <2>3 DEF AllScopes
  <2> QED BY <2>2, <2>4 DEF t
<1> QED BY <1>2, <1>3, <1>4, <1>5

\* Once there is a second block nothing is claimed any more.
LEMMA LeakFar ==
  ASSUME outcome' = "lowering", next_block' \in Nat, next_block' > 1
  PROVE  LeakShape'
BY DEF LeakShape, Straight

\* Nor once the end cannot be reached or an error was reported.
LEMMA LeakDead ==
  ASSUME LeakShape, outcome = "lowering", outcome' = "lowering", next_block' = next_block,
         AllScopes(frames) => AllScopes(frames'), ~Straight'
  PROVE  LeakShape'
<1>1. next_block \in Nat /\ next_block >= 1 /\ (next_block = 1 => AllScopes(frames))
  BY DEF LeakShape
<1> QED BY <1>1 DEF LeakShape

\* A step of the straight-line part that keeps the account.
LEMMA LeakOn ==
  ASSUME LeakShape, outcome = "lowering", outcome' = "lowering",
         UNCHANGED <<blocks, current_block, next_block, errors>>,
         AllScopes(frames) => AllScopes(frames'),
         Straight => result' # "none" /\ Len(scope_stack') = Len(frames') /\ Account'
  PROVE  LeakShape'
<1>1. next_block \in Nat /\ next_block >= 1 /\ (next_block = 1 => AllScopes(frames))
  BY DEF LeakShape
<1>2. Straight' = Straight
  BY DEF Straight, Live
<1>3. Straight => blocks = <<NewBlock(0)>> /\ current_block = 0
  BY DEF LeakShape
<1> QED BY <1>1, <1>2, <1>3 DEF LeakShape

\* lower_func, at its start: the parameters are owned, nothing is cleaned up yet.
LEMMA LeakBegin ==
  ASSUME NEW params \in Nat, NEW void, NEW exprBody, BeginFunc(params, void, exprBody)
  PROVE  LeakShape'
<1> DEFINE owned == [i \in 1 .. params |-> i - 1]
           entry == [i \in 1 .. params |-> [op |-> "init", id |-> i - 1]]
           none  == <<>>
           f == [kind |-> "func", tail |-> exprBody, must |-> "any", depth |-> 0,
                 loops |-> Len(loop_stack), owned |-> owned, defers |-> none,
                 late |-> "no", void |-> void]
<1>1. /\ blocks' = <<NewBlock(0)>> /\ current_block' = 0 /\ next_block' = 1
      /\ code' = [b \in {0} |-> entry] /\ next_local' = params
      /\ scope_stack' = <<owned>> /\ defer_scopes' = <<none>> /\ moved_locals' = {}
      /\ frames' = <<f>> /\ result' = "pending" /\ outcome' = "lowering" /\ next_defer' = 0
  BY DEF BeginFunc
<1>2. /\ DOMAIN owned = 1 .. params /\ \A i \in 1 .. params : owned[i] = i - 1
      /\ DOMAIN entry = 1 .. params /\ \A i \in 1 .. params : entry[i] = Entry("init", i - 1)
  BY DEF Entry
<1>3. entry \in Seq(Item)
  BY DEF Item
<1>4. f.kind = "func"
  OBVIOUS
<1>5. ToSet(none) = {}
  BY DEF ToSet
<1> HIDE DEF f, none, owned, entry
<1>6. AllScopes(frames') /\ Len(frames') = 1 /\ Len(scope_stack') = 1
  BY <1>1, <1>4 DEF AllScopes, IsScope
<1>7. 0 \in DOMAIN code' /\ code'[0] = entry
  BY <1>1
<1>8. \A e \in ToSet(entry) : \E i \in 1 .. params : e = Entry("init", i - 1)
  BY <1>2 DEF ToSet
<1>9. DefersKept(entry, <<none>>, 0)
  <2>1. ASSUME NEW d \in Nat PROVE Untold(entry, Entry("run", d), d, <<none>>)
    BY <1>8, EntriesApart, <1>5 DEF Absent, Untold
  <2>2. \A d \in Nat : ~(d < 0)
    OBVIOUS
  <2> QED BY <2>1, <2>2 DEF DefersKept
<1>10. LocalsKept(entry, <<owned>>, params, {})
  <2>1. ASSUME NEW x \in Nat
        PROVE  IF Entry("init", x) \in ToSet(entry)
               THEN Tally(entry, Entry("drop", x), x, <<owned>>) /\ x < params /\ x \notin {}
               ELSE Untold(entry, Entry("drop", x), x, <<owned>>)
    <3>1. Entry("drop", x) \notin ToSet(entry)
      BY <1>8, EntriesApart
    <3> DEFINE one == <<owned>>
    <3>2. DOMAIN one = {1} /\ one[1] = owned
      OBVIOUS
    <3> HIDE DEF one
    <3>3. CASE Entry("init", x) \in ToSet(entry)
      <4>1. PICK i \in 1 .. params : Entry("init", x) = Entry("init", i - 1)
        BY <1>8, <3>3
      <4>2. x = i - 1
        BY <4>1, EntriesApart
      <4>3. x < params
        BY <4>2
      <4>4. owned[i] = x /\ \A j \in 1 .. params : owned[j] = x => j = i
        BY <1>2, <4>2
      <4>5. OnceIn(owned, x)
        BY <1>2, <4>4 DEF OnceIn
      <4>6. OneIn(one, x)
        BY <3>2, <4>5 DEF OneIn
      <4> QED BY <3>1, <3>3, <4>3, <4>6 DEF Tally, one
    <3>4. CASE Entry("init", x) \notin ToSet(entry)
      BY <1>2, <3>4, <3>2, <3>1 DEF ToSet, Absent, Untold, one
    <3> QED BY <3>3, <3>4
  <2> QED BY <2>1 DEF LocalsKept
<1>11. Account'
  BY <1>1, <1>3, <1>7, <1>9, <1>10 DEF Account
<1> QED BY <1>1, <1>6, <1>11 DEF LeakShape

\* A step that declares an owned variable y.
LEMMA LeakDeclare ==
  ASSUME TypeOK, StackShape, LeakShape, outcome = "lowering", outcome' = "lowering",
         Top.kind \in {"func", "block"}, Declare(next_local),
         NEW its \in Seq(Item), Emit(its),
         \A x : Entry("init", x) \in ToSet(its) <=> x = next_local,
         \A x : Entry("drop", x) \notin ToSet(its) /\ Entry("run", x) \notin ToSet(its),
         next_local' \in Nat, next_local < next_local',
         moved_locals' \subseteq moved_locals \cup (next_local + 1 .. next_local' - 1),
         UNCHANGED <<blocks, current_block, next_block, defer_scopes, next_defer, errors, result>>
  PROVE  LeakShape'
<1> DEFINE f == [frames[Len(frames)] EXCEPT !.owned = Append(@, next_local)]
<1>1. /\ scope_stack' = PushLast(scope_stack, next_local)
      /\ frames' = [frames EXCEPT ![Len(frames)] = f]
  BY DEF Declare
<1>2. f.kind = Top.kind
  <2>1. Top \in Frame /\ Top = frames[Len(frames)] /\ next_local \in Nat
    BY TopType DEF TypeOK
  <2> QED BY <2>1, FrameOwns DEF SameShape
<1> HIDE DEF f
<1>3. AllScopes(frames) => AllScopes(frames') /\ Len(frames') = Len(frames)
  BY <1>1, <1>2, ScopesOnly
<1>4. ASSUME Straight
      PROVE  result' # "none" /\ Len(scope_stack') = Len(frames') /\ Account'
  <2>1. /\ blocks = <<NewBlock(0)>> /\ current_block = 0 /\ result # "none"
        /\ Len(scope_stack) = Len(frames) /\ Account /\ AllScopes(frames)
        /\ scope_stack \in Seq(Seq(Nat)) /\ scope_stack # <<>>
    BY <1>4, StraightAhead
  <2>2. Len(scope_stack') = Len(scope_stack) /\ next_local \in Nat
    BY <1>1, <2>1, PushLastType DEF TypeOK
  <2>3. 0 \in DOMAIN code' /\ code'[0] = code[0] \o its /\ code'[0] \in Seq(Item)
    BY <2>1, EntryEmits DEF Account
  <2>4. DefersKept(code'[0], defer_scopes', next_defer')
    BY <2>1, <2>3, DefersStay DEF Account
  <2>5. LocalsKept(code'[0], scope_stack', next_local', moved_locals')
    BY <1>1, <2>1, <2>2, <2>3, LocalsGrow DEF Account
  <2> QED BY <1>3, <2>1, <2>2, <2>3, <2>4, <2>5 DEF Account
<1> QED BY <1>3, <1>4, LeakOn

\* x := a fresh owned pointer; y := x.
LEMMA LeakLet ==
  ASSUME TypeOK, StackShape, LeakShape,
         LetOwned \/ \E src \in Holders : LetMoved(src)
  PROVE  LeakShape'
<1>1. next_local \in Nat /\ moved_locals \subseteq Nat
  BY DEF TypeOK, LocalId
<1>2. \A x : [op |-> "init", id |-> x] = Entry("init", x) /\ [op |-> "take", id |-> x] = Entry("take", x)
  BY DEF Entry
<1>3. CASE LetOwned
  <2> DEFINE its == <<[op |-> "init", id |-> next_local]>>
  <2>1. /\ outcome = "lowering" /\ outcome' = "lowering" /\ Top.kind \in {"func", "block"}
        /\ Declare(next_local) /\ Emit(its) /\ next_local' = next_local + 1
        /\ UNCHANGED <<blocks, current_block, next_block, defer_scopes, next_defer, errors, result,
                       moved_locals>>
    BY <1>3 DEF LetOwned, At
  <2>2. its \in Seq(Item) /\ ToSet(its) = {Entry("init", next_local)}
    BY <1>1, <1>2, OnceSingle DEF Item
  <2>3. \A x : Entry("init", x) \in ToSet(its) <=> x = next_local
    BY <2>2, EntriesApart
  <2>4. \A x : Entry("drop", x) \notin ToSet(its) /\ Entry("run", x) \notin ToSet(its)
    BY <2>2, EntriesApart
  <2>5. next_local' \in Nat /\ next_local < next_local'
    BY <1>1, <2>1
  <2> HIDE DEF its
  <2> QED BY <2>1, <2>2, <2>3, <2>4, <2>5, LeakDeclare
<1>4. ASSUME NEW src \in Holders, LetMoved(src) PROVE LeakShape'
  <2> DEFINE its == <<[op |-> "take", id |-> src], [op |-> "init", id |-> next_local]>>
  <2>1. /\ outcome = "lowering" /\ outcome' = "lowering" /\ Top.kind \in {"func", "block"}
        /\ Declare(next_local) /\ Emit(its) /\ next_local' = next_local + 2
        /\ moved_locals' = moved_locals \cup {next_local + 1}
        /\ UNCHANGED <<blocks, current_block, next_block, defer_scopes, next_defer, errors, result>>
    BY <1>4 DEF LetMoved, At
  <2>2. its \in Seq(Item) /\ ToSet(its) = {Entry("take", src), Entry("init", next_local)}
    <3>1. src \in Nat
      BY HolderType DEF LocalId
    <3> DEFINE e1 == [op |-> "take", id |-> src]  e2 == [op |-> "init", id |-> next_local]
    <3>2. e1 \in Item /\ e2 \in Item
      BY <1>1, <3>1 DEF Item
    <3>3. e1 = Entry("take", src) /\ e2 = Entry("init", next_local) /\ its = <<e1, e2>>
      BY <1>2
    <3> HIDE DEF e1, e2, its
    <3>4. its \in Seq(Item) /\ DOMAIN its = {1, 2} /\ its[1] = e1 /\ its[2] = e2
      BY <3>2, <3>3
    <3> QED BY <3>3, <3>4 DEF ToSet
  <2> HIDE DEF its
  <2>3. \A x : Entry("init", x) \in ToSet(its) <=> x = next_local
    BY <2>2, EntriesApart
  <2>4. \A x : Entry("drop", x) \notin ToSet(its) /\ Entry("run", x) \notin ToSet(its)
    BY <2>2, EntriesApart
  <2>5. next_local' \in Nat /\ next_local < next_local'
    BY <1>1, <2>1
  <2>6. moved_locals' \subseteq moved_locals \cup (next_local + 1 .. next_local' - 1)
    BY <1>1, <2>1
  <2> QED BY <2>1, <2>2, <2>3, <2>4, <2>5, <2>6, LeakDeclare
<1> QED BY <1>3, <1>4

\* f(x): the value goes, the account of x stays open.
LEMMA LeakPass ==
  ASSUME TypeOK, StackShape, LeakShape, NEW src \in Holders, PassOwned(src)
  PROVE  LeakShape'
<1> DEFINE its == <<[op |-> "take", id |-> src]>>
<1>1. /\ outcome = "lowering" /\ outcome' = "lowering" /\ Emit(its) /\ next_local' = next_local + 1
      /\ UNCHANGED <<blocks, current_block, next_block, scope_stack, defer_scopes, next_defer, errors,
                     result, frames, moved_locals>>
  BY DEF PassOwned, At, scopes
<1>2. next_local \in Nat /\ next_local' \in Nat /\ next_local <= next_local'
  BY <1>1 DEF TypeOK
<1>3. its \in Seq(Item) /\ ToSet(its) = {Entry("take", src)}
  BY HolderType, OnceSingle DEF Item, Entry, LocalId
<1> HIDE DEF its
<1>4. \A x : /\ Entry("init", x) \notin ToSet(its) /\ Entry("drop", x) \notin ToSet(its)
             /\ Entry("run", x) \notin ToSet(its)
  BY <1>3, EntriesApart
<1>5. ASSUME Straight
      PROVE  result' # "none" /\ Len(scope_stack') = Len(frames') /\ Account'
  <2>1. /\ blocks = <<NewBlock(0)>> /\ current_block = 0 /\ result # "none"
        /\ Len(scope_stack) = Len(frames) /\ Account
    BY <1>1, <1>5, StraightAhead
  <2>2. 0 \in DOMAIN code' /\ code'[0] = code[0] \o its /\ code'[0] \in Seq(Item)
    BY <1>1, <1>3, <2>1, EntryEmits DEF Account
  <2>3. DefersKept(code'[0], defer_scopes', next_defer')
    BY <1>1, <1>3, <1>4, <2>1, <2>2, DefersStay DEF Account
  <2>4. LocalsKept(code'[0], scope_stack', next_local', moved_locals')
    BY <1>1, <1>2, <1>3, <1>4, <2>1, <2>2, LocalsStay DEF Account
  <2> QED BY <1>1, <2>1, <2>2, <2>3, <2>4 DEF Account
<1> QED BY <1>1, <1>5, LeakOn

\* defer e.
LEMMA LeakDefer ==
  ASSUME TypeOK, StackShape, LeakShape, Defer
  PROVE  LeakShape'
<1> DEFINE f == [Top EXCEPT !.defers = Append(Top.defers, next_defer),
                             !.late = IF Top.owned = <<>> THEN "no" ELSE "yes"]
<1>1. /\ outcome = "lowering" /\ outcome' = "lowering" /\ Top.kind \in {"func", "block"}
      /\ defer_scopes' = PushLast(defer_scopes, next_defer) /\ next_defer' = next_defer + 1
      /\ frames' = [frames EXCEPT ![Len(frames)] = f]
      /\ UNCHANGED <<blocks, code, current_block, next_block, scope_stack, next_local, moved_locals,
                     errors, result>>
  BY DEF Defer, At, cfg, owners
<1>2. f.kind = Top.kind
  <2> DEFINE late == IF Top.owned = <<>> THEN "no" ELSE "yes"
  <2>1. Top \in Frame /\ next_defer \in Nat /\ late \in Late
    BY <1>1, TopType DEF TypeOK, Defer, Late
  <2> HIDE DEF late
  <2>2. SameShape([Top EXCEPT !.defers = Append(Top.defers, next_defer), !.late = late], Top)
    BY <1>1, <2>1, FrameDefers
  <2> QED BY <2>2 DEF SameShape, f, late
<1> HIDE DEF f
<1>3. AllScopes(frames) => AllScopes(frames') /\ Len(frames') = Len(frames)
  BY <1>1, <1>2, ScopesOnly
<1>4. ASSUME Straight
      PROVE  result' # "none" /\ Len(scope_stack') = Len(frames') /\ Account'
  <2>1. /\ result # "none" /\ Len(scope_stack) = Len(frames) /\ Account /\ AllScopes(frames)
        /\ defer_scopes \in Seq(Seq(Nat)) /\ defer_scopes # <<>> /\ next_defer \in Nat
    BY <1>1, <1>4, StraightAhead DEF TypeOK
  <2>2. DefersKept(code[0], PushLast(defer_scopes, next_defer), next_defer + 1)
    BY <2>1, DefersGrow DEF Account
  <2> QED BY <1>1, <1>3, <2>1, <2>2 DEF Account
<1> QED BY <1>1, <1>3, <1>4, LeakOn

\* A nested block opens a scope.
LEMMA LeakEnter ==
  ASSUME TypeOK, StackShape, LeakShape, NEW tail \in BOOLEAN, EnterBlock(tail)
  PROVE  LeakShape'
<1> DEFINE f == [kind |-> "block", tail |-> FALSE, must |-> Expected(tail),
                 depth |-> Len(scope_stack), loops |-> Len(loop_stack),
                 owned |-> <<>>, defers |-> <<>>, late |-> "no"]
<1>1. /\ outcome = "lowering" /\ outcome' = "lowering" /\ frames' = Append(Marked(tail), f)
      /\ scope_stack' = Append(scope_stack, <<>>) /\ defer_scopes' = Append(defer_scopes, <<>>)
      /\ UNCHANGED <<blocks, code, current_block, next_block, next_defer, next_local, moved_locals,
                     errors, result>>
  BY DEF EnterBlock, At, cfg, owners
<1>2. IsScope(f)
  BY DEF IsScope
<1> HIDE DEF f
<1>3. AllScopes(frames) => AllScopes(frames') /\ Len(frames') = Len(frames) + 1
  BY <1>1, <1>2, ScopesOnly
<1>4. ASSUME Straight
      PROVE  result' # "none" /\ Len(scope_stack') = Len(frames') /\ Account'
  <2>1. /\ result # "none" /\ Len(scope_stack) = Len(frames) /\ Account /\ AllScopes(frames)
        /\ scope_stack \in Seq(Seq(Nat)) /\ defer_scopes \in Seq(Seq(Nat))
    BY <1>1, <1>4, StraightAhead
  <2>2. Len(scope_stack') = Len(scope_stack) + 1
    BY <1>1, <2>1
  <2>3. /\ DefersKept(code[0], Append(defer_scopes, <<>>), next_defer)
        /\ LocalsKept(code[0], Append(scope_stack, <<>>), next_local, moved_locals)
    BY <2>1, KeptOpened DEF Account
  <2> QED BY <1>1, <1>3, <2>1, <2>2, <2>3 DEF Account
<1> QED BY <1>1, <1>3, <1>4, LeakOn

\* exit_scope, and its clean-up into the block under construction.
LEMMA ScopeEnds ==
  ASSUME TypeOK, StackShape, LeakShape, outcome = "lowering", Straight,
         Emit(CleanupItems(LastScope(scope_stack), LastScope(defer_scopes))),
         scope_stack' = Popped(scope_stack), defer_scopes' = Popped(defer_scopes),
         UNCHANGED <<next_local, moved_locals, next_defer>>
  PROVE  Account' /\ Len(scope_stack') = Len(frames) - 1 /\ Len(defer_scopes') = Len(frames) - 1
<1> DEFINE its == CleanupItems(LastScope(scope_stack), LastScope(defer_scopes))
<1>1. /\ blocks = <<NewBlock(0)>> /\ current_block = 0
      /\ Len(scope_stack) = Len(frames) /\ Account
      /\ scope_stack \in Seq(Seq(Nat)) /\ scope_stack # <<>>
      /\ defer_scopes \in Seq(Seq(Nat)) /\ defer_scopes # <<>>
      /\ Len(defer_scopes) = Len(scope_stack)
  BY StraightAhead
<1>2. its \in Seq(Item)
  BY <1>1, ScopeClosed, CleanedOnce
<1>3. /\ DefersKept(code[0] \o its, Popped(defer_scopes), next_defer)
      /\ LocalsKept(code[0] \o its, Popped(scope_stack), next_local, moved_locals)
  BY <1>1, KeptClosed DEF Account
<1>4. 0 \in DOMAIN code' /\ code'[0] = code[0] \o its /\ code'[0] \in Seq(Item)
  <2>1. Emit(its)
    OBVIOUS
  <2> HIDE DEF its
  <2> QED BY <1>1, <1>2, <2>1, EntryEmits DEF Account
<1> HIDE DEF its
<1>5. Len(scope_stack') = Len(frames) - 1 /\ Len(defer_scopes') = Len(frames) - 1
  BY <1>1, PoppedType
<1> QED BY <1>3, <1>4, <1>5 DEF Account

\* The end of a nested block.
LEMMA LeakLeave ==
  ASSUME TypeOK, StackShape, LeakShape, LeaveBlock
  PROVE  LeakShape'
<1> DEFINE v == IF result = "pending" THEN "void" ELSE result
<1>1. /\ outcome = "lowering" /\ outcome' = "lowering" /\ result # "none"
      /\ Emit(CleanupItems(LastScope(scope_stack), LastScope(defer_scopes)))
      /\ scope_stack' = Popped(scope_stack) /\ defer_scopes' = Popped(defer_scopes)
      /\ frames' = Front(frames) /\ result' \in {v, "pending"}
      /\ UNCHANGED <<blocks, current_block, next_block, next_local, moved_locals, next_defer, errors>>
  BY DEF LeaveBlock, ReturnToCaller, owners, source
<1>2. result' # "none"
  BY <1>1
<1>3. AllScopes(frames) => AllScopes(frames') /\ Len(frames') = Len(frames) - 1
  BY <1>1, ScopesOnly
<1>4. ASSUME Straight
      PROVE  result' # "none" /\ Len(scope_stack') = Len(frames') /\ Account'
  BY <1>1, <1>4, StraightAhead, ScopeEnds, <1>2, <1>3
<1> QED BY <1>1, <1>3, <1>4, LeakOn

\* The end of the function: the last scope is left.
LEMMA LeakEnd ==
  ASSUME TypeOK, StackShape, LeakShape, EndFunc
  PROVE  LeakShape'
<1>1. /\ outcome = "lowering" /\ outcome' = "lowered" /\ Top.kind = "func"
      /\ Emit(CleanupItems(LastScope(scope_stack), LastScope(defer_scopes)))
      /\ scope_stack' = Popped(scope_stack) /\ defer_scopes' = Popped(defer_scopes)
      /\ errors => errors'
      /\ UNCHANGED <<current_block, next_block, next_local, moved_locals, next_defer>>
  BY DEF EndFunc, owners, source
<1>2. ASSUME Straight' PROVE scope_stack' = <<>> /\ defer_scopes' = <<>> /\ Account'
  <2>1. Straight
    BY <1>1, <1>2 DEF Straight, Live
  <2>2. Account' /\ Len(scope_stack') = Len(frames) - 1 /\ Len(defer_scopes') = Len(frames) - 1
    BY <1>1, <2>1, ScopeEnds
  <2>3. Len(frames) = 1
    BY <1>1, TopType, LenProperties DEF TypeOK, StackShape, FrameNesting
  <2>4. scope_stack' \in Seq(Seq(Nat)) /\ defer_scopes' \in Seq(Seq(Nat))
    BY <1>1, PoppedType DEF TypeOK, LocalId, DeferId
  <2> QED BY <2>2, <2>3, <2>4, EmptySeq
<1> QED BY <1>1, <1>2 DEF LeakShape

\* A branch takes at least the ids of the block after it and of one arm.
LEMMA BranchIsFar ==
  ASSUME TypeOK, next_block' \in Nat, NEW tail \in BOOLEAN, NEW size \in Nat \ {0},
         NEW pats \in [1 .. size -> Pattern], NEW ends, BeginBranch(tail, pats, ends)
  PROVE  next_block' > 1
<1> DEFINE n        == Len(pats)
           after    == next_block
           arm      == [i \in 1 .. n |-> next_block + i]
           guarded  == \E i \in 1 .. n : pats[i] = "cond"
           reuse    == (\A i \in 1 .. n : ends[i] = "yes") /\ ~guarded
           unreach  == IF reuse THEN arm[n] ELSE next_block + n + 1
           first    == IF reuse THEN next_block + n + 1 ELSE next_block + n + 2
           fallback == IF reuse THEN unreach ELSE after
           ds       == Decision(pats, arm, first, fallback, unreach).blocks
<1>1. next_block' = first + Len(ds)
  BY DEF BeginBranch
<1>2. next_block \in Nat /\ n \in Nat /\ n >= 1 /\ pats \in [1 .. n -> Pattern]
  BY DEF TypeOK
<1> HIDE DEF n, reuse
<1>3. arm \in [1 .. n -> BlockId] /\ after \in BlockId /\ n \in 1 .. n
  BY <1>2 DEF BlockId
<1>4. arm[n] \in BlockId /\ next_block + n + 1 \in BlockId
  BY <1>2, <1>3 DEF BlockId
<1>5. unreach \in BlockId /\ fallback \in BlockId
  <2> HIDE DEF arm
  <2> QED BY <1>3, <1>4
<1>6. first \in Nat /\ first > 1
  BY <1>2
<1>7. Len(ds) \in Nat
  <2>1. first \in BlockId
    BY <1>6 DEF BlockId
  <2> HIDE DEF arm, after, first, fallback, unreach
  <2>2. ds \in Seq(Block)
    BY <1>2, <1>3, <1>5, <2>1, DecisionType
  <2> QED BY <2>2, LenProperties
<1> HIDE DEF first, ds
<1> QED BY <1>1, <1>6, <1>7

\* Every step keeps the account of a straight-line function.
LEMMA LeakStep ==
  ASSUME TypeOK, TypeOK', StackShape, LeakShape, [Next]_vars
  PROVE  LeakShape'
<1>1. ASSUME NEW params \in 0 .. MaxParams, NEW void \in BOOLEAN, NEW exprBody \in BOOLEAN,
             BeginFunc(params, void, exprBody)
      PROVE  LeakShape'
  BY LoweringAssumption, <1>1, LeakBegin
<1>2. ASSUME NEW v \in {"void", "value"}, Simple(v) PROVE LeakShape'
  <2>1. /\ outcome = "lowering" /\ outcome' = "lowering" /\ frames' = Marked(TRUE) /\ result' = v
        /\ UNCHANGED <<blocks, code, current_block, next_block, scope_stack, defer_scopes, next_defer,
                       next_local, moved_locals, errors>>
    BY <1>2 DEF Simple, At, Complete, cfg, scopes, owners, source
  <2>2. AllScopes(frames) => AllScopes(frames') /\ Len(frames') = Len(frames)
    BY <2>1, ScopesOnly
  <2>3. v # "none"
    OBVIOUS
  <2>4. ASSUME Straight
        PROVE  result' # "none" /\ Len(scope_stack') = Len(frames') /\ Account'
    BY <2>1, <2>4, StraightAhead, <2>2, <2>3 DEF Account
  <2> QED BY <2>1, <2>2, <2>4, LeakOn
<1>3. ASSUME AbandonBlock PROVE LeakShape'
  BY <1>3, ScopesOnly, LeakDead DEF AbandonBlock, cfg, ReturnToCaller, LeakShape, Straight, Live
<1>4. ASSUME EndLoop \/ NextArm \/ EndBranch PROVE LeakShape'
  <2>1. /\ outcome = "lowering" /\ outcome' = "lowering" /\ Top.kind \in {"loop", "branch"}
        /\ next_block' = next_block
    BY <1>4 DEF EndLoop, NextArm, EndBranch
  <2>2. next_block \in Nat /\ next_block >= 1 /\ (next_block = 1 => AllScopes(frames))
    BY <2>1 DEF LeakShape
  <2>3. ~AllScopes(frames)
    BY <2>1, TopType DEF AllScopes, IsScope
  <2>4. next_block' > 1 /\ next_block' \in Nat
    BY <2>1, <2>2, <2>3
  <2> QED BY <2>1, <2>4, LeakFar
<1>5. ASSUME NEW tail \in BOOLEAN,
             \/ RetInDeadCode(tail)
             \/ \E label \in Labels \cup {NoLabel} : JumpNowhere(tail, label)
             \/ Ret(tail)
             \/ \E skip \in BOOLEAN, label \in Labels \cup {NoLabel} : Jump(tail, skip, label)
      PROVE  LeakShape'
  BY <1>5, ScopesOnly, LeakDead DEF RetInDeadCode, JumpNowhere, Ret, Jump, At, Complete, cfg, Straight,
     Live
<1>6. ASSUME NEW tail \in BOOLEAN,
             \/ LoopInDeadCode(tail)
             \/ \E label \in Labels \cup {NoLabel}, cond \in BOOLEAN : BeginLoop(tail, label, cond)
             \/ Propagate(tail)
      PROVE  LeakShape'
  <2>1. outcome' = "lowering" /\ next_block' = next_block + 3
    BY <1>6 DEF LoopInDeadCode, BeginLoop, Propagate, At
  <2>2. next_block \in Nat
    BY DEF TypeOK
  <2> QED BY <2>1, <2>2, LeakFar
<1>7. ASSUME NEW tail \in BOOLEAN, NEW size \in 1 .. MaxArms,
             NEW pats \in [1 .. size -> Pattern], NEW ends \in [1 .. size -> {"yes", "no"}],
             BeginBranch(tail, pats, ends)
      PROVE  LeakShape'
  <2>1. size \in Nat \ {0}
    BY LoweringAssumption
  <2>2. next_block' \in Nat
    BY DEF TypeOK
  <2>3. next_block' > 1
    BY <1>7, <2>1, <2>2, BranchIsFar
  <2>4. outcome' = "lowering"
    BY <1>7 DEF BeginBranch, At
  <2> QED BY <2>2, <2>3, <2>4, LeakFar
<1>8. ASSUME NEW tail \in BOOLEAN, BranchInDeadCode(tail) PROVE LeakShape'
  BY <1>8 DEF BranchInDeadCode, LeakShape
<1>9. CASE UNCHANGED vars
  BY <1>9 DEF vars, cfg, scopes, owners, source, LeakShape, Straight, Live, Account
<1> QED
  BY <1>1, <1>2, <1>3, <1>4, <1>5, <1>6, <1>7, <1>8, <1>9,
     LeakLet, LeakPass, LeakDefer, LeakEnter, LeakLeave, LeakEnd
  DEF Next

\* In a function without branches and loops whose end is reached, every deferred
\* expression runs exactly once, and every owned local whose value was not moved away
\* is dropped exactly once (exit_scope, lower_block, lower_func).
THEOREM CleanupIsComplete == Spec => []NothingLeaks
<1>1. Init => LeakShape
  BY DEF Init, LeakShape
<1>2. TypeOK /\ TypeOK' /\ StackShape /\ LeakShape /\ [Next]_vars => LeakShape'
  BY LeakStep
<1>3. TypeOK /\ LeakShape => NothingLeaks
  <2> SUFFICES ASSUME TypeOK, LeakShape, outcome = "lowered", ~errors, next_block = 1, Live
               PROVE  /\ \A d \in 0 .. (next_defer - 1) : Count("run", d) = 1
                      /\ \A x \in Owners \ taken : Count("drop", x) = 1
    BY DEF NothingLeaks
  <2>1. /\ scope_stack = <<>> /\ defer_scopes = <<>>
        /\ DefersKept(code[0], <<>>, next_defer)
        /\ LocalsKept(code[0], <<>>, next_local, moved_locals)
    BY DEF LeakShape, Straight, Account
  <2>2. ASSUME NEW op, NEW x, Tally(code[0], Entry(op, x), x, <<>>) PROVE Count(op, x) = 1
    <3>1. ~OneIn(<<>>, x)
      BY DEF OneIn
    <3>2. OnceIn(code[0], Entry(op, x))
      BY <2>2, <3>1 DEF Tally
    <3>3. PICK i \in DOMAIN code[0] :
            code[0][i] = Entry(op, x) /\ \A j \in DOMAIN code[0] : code[0][j] = Entry(op, x) => j = i
      BY <3>2 DEF OnceIn
    <3>4. {k \in DOMAIN code[0] : code[0][k] = [op |-> op, id |-> x]} = {i}
      BY <3>3 DEF Entry
    <3> QED BY <3>4, FS_Singleton DEF Count
  <2>3. ASSUME NEW d \in 0 .. (next_defer - 1) PROVE Count("run", d) = 1
    BY <2>1, <2>2 DEF TypeOK, DefersKept
  <2>4. ASSUME NEW x \in Owners PROVE Count("drop", x) = 1
    <3>1. x \in Nat /\ Count("init", x) > 0
      BY DEF Owners, TypeOK
    <3>2. {k \in DOMAIN code[0] : code[0][k] = [op |-> "init", id |-> x]} # {}
      BY <3>1, FS_EmptySet DEF Count
    <3>3. Entry("init", x) \in ToSet(code[0])
      BY <3>2 DEF Entry, ToSet
    <3> QED BY <2>1, <2>2, <3>1, <3>3 DEF LocalsKept
  <2> QED BY <2>3, <2>4
<1> QED BY <1>1, <1>2, <1>3, StacksNested, PTL DEF Spec

=============================================================================
