---------------------------- MODULE EscapeCheck ----------------------------
(***************************************************************************)
(* The move and escape checker of korec (frontend/escape): one walk over a *)
(* function, with a stack of scopes of named bindings, that reports E5001  *)
(* for a use of a moved own pointer and E5002 / E5003 for a local borrow   *)
(* that is stored in a field or returned.                                  *)
(*                                                                         *)
(* The checker works on names; what it has to find out is about variables. *)
(* Each action walks over the next construct of an arbitrary program; next *)
(* to the checker's state the module keeps what is true of the program,    *)
(* with every variable told apart by the order of its declaration.  Where  *)
(* the checker and the documents disagree the function has a gap, and the  *)
(* properties name the gaps they do without.  Functions with a defer,      *)
(* whose expression runs later than it is walked, are left out; so are the *)
(* jumps skip, stop and jmp, which change nothing here.                    *)
(***************************************************************************)
EXTENDS Integers, Sequences, FiniteSets, SequencesExt

CONSTANTS
  Names,        \* names of variables
  Features,     \* the constructs the bounded programs may contain
  Trusted,      \* the gaps that the properties are asked about all the same
  MaxStmts,     \* bound: source statements per function, and names bound by its patterns
  MaxGaps,      \* bound: different gaps per function, a ret not counted
  MaxArms       \* bound: arms per branch

Constructs == {"params", "let", "move", "call", "borrow", "assign", "store",
               "ret", "value", "block", "branch", "bind", "loop",
               "shadow",    \* an inner scope declares a name of an outer one
               "infer",     \* a binding without a type annotation
               "lend",      \* an argument that its parameter only borrows
               "unwalked"}  \* an array literal, a constructor, an arm's condition

\* Constructs that the checker and the documents take for different things, and "ret",
\* which the truth of the module takes too simply.
Gap == {"shadow", "infer", "assign", "loop", "value", "lend", "unwalked", "ret"}

ASSUME EscapeAssumption ==
  /\ IsFiniteSet(Names)
  /\ Features \subseteq Constructs /\ Trusted \subseteq Gap
  /\ MaxStmts \in Nat /\ MaxGaps \in Nat /\ MaxArms \in Nat

VARIABLES
  scopes,       \* EscapeContext.scopes
  frames,       \* the block, branch and loop expressions being walked
  phase,        \* "idle" or "walking"
  errors,       \* the error codes emitted for this function
  fuel,
  \* the truth about the program
  next_id,      \* variables declared so far
  moved,        \* variables that may have been moved on a path to this point
  faults,       \* the error codes the function deserves
  gaps          \* the gaps it has so far

vars == <<scopes, frames, phase, errors, fuel, next_id, moved, faults, gaps>>

-----------------------------------------------------------------------------
(* EscapeContext.                                                          *)

Kind == {"own", "borrow", "plain"}
Binding == [name : Names, kind : Kind, moved : BOOLEAN, depth : Nat,
            id : Nat, is : Kind]     \* id and is: the variable, and what it really holds

Positions(ss) == UNION {{<<i, j>> : j \in DOMAIN ss[i]} : i \in DOMAIN ss}
At(ss, p) == ss[p[1]][p[2]]
Below(p, q) == p[1] < q[1] \/ (p[1] = q[1] /\ p[2] < q[2])
Latest(ps) == CHOOSE p \in ps : \A q \in ps \ {p} : Below(q, p)

\* lookup: innermost scope first, and in a scope the latest definition first.
Named(ss, name) == {p \in Positions(ss) : At(ss, p).name = name}
Innermost(ss, name) == Latest(Named(ss, name))
Lookup(ss, name) == At(ss, Innermost(ss, name))

\* The bindings that names mean, with their states set to what state says of them.
SetMoved(ss, state) ==
  [i \in DOMAIN ss |-> [j \in DOMAIN ss[i] |->
     LET b == ss[i][j] IN
     IF b.name \in DOMAIN state /\ Innermost(ss, b.name) = <<i, j>>
     THEN [b EXCEPT !.moved = state[b.name]] ELSE b]]

MarkMoved(ss, names) ==
  SetMoved(ss, [x \in {y \in names : Named(ss, y) # {} /\ Lookup(ss, y).kind = "own"} |-> TRUE])

Owning(ss) == {p \in Positions(ss) : At(ss, p).kind = "own"}
Entry(p, b) == [at |-> p, name |-> b.name, moved |-> b.moved]

\* Mutant of Snapshot: the scopes inside out.
SnapshotInsideOut(ss) ==
  {Entry(<<Len(ss) + 1 - p[1], p[2]>>, At(ss, p)) : p \in Owning(ss)}

\* snapshot_moves lists the own bindings by name, outermost scope first, hidden
\* ones included: the entries are in the order of the bindings' positions.
Snapshot(ss) == {Entry(p, At(ss, p)) : p \in Owning(ss)}

\* The last entry of a name.
LastEntry(snap, name) ==
  CHOOSE e \in snap : e.name = name /\ \A o \in snap \ {e} : o.name = name => Below(o.at, e.at)

\* Mutant of Restore: an arm starts from what the arm before it left.
RestoreNothing(ss, snap) == ss

\* restore_snapshot sets one entry after the other, whatever the kind of the binding
\* the name now means: the last entry of a name stays.
Restore(ss, snap) == SetMoved(ss, [x \in {e.name : e \in snap} |-> LastEntry(snap, x).moved])

MovedIn(snap) == {e.name : e \in {o \in snap : o.moved}}

\* Mutant of Join: a variable is moved after the branch only if the last arm did it.
JoinLast(ss, base, snaps) == MarkMoved(Restore(ss, base), MovedIn(Last(snaps)))

\* The end of Expr::Branch: what any arm moved is moved.
Join(ss, base, snaps) ==
  MarkMoved(Restore(ss, base), UNION {MovedIn(snaps[k]) : k \in DOMAIN snaps})

\* Mutant of Depth: the scope of the parameters is not counted.
DepthOfBody == Len(scopes) - 2

Depth == Len(scopes) - 1
Top == Last(frames)
Visible == {b.name : b \in UNION {ToSet(scopes[i]) : i \in DOMAIN scopes}}
Here == {b.name : b \in ToSet(Last(scopes))}

\* The resolver rejects a second declaration in one scope.
Declarable == Names \ (IF "shadow" \in Features THEN Here ELSE Visible)

Define(ss, name, kind, depth, is) ==
  [ss EXCEPT ![Len(ss)] =
     Append(@, [name |-> name, kind |-> kind, moved |-> FALSE, depth |-> depth,
                id |-> next_id, is |-> is])]

-----------------------------------------------------------------------------
(* The questions the checker answers.                                      *)

\* check_use: E5001.
UseReported(ss, name) ==
  LET b == Lookup(ss, name) IN b.kind = "own" /\ b.moved

\* is_local_borrow, for E5002 and E5003: parameters live as long as the caller.
LocalBorrow(b) == b.kind = "borrow" /\ b.depth > 0

Codes(code, holds) == {c \in {code} : holds}

\* A use of the variable a name means.
AskUse(name) ==
  /\ errors' = errors \cup Codes("E5001", UseReported(scopes, name))
  /\ faults' = faults \cup Codes("E5001", Lookup(scopes, name).id \in moved)

\* A use of a value that leaves the function.  walked: the walk comes to the name;
\* looked: it takes the name for what leaves.  In truth all but the parameters, which
\* are in the first scope, end with the function.
AskEscape(code, name, walked, looked) ==
  LET b     == Lookup(scopes, name)
      local == Innermost(scopes, name)[1] > 1
  IN
  /\ errors' = errors \cup Codes("E5001", walked /\ UseReported(scopes, name))
                     \cup Codes(code, looked /\ LocalBorrow(b))
  /\ faults' = faults \cup Codes("E5001", b.id \in moved)
                     \cup Codes(code, b.is = "borrow" /\ local)

\* The variables moved once a value is handed over.
AfterMove(b) == IF b.is = "own" THEN moved \cup {b.id} ELSE moved

\* Every loop being walked has seen the variable used.
Seen(fs, id) ==
  [i \in DOMAIN fs |-> IF fs[i].kind = "loop" THEN [fs[i] EXCEPT !.used = @ \cup {id}] ELSE fs[i]]

-----------------------------------------------------------------------------
Init ==
  /\ scopes = << <<>> >> /\ frames = <<>> /\ phase = "idle" /\ fuel = 0
  /\ next_id = 0 /\ moved = {} /\ errors = {} /\ faults = {}
  /\ gaps = {}

Block == [kind |-> "block"]

\* check_func: a fresh context with the parameters at depth 0, then the body.
CheckFunc(params, kinds) ==
  /\ phase = "idle"
  /\ params # {} => "params" \in Features
  /\ LET names == SetToSeq(params) IN
     /\ scopes' = << [i \in DOMAIN names |->
                        [name |-> names[i], kind |-> kinds[names[i]], moved |-> FALSE,
                         depth |-> 0, id |-> i - 1, is |-> kinds[names[i]]]], <<>> >>
     /\ next_id' = Len(names)
  /\ frames' = <<Block>> /\ phase' = "walking" /\ fuel' = MaxStmts
  /\ moved' = {} /\ errors' = {} /\ faults' = {} /\ gaps' = {}

InBlock == phase = "walking" /\ Top.kind \in {"block", "loop", "arm"}
Construct(gap) ==
  /\ InBlock /\ fuel > 0 /\ fuel' = fuel - 1
  /\ gaps' = gaps \cup gap /\ Cardinality(gaps' \ {"ret"}) <= MaxGaps
Statement == Construct({})
Shadow(y) == IF y \in Visible THEN {"shadow"} ELSE {}

\* A path that is read, borrowed or assigned to; also the scrutinee of a branch
\* and the subject of a loop.
Use(x) ==
  /\ Statement
  /\ AskUse(x)
  /\ frames' = Seen(frames, Lookup(scopes, x).id)
  /\ UNCHANGED <<scopes, phase, next_id, moved>>

\* x in an expression that the walk does not enter: an element of an array literal
\* or the payload of a constructor, which moves into the value, or a part of the
\* condition of an arm.  Neither a use nor a move is noticed.
Unwalked(x, taken) ==
  LET b == Lookup(scopes, x) IN
  /\ Construct({"unwalked"}) /\ "unwalked" \in Features
  /\ faults' = faults \cup Codes("E5001", b.id \in moved)
  /\ frames' = Seen(frames, b.id)
  /\ moved' = IF taken THEN AfterMove(b) ELSE moved
  /\ UNCHANGED <<scopes, phase, next_id, errors>>

\* f(x): passing an own pointer moves it if the parameter takes it.  The checker does
\* not know the callee and marks every one.
Call(x, taken) ==
  LET b == Lookup(scopes, x) IN
  /\ Construct(IF taken THEN {} ELSE {"lend"}) /\ "call" \in Features
  /\ taken \/ ("lend" \in Features /\ b.is = "own")
  /\ AskUse(x)
  /\ frames' = Seen(frames, b.id)
  /\ scopes' = MarkMoved(scopes, {x})
  /\ moved' = IF taken THEN AfterMove(b) ELSE moved
  /\ UNCHANGED <<phase, next_id>>

\* y T := <literal or call>
LetNew(y, kind) ==
  /\ Construct(Shadow(y)) /\ "let" \in Features
  /\ kind = "borrow" => "borrow" \in Features
  /\ scopes' = Define(scopes, y, kind, Depth, kind)
  /\ next_id' = next_id + 1
  /\ UNCHANGED <<frames, phase, moved, errors, faults>>

\* y := x, annotated with the type of x or not at all.  Without an annotation
\* the checker takes the binding for a plain one.
LetFrom(y, x, annotated) ==
  LET b == Lookup(scopes, x)
      kind == IF annotated THEN b.is ELSE "plain"
  IN
  /\ Construct(Shadow(y) \cup (IF annotated THEN {} ELSE {"infer"})) /\ "move" \in Features
  /\ annotated \/ "infer" \in Features
  /\ AskUse(x)
  /\ frames' = Seen(frames, b.id)
  /\ scopes' = Define(MarkMoved(scopes, {x}), y, kind, Depth, b.is)
  /\ moved' = AfterMove(b)
  /\ next_id' = next_id + 1
  /\ UNCHANGED phase

\* z = x: both are read; nothing is marked as moved.
Assign(z, x) ==
  LET b == Lookup(scopes, x) IN
  /\ Construct({"assign"}) /\ "assign" \in Features
  /\ z # x /\ Lookup(scopes, z).is = b.is
  /\ Lookup(scopes, z).id \notin moved    \* to reach for a moved z is Use(z)
  /\ AskUse(x)
  /\ frames' = Seen(Seen(frames, b.id), Lookup(scopes, z).id)
  /\ moved' = AfterMove(b)
  /\ UNCHANGED <<scopes, phase, next_id>>

\* x as it stands, or in a constructor or an array literal.
Inside(inside) == IF inside THEN {"unwalked"} ELSE {}

\* s.f = x, or s.f = .Some(x); as in an assignment to a variable, nothing is marked
\* as moved.  To reach for s is Use(s).
StoreField(x, inside) ==
  LET b == Lookup(scopes, x) IN
  /\ Construct(IF ~inside /\ b.is = "own" THEN {"assign"} ELSE Inside(inside))
  /\ "store" \in Features /\ (inside => "unwalked" \in Features)
  /\ AskEscape("E5002", x, ~inside, ~inside)
  /\ frames' = Seen(frames, b.id)
  /\ moved' = AfterMove(b)
  /\ UNCHANGED <<scopes, phase, next_id>>

\* ret x, or ret .Ok(x).  What follows is walked all the same; the truth takes the
\* path to go on too and may say too much is moved, so that a function with a ret is
\* one of which MovesNotInvented says nothing.
RetPath(x, inside) ==
  /\ Construct({"ret"} \cup Inside(inside))
  /\ "ret" \in Features /\ (inside => "unwalked" \in Features)
  /\ AskEscape("E5003", x, ~inside, ~inside)
  /\ frames' = Seen(frames, Lookup(scopes, x).id)
  /\ UNCHANGED <<scopes, phase, next_id, moved>>

\* x as the last expression of the function's body, which is its value: walked as
\* a path, and not taken for what is returned.
BodyValue(x) ==
  /\ Construct({"value"}) /\ "value" \in Features /\ Len(frames) = 1
  /\ AskEscape("E5003", x, TRUE, FALSE)
  /\ scopes' = << <<>> >> /\ frames' = <<>> /\ phase' = "idle"
  /\ UNCHANGED <<next_id, moved>>

-----------------------------------------------------------------------------
(* Expr::Block, Expr::Loop, Expr::Branch.                                  *)

EnterBlock ==
  /\ Statement /\ "block" \in Features
  /\ scopes' = Append(scopes, <<>>)
  /\ frames' = Append(frames, Block)
  /\ UNCHANGED <<phase, next_id, moved, errors, faults>>

\* The end of a block; the outermost one is the function's body.
LeaveBlock ==
  /\ phase = "walking" /\ Top.kind = "block"
  /\ frames' = Front(frames)
  /\ IF Len(frames) = 1 THEN phase' = "idle" /\ scopes' = << <<>> >>
     ELSE UNCHANGED phase /\ scopes' = Front(scopes)
  /\ UNCHANGED <<fuel, next_id, moved, errors, faults, gaps>>

EnterLoop ==
  /\ Construct({"loop"}) /\ "loop" \in Features
  /\ scopes' = Append(scopes, <<>>)
  /\ frames' = Append(frames, [kind |-> "loop", first |-> next_id, before |-> moved, used |-> {}])
  /\ UNCHANGED <<phase, next_id, moved, errors, faults>>

\* The body is walked once.  On its second round, what it used may be what it
\* moved; the checker is not asked again.
LeaveLoop ==
  LET again == {v \in Top.used : v < Top.first /\ v \in moved \ Top.before} IN
  /\ phase = "walking" /\ Top.kind = "loop"
  /\ scopes' = Front(scopes) /\ frames' = Front(frames)
  /\ faults' = faults \cup Codes("E5001", again # {})
  /\ UNCHANGED <<phase, errors, fuel, next_id, moved, gaps>>

BeginBranch(n) ==
  /\ Statement /\ "branch" \in Features
  /\ frames' = Append(frames, [kind |-> "branch", base |-> Snapshot(scopes), snaps |-> <<>>,
                               arms |-> n, before |-> moved, after |-> {}])
  /\ UNCHANGED <<scopes, phase, next_id, moved, errors, faults>>

\* The arm's scope with what its pattern binds, and the scope of its body.
EnterArm(bound) ==
  /\ bound \subseteq Declarable
  /\ phase = "walking" /\ Top.kind = "branch" /\ Len(Top.snaps) < Top.arms
  /\ bound # {} => "bind" \in Features /\ fuel > 0
  /\ fuel' = fuel - Cardinality(bound)
  /\ LET inner == Append(Restore(scopes, Top.base), <<>>)
         names == SetToSeq(bound)
     IN  scopes' = Append([inner EXCEPT ![Len(inner)] =
                             [i \in DOMAIN names |->
                                [name |-> names[i], kind |-> "plain", moved |-> FALSE,
                                 depth |-> Len(inner) - 1, id |-> next_id + i - 1,
                                 is |-> "plain"]]], <<>>)
  /\ next_id' = next_id + Cardinality(bound)
  /\ frames' = Append(frames, [kind |-> "arm"])
  /\ moved' = Top.before
  /\ gaps' = gaps \cup UNION {Shadow(x) : x \in bound} /\ Cardinality(gaps' \ {"ret"}) <= MaxGaps
  /\ UNCHANGED <<phase, errors, faults>>

LeaveArm ==
  LET outer == Front(Front(scopes))  n == Len(frames) - 1 IN
  /\ phase = "walking" /\ Top.kind = "arm"
  /\ scopes' = outer
  /\ frames' = [Front(frames) EXCEPT ![n].snaps = Append(@, Snapshot(outer)),
                                     ![n].after = @ \cup moved]
  /\ UNCHANGED <<phase, fuel, next_id, moved, errors, faults, gaps>>

EndBranch ==
  /\ phase = "walking" /\ Top.kind = "branch" /\ Len(Top.snaps) = Top.arms
  /\ scopes' = Join(scopes, Top.base, Top.snaps)
  /\ moved' = Top.after
  /\ frames' = Front(frames)
  /\ UNCHANGED <<phase, fuel, next_id, errors, faults, gaps>>

-----------------------------------------------------------------------------
Next ==
  \/ \E params \in SUBSET Names : \E kinds \in [params -> {"own", "borrow"}] :
       CheckFunc(params, kinds)
  \/ \E x \in Visible : Use(x) \/ BodyValue(x)
  \/ \E x \in Visible, taken \in BOOLEAN : Unwalked(x, taken) \/ Call(x, taken)
  \/ \E x \in Visible, inside \in BOOLEAN : StoreField(x, inside) \/ RetPath(x, inside)
  \/ \E y \in Declarable :
       \/ \E kind \in Kind : LetNew(y, kind)
       \/ \E x \in Visible, annotated \in BOOLEAN : LetFrom(y, x, annotated)
  \/ \E z, x \in Visible : Assign(z, x)
  \/ EnterBlock \/ LeaveBlock
  \/ EnterLoop \/ LeaveLoop
  \/ \E n \in 1 .. MaxArms : BeginBranch(n)
  \/ \E bound \in {b \in SUBSET Names : Cardinality(b) <= 1} : EnterArm(bound)
  \/ LeaveArm
  \/ EndBranch

Spec == Init /\ [][Next]_vars

-----------------------------------------------------------------------------
Saved == SUBSET [at : Nat \X Nat, name : Names, moved : BOOLEAN]
Frame ==
  [kind : {"block", "arm"}]
  \cup [kind : {"loop"}, first : Nat, before : SUBSET Nat, used : SUBSET Nat]
  \cup [kind : {"branch"}, base : Saved, snaps : Seq(Saved), arms : Nat,
        before : SUBSET Nat, after : SUBSET Nat]
Code == {"E5001", "E5002", "E5003"}

\* Every component has its type, and a binding the depth of the scope it is in.
TypeOK ==
  /\ scopes \in Seq(Seq(Binding))
  /\ \A p \in Positions(scopes) : At(scopes, p).depth = p[1] - 1
  /\ frames \in Seq(Frame)
  /\ phase \in {"idle", "walking"} /\ fuel \in Nat
  /\ errors \subseteq Code /\ faults \subseteq Code /\ gaps \subseteq Gap
  /\ next_id \in Nat /\ moved \subseteq 0 .. (next_id - 1)

Bindings(names) == {Lookup(scopes, x) : x \in names}

\* The function has none of these gaps but trusted ones.
Without(set) == gaps \cap set \subseteq Trusted

\* Between two statements the binding of every name in view remembers a move of
\* its variable, through any nesting of branches whose snapshots are taken and
\* restored by name (snapshot_moves, restore_snapshot, mark_moved).
MovesRemembered ==
  InBlock /\ Without({"assign", "infer", "unwalked"}) =>
    \A b \in Bindings(Visible) : b.is = "own" /\ b.id \in moved => b.moved

\* A function that uses a variable after it was moved on some path is rejected
\* (05-memory.md:36).
MovesAreCaught ==
  phase = "idle" /\ Without({"assign", "infer", "loop", "unwalked"}) /\ "E5001" \in faults =>
    "E5001" \in errors

\* Only such a function is rejected: what one arm of a branch moves, the next
\* arm still has, and a name that a variable of an outer scope also has is a
\* different variable (004-scope-and-binding.md:36).
MovesNotInvented ==
  phase = "idle" /\ Without({"shadow", "lend", "ret"}) /\ "E5001" \in errors =>
    "E5001" \in faults

\* A borrow made in the function neither becomes its value nor is stored in a
\* field, unless it is reported (05-memory.md:37).
BorrowsStayLocal ==
  phase = "idle" /\ Without({"infer", "value", "unwalked"}) => faults \cap {"E5002", "E5003"} \subseteq errors
=============================================================================
